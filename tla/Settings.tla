------------------------------ MODULE Settings ------------------------------
(***************************************************************************)
(* The server's settings, in the three places they live: config.toml on    *)
(* disk, the copy the running server reads (ConfigManager, config.rs), and *)
(* the versioned profile schema in the database (api/profiles.rs), whose   *)
(* cached copy sits in the ConfigManager's seed slots.  The operator edits *)
(* the file at any time; boots heal it, complete it with a secret or       *)
(* refuse it; a reload replaces the copy of the running server.            *)
(***************************************************************************)
EXTENDS Integers, Sequences, FiniteSets

CONSTANTS
    Drafts,             \* the files an operator may write: functions on some keys
    Defaults,           \* AppConfig::default(), on every key but "secret"
    SecretPool,         \* the secrets generate_default_jwt_secret may make
    Placeholder,        \* LEGACY_DEFAULT_JWT_SECRET
    EnvUrl,             \* the database DATABASE__URL names, where it is set
    Schemas,            \* profile schemas: [asks, must, keysOk]
    TypeOf,             \* the ProfileFieldType of each field
    FieldValues,        \* JSON values: [json, looks]
    Patrons,            \* the members with a profile
    MaxSettingsSteps    \* bound on operator, admin and member steps

VARIABLES
    file,       \* config.toml: {} or {function from keys to values}
    environ,    \* whether DATABASE__URL is set for the server process
    conf,       \* the running server's copy: {} while it is down
    history,    \* profile_config_versions, oldest first: [schema, on]
    profiles,   \* users.profile
    promised,   \* the secret a restart must find again: {} once it was edited away
    settingsSteps

settingsVars == <<file, environ, conf, history, profiles, promised, settingsSteps>>

ASSUME SettingsAssumption ==
    /\ MaxSettingsSteps \in Nat
    /\ Placeholder \notin SecretPool
    /\ "secret" \notin DOMAIN Defaults
    /\ {"url", "seed", "seedOn", "mail", "verify", "membership", "dues", "member_rank", "lapsed_rank",
        "stripe", "billing", "cors", "origins", "content_origin"} \subseteq DOMAIN Defaults

Up == conf # {}
Copy == CHOOSE c \in conf : TRUE
OnDisk == CHOOSE f \in file : TRUE
With(f, k, v) == [x \in DOMAIN f \cup {k} |-> IF x = k THEN v ELSE f[x]]
SecretOf(f) == IF "secret" \in DOMAIN f THEN {f["secret"]} ELSE {}

-----------------------------------------------------------------------------
\* Reading and writing the file.

\* Existing values take precedence, defaults fill in what is missing.
merge_toml_values(existing, defaults) ==
    [k \in DOMAIN existing \cup DOMAIN defaults |->
        IF k \in DOMAIN existing THEN existing[k] ELSE defaults[k]]

\* A key that is absent and has no serde default: "missing field".
missing_field(f) == DOMAIN Defaults \ DOMAIN f # {}

\* The environment overrides what the file says of the database.
apply_env_overrides(f, set) == IF set THEN With(f, "url", EnvUrl) ELSE f

\* A generated secret has never been in use.
generate_default_jwt_secret ==
    SecretPool \ (promised \cup UNION {SecretOf(f) : f \in file \cup conf})

-----------------------------------------------------------------------------
\* validate_config, block by block.

secret_set(c) == c["secret"] \notin {"", Placeholder}
mail_deliverable(c) == c["mail"] # "no relay"
someone_can_sign_in(c) == c["verify"] => c["mail"] = "on"
dues_sound(c) ==
    c["membership"] =>
        /\ c["dues"] > 0
        /\ c["member_rank"] <= 3            \* billing never grants staff or admin
        /\ c["lapsed_rank"] < c["member_rank"]
stripe_sound(c) == c["stripe"] => c["membership"]
tool_billing_sound(c) == c["billing"] => c["membership"]
\* cors::validate: an allowed origin is listed, or the course content's counts.
cors_validate(c) == c["cors"] => c["origins"] # {} \/ c["content_origin"]
content_origin_sound(c) == c["content_origin"] => c["cors"]

validate_config(c) ==
    /\ secret_set(c) /\ mail_deliverable(c) /\ someone_can_sign_in(c)
    /\ dues_sound(c) /\ stripe_sound(c) /\ tool_billing_sound(c)
    /\ cors_validate(c) /\ content_origin_sound(c)

-----------------------------------------------------------------------------
\* The versioned profile schema.

validate_profile_fields(s) == s.keysOk

get_latest_profile_config_version == history[Len(history)]
insert_profile_config_version(schema, on) ==
    Append(history, [schema |-> schema, on |-> on])

\* The seed slots of the running copy follow the database, not the file.
set_profile_fields(c, schema) == With(c, "seed", schema)
set_profiles_enabled(c, on) == With(c, "seedOn", on)

\* The latest version; the seeds only while there is none.
current_profile_config ==
    IF history = <<>> THEN [schema |-> Copy["seed"], on |-> Copy["seedOn"]]
    ELSE get_latest_profile_config_version

\* One value against its field's type.  A date is any string of ten bytes:
\* `!count == 2` is never true, so the dashes are not looked at.
validate_field(f, v) ==
    CASE TypeOf[f] = "TextArray" -> v.json = "array"
      [] TypeOf[f] = "Number" -> v.json = "number"
      [] TypeOf[f] = "Boolean" -> v.json = "boolean"
      [] TypeOf[f] = "Text" -> v.json = "string"
      [] OTHER -> v.json = "string" /\ TypeOf[f] \in v.looks

\* Unknown fields are refused, given ones checked, required ones demanded.
validate_profile(p, s) ==
    /\ DOMAIN p \subseteq s.asks
    /\ \A f \in DOMAIN p : validate_field(f, p[f])
    /\ s.must \subseteq DOMAIN p

-----------------------------------------------------------------------------
\* Booting.

NotWrittenBack(f, s) == file' = file
\* The configuration completed with a generated secret, overrides included, is
\* written straight back.
persist(f, s) == file' = {With(f, "secret", s)}

\* main: the database is authoritative once a version exists; a fresh install
\* seeds version 1 from the file.
bootstrap_profiles(c) ==
    IF history = <<>>
    THEN IF validate_profile_fields(c["seed"])
         THEN /\ history' = insert_profile_config_version(c["seed"], c["seedOn"])
              /\ conf' = {c}
         ELSE UNCHANGED <<history, conf>>
    ELSE /\ conf' = {set_profiles_enabled(
                        set_profile_fields(c, get_latest_profile_config_version.schema),
                        get_latest_profile_config_version.on)}
         /\ UNCHANGED history

start(c) ==
    IF validate_config(c) THEN bootstrap_profiles(c) ELSE UNCHANGED <<conf, history>>

\* No file: the defaults, with a fresh secret, are written and used as they
\* are; the environment is not looked at.
create_default(s) ==
    /\ file = {}
    /\ file' = {With(Defaults, "secret", s)}
    /\ start(With(Defaults, "secret", s))

\* A file with missing fields is backed up, completed and left for the next
\* boot: this one exits with its own code.
heal(s) ==
    /\ file # {}
    /\ missing_field(OnDisk)
    /\ file' = {merge_toml_values(OnDisk, With(Defaults, "secret", s))}
    /\ UNCHANGED <<conf, history>>

\* A whole file is overridden by the environment, given a secret when it has
\* none, validated and run.
load_file(s) ==
    /\ file # {}
    /\ ~missing_field(OnDisk)
    /\ LET c == apply_env_overrides(OnDisk, environ')
       IN  IF SecretOf(c) \in {{}, {""}}
           THEN persist(c, s) /\ start(With(c, "secret", s))
           ELSE UNCHANGED file /\ start(c)

load_config(set) ==
    /\ ~Up
    /\ environ' = set
    /\ \E s \in generate_default_jwt_secret :
          create_default(s) \/ heal(s) \/ load_file(s)
    /\ promised' = IF conf' = {} \/ promised # {} THEN promised
                   ELSE SecretOf(CHOOSE c \in conf' : TRUE)
    /\ UNCHANGED <<profiles, settingsSteps>>

-----------------------------------------------------------------------------
\* While the server runs.

Busy == settingsSteps < MaxSettingsSteps /\ settingsSteps' = settingsSteps + 1

\* A reload never heals and never writes: what does not parse or validate is
\* refused and the server keeps its copy.  The seed slots are the file's again.
reload_config ==
    /\ Up /\ file # {} /\ ~missing_field(OnDisk) /\ "secret" \in DOMAIN OnDisk
    /\ LET c == apply_env_overrides(OnDisk, environ)
       IN  validate_config(c) /\ conf' = {c} /\ promised' = SecretOf(c)
    /\ Busy /\ UNCHANGED <<file, environ, history, profiles>>

\* An administrator publishes a schema: a new version, then the seed slots.
update_profile_config(s, on) ==
    /\ Up /\ validate_profile_fields(s)
    /\ history' = insert_profile_config_version(s, on)
    /\ conf' = {set_profiles_enabled(set_profile_fields(Copy, s), on)}
    /\ Busy /\ UNCHANGED <<file, environ, profiles, promised>>

get_profile_config_version(v) == history[v]
\* A rollback appends the old version again; to the latest it does nothing.
rollback_profile_config(v) ==
    /\ Up /\ v \in 1 .. Len(history) - 1
    /\ LET row == get_profile_config_version(v)
       IN  /\ history' = insert_profile_config_version(row.schema, row.on)
           /\ conf' = {set_profiles_enabled(set_profile_fields(Copy, row.schema), row.on)}
    /\ Busy /\ UNCHANGED <<file, environ, profiles, promised>>

db_update_user_profile(u, p) == profiles' = [profiles EXCEPT ![u] = p]
\* A member's profile is checked against the schema in force and replaced.
update_user_profile(u, p) ==
    /\ Up
    /\ current_profile_config.on
    /\ validate_profile(p, current_profile_config.schema)
    /\ db_update_user_profile(u, p)
    /\ Busy /\ UNCHANGED <<file, environ, conf, history, promised>>

\* The operator writes a file, keeping the secret of the old one or not.
OperatorWrites(d, keep) ==
    /\ LET f == IF keep /\ file # {} /\ "secret" \in DOMAIN OnDisk
                THEN With(d, "secret", OnDisk["secret"]) ELSE d
       IN  /\ file' = {f}
           /\ promised' = IF SecretOf(f) = promised THEN promised ELSE {}
    /\ Busy /\ UNCHANGED <<environ, conf, history, profiles>>

ServerDies == Up /\ conf' = {} /\ UNCHANGED <<file, environ, history, profiles, promised, settingsSteps>>

ProfileValues ==
    UNION {[D -> FieldValues] : D \in {D \in SUBSET DOMAIN TypeOf : Cardinality(D) <= 1}}

SettingsInit ==
    /\ file \in {{}} \cup {{d} : d \in Drafts}
    /\ environ = FALSE /\ conf = {} /\ history = <<>>
    /\ profiles = [u \in Patrons |-> <<>>]
    /\ promised = {} /\ settingsSteps = 0

SettingsNext ==
    \/ \E set \in BOOLEAN : load_config(set)
    \/ ServerDies
    \/ reload_config
    \/ \E s \in Schemas, on \in BOOLEAN : update_profile_config(s, on)
    \/ \E v \in 1 .. Len(history) : rollback_profile_config(v)
    \/ \E u \in Patrons, p \in ProfileValues : update_user_profile(u, p)
    \/ \E d \in Drafts, keep \in BOOLEAN : OperatorWrites(d, keep)

SettingsSpec == SettingsInit /\ [][SettingsNext]_settingsVars

-----------------------------------------------------------------------------
\* Properties.

\* Nobody is signed out by a restart: as long as the operator has not edited it
\* away, the secret the server signs with is the one it signed with before.
\* What load_config's write-back of a generated secret is for.
SessionsSurviveRestarts == Up /\ promised # {} => SecretOf(Copy) = promised

\* However a running server came by its settings, at boot or by reloads of a
\* file edited under it, they are ones it can work with: somebody can sign in,
\* money has a ledger, and content has the headers it needs.
RunsOnSoundSettings ==
    Up =>
        /\ Copy["secret"] # ""
        /\ Copy["verify"] => Copy["mail"] = "on"
        /\ (Copy["stripe"] \/ Copy["billing"]) => Copy["membership"]
        /\ Copy["membership"] => Copy["lapsed_rank"] < Copy["member_rank"]
        /\ Copy["content_origin"] => Copy["cors"]

\* Every stored profile answers some schema an administrator has published:
\* what is written into the seeds of the file after the first boot, and read
\* back by a reload, never decides what a profile may hold.
ProfilesAnswerAPublishedSchema ==
    \A u \in Patrons : profiles[u] # <<>> =>
        \E v \in 1 .. Len(history) :
            /\ DOMAIN profiles[u] \subseteq history[v].schema.asks
            /\ history[v].schema.must \subseteq DOMAIN profiles[u]

\* What the server writes into the operator's file keeps what the operator set
\* there, the database address excepted (an override is written back with a
\* generated secret): healing only adds.
HealingKeepsValues ==
    [][~Up /\ settingsSteps' = settingsSteps =>
        \A f \in file, g \in file' : \A k \in DOMAIN f \ {"url", "secret"} :
            g[k] = f[k]]_settingsVars

\* Through edits of the file, restarts and reloads the server keeps its word: to the signed in, to the operator and
\* to whoever has filled in a profile.
SettingsStaySound ==
    /\ [][SessionsSurviveRestarts' /\ RunsOnSoundSettings' /\ ProfilesAnswerAPublishedSchema']_settingsVars
    /\ HealingKeepsValues
=============================================================================
