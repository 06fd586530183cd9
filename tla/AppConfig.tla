------------------------------ MODULE AppConfig ------------------------------
(***************************************************************************)
(* config.py, load_config, and factories.py, get_orchestrator: which       *)
(* environments the service starts in, and what it is then.  Of a variable *)
(* only what its checks tell apart is kept.                                *)
(***************************************************************************)
EXTENDS Naturals

Environments ==
    [ENV : {"prod", "other"},
     APP_CHANNEL : {"stable", "canary", "latest", "other"},
     APP_ADMIN_TOKEN : BOOLEAN,                 \* set, or not
     APP_CORS_ALLOWED_ORIGINS : {"*", "listed"},
     APP_MAX_BATCH_SIZE : {0, 1000},
     TRAINING_REPO : BOOLEAN,                   \* set with its token, or not
     TRIGGER_DATA_ROOT : BOOLEAN,               \* set, or not
     ORCHESTRATION_BACKEND : {"", "github", "noop", "other"}]

\* What prod asks for on top.
ProdRules(e) ==
    /\ e.APP_ADMIN_TOKEN
    /\ e.APP_CORS_ALLOWED_ORIGINS # "*"
    /\ e.APP_CHANNEL = "stable"
    /\ e.TRAINING_REPO
    /\ e.TRIGGER_DATA_ROOT

\* load_config returns; otherwise the process does not start.
Loads(e) ==
    /\ e.APP_CHANNEL # "other"
    /\ e.ENV = "prod" => ProdRules(e)
    /\ e.APP_MAX_BATCH_SIZE > 0

Backend(e) ==
    IF e.ORCHESTRATION_BACKEND # "" THEN e.ORCHESTRATION_BACKEND
    ELSE IF e.TRAINING_REPO THEN "github" ELSE "noop"

\* The adapter, which is made for every trigger; a backend that is unknown or
\* not configured is found out only then.
Orchestrator(e) ==
    CASE Backend(e) = "github" /\ e.TRAINING_REPO -> "github"
      [] Backend(e) = "noop" -> "noop"
      [] OTHER -> "ValueError"

\* What a trigger request meets of it.
Deployment(e) ==
    [prod |-> e.ENV = "prod", admin_token |-> e.APP_ADMIN_TOKEN,
     data_root |-> e.TRIGGER_DATA_ROOT, orchestrator |-> Orchestrator(e)]

Deployments == {Deployment(e) : e \in {e \in Environments : Loads(e)}}
=============================================================================
