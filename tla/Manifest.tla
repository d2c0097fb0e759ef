-------------------------------- MODULE Manifest --------------------------------
(***************************************************************************)
(* The manifest of a task package as the loader sees it                    *)
(* (internal/manifest/loader.go, internal/models/manifest.go).  A manifest *)
(* is a record of what the loader asks of each field; "" is an absent      *)
(* string, 0 an absent number.  Files are named by what os.Stat finds:     *)
(* "file", "dir" or "missing".                                             *)
(***************************************************************************)
EXTENDS Integers, Sequences, Cron

RunStatuses == {"success", "failure", "warning", "skipped"}

(* NormalizeRunStatus on the spellings used here: one alias, and case.     *)
NormalizeRunStatus(s) ==
  CASE s = "failed"  -> "failure"
    [] s = "SUCCESS" -> "success"
    [] OTHER         -> s

IsValidRunStatus(s) == NormalizeRunStatus(s) \in RunStatuses

Default(value, absent, default) == IF value = absent THEN default ELSE value

BrowserDefaults(b) ==
  IF ~b.enabled THEN b
  ELSE [b EXCEPT !.profile   = Default(@, "", "isolated"),
                 !.downloads = Default(@, "", "isolated"),
                 !.cache     = Default(@, "", "isolated"),
                 !.cleanup   = Default(@, "", "delete_on_success")]

DependencyDefaults(d) ==
  [d EXCEPT !.require = IF @ = "" THEN "success" ELSE NormalizeRunStatus(@),
            !.unhealthy = Default(@, "", "skip")]

(* ScriptManifest.Defaults *)
Defaults(m) ==
  [m EXCEPT !.version  = Default(@, 0, 1),
            !.timeout  = Default(@, 0, 120),
            !.output   = Default(@, 0, 512),
            !.grace    = Default(@, 0, 5),
            !.strategy = Default(@, "", "system"),
            !.browser  = BrowserDefaults(@),
            !.type     = Default(@, "", "cron"),
            !.timezone = Default(@, "", "UTC"),
            !.missed   = Default(@, "", "skip"),
            !.sendOn   = Default(@, {}, {"success", "failure"}),
            !.dependencies = [i \in DOMAIN @ |-> DependencyDefaults(@[i])]]

Issue(path, bad) == IF bad THEN {path} ELSE {}

ScheduleIssues(m) ==
  Issue("schedule.type", m.type # "cron")
    \cup Issue("schedule.expression", ~ValidExpression(m.expression))
    \cup Issue("schedule.timezone", m.timezone \notin {"UTC", "Europe/Berlin"})
    \cup Issue("schedule.missed_run_policy", m.missed # "skip")

RuntimeIssues(m) ==
  Issue("runtime.environment.strategy", m.strategy \notin {"system", "managed_venv", "venv_path"})
    \cup Issue("runtime.timeout_seconds", m.timeout <= 0)
    \cup Issue("runtime.max_output_kb", m.output <= 0)
    \cup Issue("runtime.resource_limits.graceful_kill_seconds", m.grace <= 0)
    \cup Issue("runtime.resource_limits", \E l \in DOMAIN m.limits : m.limits[l] < 0)
    \cup Issue("runtime.working_directory", m.workdir \notin {"", ".", "dir"})
    \cup Issue("runtime.environment.venv_path", m.strategy = "venv_path" /\ m.venv = "")
    \cup Issue("runtime.env_file", m.envFile = "missing")
    \cup Issue("runtime.env.type", \E v \in m.env : v.type \notin {"plain", "secret"})

(* browserPolicyNeedsRunDirectory as it was before profiles could be copied. *)
NeedsRunDirectoryUnlessCopied(b) ==
  b.profile = "isolated" \/ b.downloads = "isolated" \/ b.cache = "isolated"

NeedsRunDirectory(b) ==
  \/ b.profile \in {"isolated", "copy_from"}
  \/ b.downloads = "isolated"
  \/ b.cache = "isolated"

BrowserIssues(m) ==
  LET b == m.browser IN
  IF ~b.enabled THEN {}
  ELSE Issue("runtime.browser.profile_mode",
             b.profile \notin {"isolated", "copy_from", "shared_external"})
         \cup Issue("runtime.isolated_run", ~m.isolated /\ NeedsRunDirectory(b))
         \cup Issue("runtime.browser.profile_source",
                    \/ b.profile \in {"copy_from", "shared_external"} /\ b.source = ""
                    \/ b.profile = "copy_from" /\ b.source # "dir")
         \cup Issue("runtime.browser.downloads_mode", b.downloads \notin {"isolated", "default"})
         \cup Issue("runtime.browser.cache_policy",
                    b.cache \notin {"isolated", "default", "disabled"})
         \cup Issue("runtime.browser.cleanup_policy",
                    b.cleanup \notin {"delete_on_success", "delete_always",
                                      "keep_on_failure", "keep_always"})

DeliveryIssues(m) ==
  LET ids == m.inlineIds IN
  Issue("delivery.send_on", \E s \in m.sendOn : ~IsValidRunStatus(s))
    \cup Issue("delivery.inline_profiles.id",
               \/ \E i \in DOMAIN ids : ids[i] = ""
               \/ \E i, j \in DOMAIN ids : i # j /\ ids[i] = ids[j])
    \cup Issue("delivery.inline_profiles.driver", m.drivers \cap {""} # {})

DependencyIssues(m) ==
  UNION {LET d == m.dependencies[i] IN
         Issue("dependencies.tasks", (d.id # "") = (d.slug # ""))
           \cup Issue("dependencies.tasks.require_status", ~IsValidRunStatus(d.require))
           \cup Issue("dependencies.tasks.max_age_seconds", d.maxAge < 0)
           \cup Issue("dependencies.tasks.on_unhealthy",
                      d.unhealthy \notin {"skip", "fail", "FAIL"})
         : i \in DOMAIN m.dependencies}

(* validate, the issues of severity "error". *)
Errors(m) ==
  Issue("manifest_version", m.version < 1)
    \cup Issue("script.path", m.script # "file")
    \cup ScheduleIssues(m) \cup RuntimeIssues(m) \cup BrowserIssues(m)
    \cup DeliveryIssues(m) \cup DependencyIssues(m)

(* Load returns the manifest: there is no error once the defaults are set. *)
Loads(m) == Errors(Defaults(m)) = {}
================================================================================
