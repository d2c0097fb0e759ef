----------------------------- MODULE RunEnvironment -----------------------------
(***************************************************************************)
(* What a script is started with: its interpreter, its environment and the *)
(* paths of its browser (internal/core/runner.go, browser.go).  A value is *)
(* named by where it comes from: "os", "file" (env_file), the text of the  *)
(* manifest, "run" (a path below the run directory), "engine", or "" for   *)
(* none.  The manifest is one whose defaults are set.                      *)
(***************************************************************************)
EXTENDS Manifest

(* resolvePython *)
ResolvePython(m) ==
  CASE m.strategy = "managed_venv"                -> "managed"
    [] m.strategy = "venv_path" /\ m.venv # ""    -> m.venv
    [] OTHER                                      -> "python3"

(* applyEnvOverrides: the upper layer wins. *)
Over(upper, lower) ==
  [n \in DOMAIN upper \cup DOMAIN lower |-> IF n \in DOMAIN upper THEN upper[n] ELSE lower[n]]

Layer(names, value) == [n \in names |-> value]

DaemonEnvironment == Layer({"HOME", "TMPDIR", "TOKEN", "BROWSER_DOWNLOADS"}, "os")

(* loadEnvFile *)
FileEnvironment(m) == IF m.envFile = "file" THEN Layer({"HOME", "TOKEN"}, "file") ELSE <<>>

(* The manifest's variables: a secret is taken from the daemon's own        *)
(* environment, and left out if it is not there.                            *)
ManifestEnvironment(m) ==
  LET plain == {v \in m.env : v.type = "plain"}
      found == {v \in m.env : v.type = "secret" /\ v.value = "env://TOKEN"} IN
  [n \in {v.name : v \in plain \cup found} |->
     IF \E v \in found : v.name = n THEN "os"
     ELSE (CHOOSE v \in plain : v.name = n).value]

(* buildEnv *)
BaseEnvironment(m) == Over(ManifestEnvironment(m), Over(FileEnvironment(m), DaemonEnvironment))

BrowserNames == {"BROWSER_PROFILE", "BROWSER_DOWNLOADS", "BROWSER_CACHE"}
PrivateNames == {"HOME", "TMPDIR", "XDG_CACHE_HOME"}

(* runEnvironment *)
EngineEnvironment(m) ==
  Over(Layer({"RUN_ID", "TASK_ID"}, "engine"),
       IF m.isolated THEN Layer({"RUN_DIR"} \cup BrowserNames \cup PrivateNames, "run") ELSE <<>>)

(* prepareBrowserRuntime: the paths of the profile, the downloads, the cache *)
RunPath(m) == IF m.isolated THEN "run" ELSE ""
ProfilePath(m) == IF m.browser.profile = "shared_external" THEN m.browser.source ELSE RunPath(m)
DownloadPath(m) == IF m.browser.downloads = "default" THEN "" ELSE RunPath(m)
CachePath(m) == IF m.browser.cache \in {"default", "disabled"} THEN "" ELSE RunPath(m)

(* setBrowserEnv, clearBrowserEnvForDefaultPolicies: a policy that asks for *)
(* the browser's own directory clears the variable.                         *)
BrowserEnvironment(m) ==
  LET path == [BROWSER_PROFILE |-> ProfilePath(m), BROWSER_DOWNLOADS |-> DownloadPath(m),
               BROWSER_CACHE |-> CachePath(m)]
      set == {n \in BrowserNames : path[n] # ""}
      cleared(n) ==
        \/ n = "BROWSER_DOWNLOADS" /\ m.browser.downloads = "default"
        \/ n = "BROWSER_CACHE" /\ m.browser.cache \in {"default", "disabled"}
        \/ n = "BROWSER_PROFILE" /\ m.browser.profile = "shared_external" /\ m.browser.source = "" IN
  IF ~m.browser.enabled THEN <<>>
  ELSE [n \in set \cup {n \in BrowserNames : cleared(n)} |-> IF cleared(n) THEN "" ELSE path[n]]

(* RunScriptWithOptions, for cmd.Env *)
Environment(m) == Over(BrowserEnvironment(m), Over(EngineEnvironment(m), BaseEnvironment(m)))

-------------------------------------------------------------------------------
(* What a run relies on                                                     *)

BrowserPathsExist(m) ==
  /\ ProfilePath(m) # ""
  /\ m.browser.downloads = "isolated" => DownloadPath(m) # ""
  /\ m.browser.cache = "isolated" => CachePath(m) # ""
  /\ Environment(m)["BROWSER_PROFILE"] = ProfilePath(m)

Isolated(m) == \A n \in PrivateNames : Environment(m)[n] = "run"
================================================================================
