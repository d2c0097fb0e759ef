------------------------------ MODULE MCScriptRun ------------------------------
(* TLC instance of ScriptRun.                                               *)
EXTENDS ScriptRun, MCManifests

(* Manifests that make the runner behave differently; the last is refused.  *)
SampleRuns ==
  {Minimal, [Minimal EXCEPT !.isolated = FALSE],
   [Minimal EXCEPT !.browser = Browser("", "", "")],
   [Minimal EXCEPT !.browser = Browser("copy_from", "dir", "keep_always")],
   [Minimal EXCEPT !.browser = Browser("copy_from", "dir", "delete_always")],
   [Minimal EXCEPT !.browser = Browser("copy_from", "missing", "")]}

(* Results that are followed by another, by a malformed or an overlong one, *)
(* by text, or by the end of the output.                                    *)
SampleOutputs ==
  LET S == "success" F == "failure" B == "bad" T == "text" N == "newline" IN
  {<<S>>, <<S, N, F, N>>, <<F, N, B>>, <<S, N, T, T>>, <<S, T, N, F>>,
   <<T, S, N>>, <<B, T, N, S>>}
================================================================================
