------------------------------ MODULE MCManifests ------------------------------
(* Sample manifests, good ones and bad ones.                                *)
EXTENDS RunEnvironment

NoBrowser == [enabled |-> FALSE, profile |-> "", source |-> "", downloads |-> "", cache |-> "",
              cleanup |-> ""]
Browser(profile, source, cleanup) ==
  [enabled |-> TRUE, profile |-> profile, source |-> source, downloads |-> "", cache |-> "",
   cleanup |-> cleanup]

(* The smallest manifest: everything else is a default. *)
Minimal ==
  [version |-> 0, script |-> "file", type |-> "", expression |-> <<Star, Star, Star, Star, Star>>,
   timezone |-> "", missed |-> "", strategy |-> "", timeout |-> 0, output |-> 0, grace |-> 0,
   limits |-> [files |-> 0, processes |-> 0, cpu |-> 0, memory |-> 0], workdir |-> "",
   venv |-> "", envFile |-> "", env |-> {}, isolated |-> TRUE, browser |-> NoBrowser,
   sendOn |-> {}, dependencies |-> <<>>, inlineIds |-> <<>>, drivers |-> {}]

SampleVariables ==
  {[name |-> "HOME", type |-> "plain", value |-> "/"],
   [name |-> "TOKEN", type |-> "secret", value |-> "env://TOKEN"],
   [name |-> "TOKEN", type |-> "secret", value |-> "env://MISSING"],
   [name |-> "TOKEN", type |-> "vault", value |-> "x"]}

SampleDependencies ==
  [id : {"", "t1"}, slug : {"", "task"}, require : {"", "failed", "done"}, maxAge : {-1, 0},
   unhealthy : {"", "FAIL", "retry"}]

SampleBrowsers ==
  [enabled : {TRUE}, profile : {"", "isolated", "copy_from", "shared_external", "private"},
   source : {"", "dir", "file"}, downloads : {"", "isolated", "default"},
   cache : {"", "isolated", "default", "disabled"}, cleanup : {"", "keep_always", "keep"}]

(* What fields of manifests may be instead, good or bad.                    *)
Variants ==
  [version |-> {-1, 2}, script |-> {"dir", "missing"}, type |-> {"interval"},
   expression |-> {<<Star>>, <<Step(60), Step(24), Step(31), Step(12), Step(8)>>,
                   <<Step(61), Star, Star, Star, Star>>,
                   <<Star, Star, List(<<Number(0)>>), Star, List(<<Span(5, 7)>>)>>},
   timezone |-> {"Europe/Berlin", "nowhere"}, missed |-> {"run"},
   strategy |-> {"managed_venv", "venv_path", "conda"},
   timeout |-> {-1, 7}, output |-> {-1, 1}, grace |-> {-1, 1},
   limits |-> {[Minimal.limits EXCEPT !.cpu = -1], [Minimal.limits EXCEPT !.memory = 64]},
   workdir |-> {".", "dir", "file", "missing"}, venv |-> {"dir"},
   envFile |-> {"file", "missing"},
   env |-> {{v} : v \in SampleVariables},
   isolated |-> {FALSE}, sendOn |-> {{"failed"}, {"never"}},
   dependencies |-> {<<d>> : d \in SampleDependencies},
   inlineIds |-> {<<"p">>, <<"p", "p">>, <<"p", "">>}, drivers |-> {{"telegram"}, {""}}]

Fields == DOMAIN Variants

Changed(m, f) == {[m EXCEPT ![f] = v] : v \in Variants[f] \cup {m[f]}}

WithBrowser(i, b) == [Minimal EXCEPT !.isolated = i, !.browser = b]

BrowserManifests == {WithBrowser(i, b) : i \in BOOLEAN, b \in SampleBrowsers}

(* Manifests that differ from the minimal one in two fields, or in the      *)
(* browser policies.                                                        *)
SampleManifests ==
  BrowserManifests
    \cup UNION {UNION {Changed(m, g) : m \in Changed(Minimal, f)} : f \in Fields, g \in Fields}
================================================================================
