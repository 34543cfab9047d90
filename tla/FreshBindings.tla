--------------------------- MODULE FreshBindings ---------------------------
(***************************************************************************)
(* What `move-bindgen generate` promises its user (crates/move-bindgen/src/*)
(* digest.rs): it "errors loudly on drift instead of silently producing    *)
(* stale bindings".  Whatever is generated from a source that still exists *)
(* is generated from contents the source had while the command ran, by the *)
(* rules of a config that move-bindgen.toml held while the command ran.    *)
(***************************************************************************)
CONSTANTS Source, Tree, Copy, Config, Gone

VARIABLES
  live,      \* live[s]: contents of source s, or Gone
  conf,      \* contents of move-bindgen.toml
  seen,      \* seen[s]: what s has been since the running generate started
  seenConf,  \* the same for move-bindgen.toml
  crates,    \* the members of the generated workspace: [src, tree, config]
  result     \* "none", "running", "ok" or "failed"

vars == <<live, conf, seen, seenConf, crates, result>>

Fresh(c) ==
  /\ c.config \in seenConf
  /\ \/ Gone \in seen[c.src]
     \/ \E t \in seen[c.src] : c.tree = Copy[t]

Forget == seen' = [s \in Source |-> {}] /\ seenConf' = {}

Init ==
  /\ live \in [Source -> Tree]
  /\ conf \in Config
  /\ seen = [s \in Source |-> {}]
  /\ seenConf = {}
  /\ crates = {}
  /\ result = "none"

Change ==
  /\ live' \in [Source -> Tree \cup {Gone}]
  /\ conf' \in Config
  /\ IF result = "running"
       THEN /\ seen' = [s \in Source |-> seen[s] \cup {live'[s]}]
            /\ seenConf' = seenConf \cup {conf'}
       ELSE UNCHANGED <<seen, seenConf>>
  /\ UNCHANGED <<crates, result>>

Start ==
  /\ result # "running"
  /\ result' = "running"
  /\ seen' = [s \in Source |-> {live[s]}]
  /\ seenConf' = {conf}
  /\ UNCHANGED <<live, conf, crates>>

(* Overwrite members one at a time; the others stay as they were.            *)
Emit ==
  /\ result = "running"
  /\ \A c \in crates' \ crates : Fresh(c)
  /\ UNCHANGED <<live, conf, seen, seenConf, result>>

Finish ==
  /\ result = "running"
  /\ result' = "ok"
  /\ \A c \in crates' : Fresh(c)
  /\ Forget
  /\ UNCHANGED <<live, conf>>

Fail ==
  /\ result = "running"
  /\ result' = "failed"
  /\ Forget
  /\ UNCHANGED <<live, conf, crates>>

Next == Change \/ Start \/ Emit \/ Finish \/ Fail

Spec == Init /\ [][Next]_vars
=============================================================================
