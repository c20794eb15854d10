------------------------------ MODULE MCDevice ------------------------------
EXTENDS Device, TLC

CONSTANTS sda1, sda2, native, great, bare, program, withProgram, without, script, nothing

SomePartitions == {sda1, sda2}
SomeScan == <<sda1, sda2>>
SomeCandidates == {sda2}

EmptyUpper == [n \in Names |-> NoFile]

(* The first reads below what it writes.  Its filter has as many calls as  *)
(* can be, that of the second one too many; the third does not reach its   *)
(* process.                                                                *)
Native ==
  [runtime |-> "binary", read |-> {<<"in">>, <<"out", "log">>}, write |-> {<<"out">>},
   shell |-> FALSE, network |-> TRUE]

SomeManifests ==
  (native :> Native) @@ (great :> [Native EXCEPT !.shell = TRUE]) @@
  (bare :> [Native EXCEPT !.read = {}, !.write = {}]) @@
  (script :> [Native EXCEPT !.runtime = "python"])

Brought(name, top, content) == [name |-> name, top |-> top, content |-> content]

(* One has another AGENT.toml below its own and no program, but an empty   *)
(* entry of its name.                                                      *)
SomeEntries ==
  (withProgram :> <<Brought("manifest", TRUE, native), Brought("binary", FALSE, program)>>) @@
  (without :> <<Brought("binary", TRUE, Empty), Brought("manifest", TRUE, great),
                Brought("manifest", FALSE, bare)>>) @@
  (script :> <<Brought("manifest", TRUE, script), Brought("script", TRUE, program)>>) @@
  (nothing :> <<Brought("manifest", TRUE, program)>>)

(* /run is a link.  A share is missing, or the declared /in is a file.     *)
SomeResolve(p) == IF p = <<"run">> THEN <<"var", "run">> ELSE p

Trees(paths) == UNION {Above(p) : p \in paths}
Shared(p) == <<"var", "lib", "cage", "agent">> \o p
SomeHost ==
  Trees({kvm, <<"dev", "null">>, <<"var", "run">>, <<"system", "rootfs", "agent">>,
         Shared(<<"in">>), Shared(<<"out", "log">>)})

SomeFileSystems ==
  {[there |-> SomeHost \cup {<<"in">>}, files |-> {kvm, <<"dev", "null">>}],
   [there |-> SomeHost \ {Shared(<<"in">>)}, files |-> {kvm, <<"dev", "null">>}],
   [there |-> SomeHost \cup {<<"in">>}, files |-> {kvm, <<"dev", "null">>, <<"in">>}]}
=============================================================================
