--------------------------- MODULE MCEbNController ---------------------------
(* Model values and bounds for checking EbNController with TLC.            *)
EXTENDS EbNController, TLC

CONSTANTS r1, r2

MCRemotes == {r1, r2}

\* One remote, for the liveness runs (no symmetry) and the churn runs.
MCOneRemote == {r1}

MCOneId == 1..1

\* With Standard memory a remote has at most one device in the map, and an
\* id is free again once doneWithDevice has forgotten it: one id per remote.
MCIds == 1..2

\* With NoMemory every scan makes new devices and forgets none.
MCChurnIds == 1..4

\* The remotes are interchangeable: the model never compares or orders them.
RemoteSymmetry == Permutations(MCRemotes)

\* The state without the stale-key bookkeeping.  staleKey and keyMismatch
\* are read by no guard and by no other variable's update, so two states
\* that differ only in them have the same futures for everything else:
\* runs whose properties do not mention them may merge such states.
ControlView ==
    <<[id \in DOMAIN devs |-> [devs[id] EXCEPT !.keyMismatch = FALSE]],
      recent, hyst, queue, gone, phase, emitted>>
=============================================================================
