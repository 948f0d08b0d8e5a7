-------------------------- MODULE MCDispatcherWait --------------------------
(* Two waiters and one signaller over a notification event, a synchronization
   event and a semaphore of limit 2. *)
EXTENDS DispatcherWait, TLC

CONSTANTS w1, w2, s1, note, sync, sema

MCWaiters == {w1, w2}
MCSignallers == {s1}
MCObjects == {note, sync, sema}
MCKind == (note :> "notification") @@ (sync :> "synchronization") @@ (sema :> "semaphore")
MCLimit == (note :> 1) @@ (sync :> 1) @@ (sema :> 2)
MCAdjustments == {1, 2}

Ask(all, objs, timed, native) == [all |-> all, objs |-> objs, timed |-> timed, native |-> native]

MCRequests == {Ask(FALSE, <<sync>>, FALSE, TRUE),
               Ask(FALSE, <<note, sema>>, TRUE, FALSE),
               Ask(FALSE, <<sema, sync>>, FALSE, FALSE),
               Ask(TRUE, <<sync, sema>>, TRUE, FALSE)}
=============================================================================
