------------------------------ MODULE MCTraps ------------------------------
(***************************************************************************)
(* A loop through untrusted code: a compressed load, a store to the same   *)
(* address, system call 0 and a return to the trusted area, which goes on  *)
(* to system call 1 and a compressed jump out of the free zone.            *)
(***************************************************************************)
EXTENDS Traps

Ins(kind, len, arg) == [kind |-> kind, len |-> len, arg |-> arg]

MCCode ==
    [p \in {0, 2, 6, 10, 14, 18, 20, 24} |->
        CASE p = 0 -> Ins("load", 2, 1)
          [] p = 2 -> Ins("store", 4, 1)
          [] p = 6 -> Ins("ecall", 4, 0)
          [] p = 10 -> Ins("jump", 4, 20)
          [] p = 14 -> Ins("ecall", 4, 1)
          [] p = 18 -> Ins("freejump", 2, 24)
          [] p = 20 -> Ins("main", 4, 14)
          [] p = 24 -> Ins("main", 4, 0)]

=============================================================================
