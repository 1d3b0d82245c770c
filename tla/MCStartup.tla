----------------------------- MODULE MCStartup -----------------------------
(* Sockets and configurations for Startup. *)
EXTENDS Startup

(* Sockets that do not follow each other, and a list with one that is out  *)
(* of range.                                                               *)
SomeLists ==
    {[i \in 0..1 |-> 8 - i], [i \in 0..2 |-> IF i = 1 THEN MaxPort + 1 ELSE i]}
NoLists == {}

Config(mailbox, leader, certification, retry, fetch, retention, term, skip,
       stall, optimistic) ==
    [mailbox |-> mailbox, leader |-> leader, certification |-> certification,
     retry |-> retry, fetch |-> fetch, retention |-> retention, term |-> term,
     skip |-> skip, stall |-> stall, optimistic |-> optimistic]

(* The defaults, in seconds. *)
OnlyDefault == {Config(1024, 2, 4, 1, 2, 10, 1, 5, 8, 0)}

(* Small values on both sides of each comparison, in every combination,    *)
(* for terms of none, one and two views; the fields that are only compared *)
(* with zero are zero one at a time.                                       *)
SmallConfigs ==
    {Config(1, l, c, r, 1, 1, t[1], 3, t[2], t[3]) :
        l \in 0..1, c \in 1..3, r \in {0, 2, 3},
        t \in {<<0, 3, 0>>, <<1, 3, 1>>} \cup ({2} \X (2..3) \X (0..1))}
    \cup {Config(z[1], 1, 2, 1, z[2], z[3], 1, 3, 0, 0) :
             z \in {<<0, 1, 1>>, <<1, 0, 1>>, <<1, 1, 0>>}}
=============================================================================
