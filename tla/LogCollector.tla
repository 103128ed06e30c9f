------------------------------- MODULE LogCollector -------------------------------
(***************************************************************************)
(* LogCollector (clusterstate/utils/logging.go): the last maxItems log     *)
(* items of the last itemLifetime, truncated on each access.  Log and      *)
(* GetLogs hold the mutex from the reading of the clock to the end; the    *)
(* clock goes on meanwhile.  An item is [msg, at], its level is left out.  *)
(*                                                                         *)
(* LiveAtThreshold is a mutant of Live.                                    *)
(***************************************************************************)
EXTENDS Integers, Sequences, FiniteSets

CONSTANTS
    Threads,       \* goroutines that log and that read the log
    NoOne,         \* holds the mutex when nobody does
    maxItems,      \* 50 in the program
    itemLifetime,  \* 15 minutes in the program
    MaxLogs,       \* bound: messages
    MaxTime        \* bound: time

CollectorConstants ==
    /\ NoOne \notin Threads
    /\ maxItems \in Nat /\ itemLifetime \in Nat
    /\ MaxLogs \in Nat /\ MaxTime \in Nat

VARIABLES
    clock,
    lock,
    store,       \* what the collector keeps
    now,         \* what each thread read from the clock
    doing,       \* what each thread does
    got,         \* what each thread got from GetLogs, with the time it read
    everything   \* history: all items there were

vars == <<clock, lock, store, now, doing, got, everything>>

Item == [msg : 1 .. MaxLogs, at : 0 .. MaxTime]
Nothing == [at |-> 0, logs |-> <<>>]

TypeOK ==
    /\ clock \in 0 .. MaxTime
    /\ lock \in Threads \union {NoOne}
    /\ everything \in Seq(Item) /\ Len(everything) <= MaxLogs
    /\ store \in Seq(Item) /\ Len(store) <= maxItems
    /\ now \in [Threads -> 0 .. MaxTime]
    /\ doing \in [Threads -> {"nothing", "logging", "getting"}]

Init ==
    /\ clock = 0 /\ lock = NoOne
    /\ store = <<>> /\ everything = <<>>
    /\ now = [t \in Threads |-> 0]
    /\ doing = [t \in Threads |-> "nothing"]
    /\ got = [t \in Threads |-> Nothing]

-----------------------------------------------------------------------------
LiveAtThreshold(item, n) == item.at >= n - itemLifetime
Live(item, n) == item.at > n - itemLifetime

FirstKept(s) == IF Len(s) > maxItems THEN Len(s) - maxItems + 1 ELSE 1

\* The items before the first one that is live go, whatever comes after it.
compact(s, n) ==
    LET kept == {i \in FirstKept(s) .. Len(s) : Live(s[i], n)}
    IN IF kept = {} THEN <<>>
       ELSE SubSeq(s, CHOOSE i \in kept : \A j \in kept : i <= j, Len(s))

Lock(t) == lock = NoOne /\ lock' = t

Enter(t, what) ==
    /\ doing[t] = "nothing" /\ Lock(t)
    /\ doing' = [doing EXCEPT ![t] = what]
    /\ now' = [now EXCEPT ![t] = clock]
    /\ UNCHANGED <<clock, store, got, everything>>

Log(t) == Len(everything) < MaxLogs /\ Enter(t, "logging")
GetLogs(t) == Enter(t, "getting")

Leave(t) ==
    /\ lock' = NoOne
    /\ doing' = [doing EXCEPT ![t] = "nothing"]
    /\ UNCHANGED <<clock, now>>

Logged(t) ==
    LET item == [msg |-> Len(everything) + 1, at |-> now[t]]
    IN /\ doing[t] = "logging"
       /\ everything' = Append(everything, item)
       /\ store' = compact(Append(store, item), now[t])
       /\ Leave(t)
       /\ UNCHANGED got

GotLogs(t) ==
    /\ doing[t] = "getting"
    /\ store' = compact(store, now[t])
    /\ got' = [got EXCEPT ![t] = [at |-> now[t], logs |-> store']]
    /\ Leave(t)
    /\ UNCHANGED everything

Tick ==
    /\ clock < MaxTime
    /\ clock' = clock + 1
    /\ UNCHANGED <<lock, store, now, doing, got, everything>>

Next ==
    \/ \E t \in Threads : Log(t) \/ GetLogs(t) \/ Logged(t) \/ GotLogs(t)
    \/ Tick

Spec == Init /\ [][Next]_vars
-----------------------------------------------------------------------------
(* Properties. *)

Recent(n) ==
    {i \in 1 .. Len(everything) : /\ i > Len(everything) - maxItems
                                  /\ everything[i].at > n - itemLifetime}

\* What GetLogs returns is, of all messages logged before, those of the last
\* maxItems that are younger than itemLifetime, each once and in the order in
\* which they were logged: the truncations of the accesses before it lost none
\* of them and left no older one in between.
GetsTheRecent ==
    [][\A t \in Threads : got'[t] # got[t] =>
           LET logs == got'[t].logs
           IN /\ {logs[i] : i \in DOMAIN logs} =
                    {everything[i] : i \in Recent(got'[t].at)}
              /\ \A i, j \in DOMAIN logs : i < j => logs[i].msg < logs[j].msg]_vars
=============================================================================
