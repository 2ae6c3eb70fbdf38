-------------------------------- MODULE Limiter --------------------------------
(***************************************************************************)
(* server/ratelimit.py: FixedWindowLimiter.allow for one key, that is one  *)
(* address (REST) or one user (websocket).                                 *)
(*                                                                         *)
(* The websocket tasks share one thread and allow() awaits nothing: their  *)
(* calls do not overlap.  The REST handlers (server/main.py) are plain     *)
(* functions that run in a pool of threads, and allow() takes no lock: one *)
(* step here is one operation on the deque, which the interpreter does not *)
(* interrupt.                                                              *)
(***************************************************************************)
EXTENDS Integers, Sequences, FiniteSets

CONSTANTS Thread,
          max_events,
          window_seconds,
          MaxClock,     \* bound: the last moment of a run
          MaxAdmitted   \* bound: calls admitted before a run ends

ASSUME LimiterAssumption == /\ max_events \in Nat \ {0}
                            /\ window_seconds \in Nat
                            /\ IsFiniteSet(Thread)

VARIABLES
    clock,      \* time.monotonic()
    q,          \* _hits[key]: when the calls not yet forgotten were made
    pc,         \* where in allow() a thread is
    now,        \* its local variable now

(* History.                                                                *)
    log,        \* the calls admitted: when they were made, when they were entered
    forgotten,  \* how many entries have left q
    taken,      \* which of them, counted along log, left it before they expired
    overlapped  \* two calls were under way at once

vars == <<clock, q, pc, now, log, forgotten, taken, overlapped>>

Places == {"idle", "while", "head", "popleft", "len", "append", "refused", "IndexError"}

TypeOK ==
    /\ clock \in Nat
    /\ q \in Seq(Nat)
    /\ pc \in [Thread -> Places]
    /\ now \in [Thread -> Nat]
    /\ log \in Seq([made : Nat, entered : Nat])
    /\ forgotten \in Nat
    /\ taken \subseteq 1..forgotten
    /\ overlapped \in BOOLEAN

Init ==
    /\ clock = 0
    /\ q = <<>>
    /\ pc = [t \in Thread |-> "idle"]
    /\ now = [t \in Thread |-> 0]
    /\ log = <<>>
    /\ forgotten = 0
    /\ taken = {}
    /\ overlapped = FALSE

Tick ==
    /\ clock < MaxClock
    /\ clock' = clock + 1
    /\ UNCHANGED <<q, pc, now, log, forgotten, taken, overlapped>>

Goes(t, from, to) == pc[t] = from /\ pc' = [pc EXCEPT ![t] = to]

(* A handler calls allow().                                                *)
Call(t) ==
    /\ Len(log) < MaxAdmitted
    /\ Goes(t, "idle", "while")
    /\ now' = [now EXCEPT ![t] = clock]
    /\ overlapped' = (overlapped \/ \E other \in Thread : pc[other] # "idle")
    /\ UNCHANGED <<clock, q, log, forgotten, taken>>

(* while q: is there an entry?                                             *)
While(t) ==
    /\ Goes(t, "while", IF q = <<>> THEN "len" ELSE "head")
    /\ UNCHANGED <<clock, q, now, log, forgotten, taken, overlapped>>

(* Variant: the entry at the very end of the window goes too.              *)
ExpiredEarly(t) == now[t] - Head(q) >= window_seconds

Expired(t) == now[t] - Head(q) > window_seconds

(* q[0]: it may be gone by now.                                            *)
PeekHead(t) ==
    /\ \/ q = <<>> /\ Goes(t, "head", "IndexError")
       \/ q # <<>> /\ Expired(t) /\ Goes(t, "head", "popleft")
       \/ q # <<>> /\ ~Expired(t) /\ Goes(t, "head", "len")
    /\ UNCHANGED <<clock, q, now, log, forgotten, taken, overlapped>>

(* q.popleft(): of what is the first entry by now, which another thread's  *)
(* popleft() may have put there since, and which need not have expired.    *)
Current(moment) == clock - moment <= window_seconds

PopLeft(t) ==
    /\ \/ /\ q = <<>>
          /\ Goes(t, "popleft", "IndexError")
          /\ UNCHANGED <<q, forgotten, taken>>
       \/ /\ q # <<>>
          /\ Goes(t, "popleft", "while")
          /\ q' = Tail(q)
          /\ forgotten' = forgotten + 1
          /\ taken' = taken \cup {n \in {forgotten + 1} : Current(Head(q))}
    /\ UNCHANGED <<clock, now, log, overlapped>>

(* Variant: one more is admitted.                                          *)
FullAfter == Len(q) > max_events

Full == Len(q) >= max_events

CheckLen(t) ==
    /\ Goes(t, "len", IF Full THEN "refused" ELSE "append")
    /\ UNCHANGED <<clock, q, now, log, forgotten, taken, overlapped>>

(* The call is entered and admitted.                                       *)
Admit(t) ==
    /\ Goes(t, "append", "idle")
    /\ q' = Append(q, now[t])
    /\ log' = Append(log, [made |-> now[t], entered |-> clock])
    /\ now' = [now EXCEPT ![t] = 0]
    /\ UNCHANGED <<clock, forgotten, taken, overlapped>>

(* 429, or 500 after an exception: the handler ends.                       *)
Return(t) ==
    /\ \E from \in {"refused", "IndexError"} : Goes(t, from, "idle")
    /\ now' = [now EXCEPT ![t] = 0]
    /\ UNCHANGED <<clock, q, log, forgotten, taken, overlapped>>
-----------------------------------------------------------------------------
Next ==
    \/ Tick
    \/ \E t \in Thread :
          \/ Call(t) \/ While(t) \/ PeekHead(t) \/ PopLeft(t)
          \/ CheckLen(t) \/ Admit(t) \/ Return(t)

Spec == Init /\ [][Next]_vars
-----------------------------------------------------------------------------
(* Properties.                                                             *)

(* As long as no two calls overlap (always, for the websocket), a call     *)
(* that is admitted was made more than a window after the one admitted     *)
(* max_events before it, so that no stretch of window_seconds, wherever it *)
(* begins, has more than max_events of them; one that is refused had       *)
(* max_events before it in such a stretch; and none fails.                 *)
LimitKept ==
    ~overlapped =>
        /\ \A n \in DOMAIN log : n > max_events =>
              log[n].made - log[n - max_events].made > window_seconds
        /\ \A t \in Thread : pc[t] = "refused" =>
              /\ Len(log) >= max_events
              /\ now[t] - log[Len(log) - max_events + 1].made <= window_seconds
        /\ \A t \in Thread : pc[t] # "IndexError"

(* Calls that overlap may each find the last place free, and a popleft()   *)
(* may take an entry that has not expired for the expired one its thread   *)
(* saw, which frees a place that is not free.  However they interleave,    *)
(* the calls admitted in a window are fewer than max_events and one for    *)
(* each thread, those not counted whose entries were taken too early, ...  *)
InWindow == {n \in DOMAIN log : Current(log[n].made)}

OverByThreads == Cardinality(InWindow \ taken) < max_events + Cardinality(Thread)

(* ... and those are not any number: each entry that is forgotten because  *)
(* it expired costs at most one such entry for each of the other threads.  *)
TakenForExpired ==
    Cardinality(taken) <= (Cardinality(Thread) - 1) * (forgotten - Cardinality(taken))

(* A key is never refused for good: somebody was let in during the window  *)
(* before the call, or since.                                              *)
Recent(t) == \E n \in DOMAIN log : now[t] - log[n].entered <= window_seconds

RefusedForCause == \A t \in Thread : pc[t] = "refused" => Recent(t)

Races == OverByThreads /\ TakenForExpired /\ RefusedForCause
-----------------------------------------------------------------------------
(* What makes the above inductive.  However calls overlap, nothing comes   *)
(* from the future, every entry is that of an admitted call, and a thread  *)
(* about to look at the length has found the deque empty or a recent call  *)
(* in it.                                                                  *)
Clocked ==
    /\ \A t \in Thread : now[t] <= clock
    /\ \A n \in DOMAIN log : log[n].made <= log[n].entered /\ log[n].entered <= clock
    /\ \A j \in DOMAIN q : \E n \in DOMAIN log : log[n].made = q[j]

LooksForCause == \A t \in Thread : pc[t] = "len" => q = <<>> \/ Recent(t)

(* q is what is left of the log; those about to be entered have each found *)
(* a place; ...                                                            *)
Left ==
    /\ Len(q) + forgotten = Len(log)
    /\ \A j \in DOMAIN q : q[j] = log[forgotten + j].made

Entering == {t \in Thread : pc[t] = "append"}

RoomForAll == Len(q) + Cardinality(Entering) < max_events + Cardinality(Thread)

(* ... what is neither in q nor taken has expired; and a thread about to   *)
(* remove an entry that is current, or that is no longer there, had its    *)
(* expired one removed by another.                                         *)
Expiry == \A n \in DOMAIN log : n <= forgotten /\ n \notin taken => ~Current(log[n].made)

Astray == {t \in Thread : pc[t] = "popleft" /\ (q = <<>> \/ Current(Head(q)))}

Owed ==
    /\ Cardinality(taken) + Cardinality(Astray)
          <= (Cardinality(Thread) - 1) * (forgotten - Cardinality(taken))
    /\ Cardinality(taken) <= forgotten

(* Without overlap only one thread is in allow(), the log is sorted, ...   *)
Alone == \A t, r \in Thread : pc[t] # "idle" /\ pc[r] # "idle" => t = r

Sorted ==
    /\ \A m, n \in DOMAIN log : m <= n => log[m].made <= log[n].made
    /\ \A t \in Thread : pc[t] # "idle" => \A n \in DOMAIN log : log[n].made <= now[t]

(* ... what is not in q has expired, for the thread in allow() and for     *)
(* those to come, ...                                                      *)
Gone ==
    \A n \in DOMAIN log : n <= forgotten =>
        /\ clock - log[n].made > window_seconds
        /\ \A t \in Thread : pc[t] # "idle" => now[t] - log[n].made > window_seconds

(* ... and what the thread has seen is still so.                           *)
StillSo ==
    \A t \in Thread :
        /\ pc[t] = "head" => q # <<>>
        /\ pc[t] = "popleft" => q # <<>> /\ Expired(t)
        /\ pc[t] \in {"len", "refused"} => q = <<>> \/ ~Expired(t)
        /\ pc[t] = "append" => ~Full
        /\ pc[t] = "refused" => Full
        /\ pc[t] # "IndexError"

Serial == ~overlapped => Alone /\ Sorted /\ Gone /\ StillSo
=============================================================================
