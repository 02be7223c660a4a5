------------------------------ MODULE RateLimits ------------------------------
(***************************************************************************)
(* The window limiters of internal/httpapi, which count in sync.Map        *)
(* entries of two atomics each, without a lock.                            *)
(*                                                                         *)
(* A behaviour looks at one gate: the limit of an API key (APIKeyAuth),    *)
(* the limit of an address (buildGlobalRateLimit) or the failures of an    *)
(* address (buildAdminRateLimit).  Each gate keeps its entries in a map of *)
(* its own and two keys or addresses share nothing, so one is enough.      *)
(***************************************************************************)
EXTENDS Integers, FiniteSets

CONSTANTS
  Requests,    \* requests in progress at a time, used again and again
  RateLimit,   \* RateLimit of the key, rpm, or AdminMaxFails
  Window,      \* the window's length in ticks
  MaxClock,    \* bound: the clock stops here
  MaxCount,    \* bound: an entry's count at which no more requests come
  Entries      \* bound: the entries ever created, 1..n

ASSUME RateLimitsAssumption ==
  /\ IsFiniteSet(Requests)
  /\ RateLimit \in Nat \ {0} /\ Window \in Nat \ {0} /\ MaxClock \in Nat \ {0}
  /\ Entries \subseteq Nat \ {0}

NoEntry == 0

VARIABLES
  gate,        \* which of the three gates this behaviour is about
  clock,       \* seconds, in ticks; 0 is the windowStart of a new entry
  slot,        \* what each request is doing
  current,     \* the entry in the map
  entry,       \* every entry created: its atomics count and windowStart
  admitted,    \* history: requests let in by an entry since its window began
  raced        \* history: a clearing or a removal came under other requests

entryVars == <<current, entry, admitted, raced>>
limitVars == <<gate, clock, slot, entryVars>>

Idle == [pc |-> "idle", now |-> 0, ent |-> NoEntry, seen |-> 0]
Fresh == [count |-> 0, start |-> 0]

LimitTypeOK ==
  /\ gate \in {"apikey", "global", "admin"}
  /\ clock \in 1..MaxClock
  /\ \A p \in Requests :
       /\ slot[p].pc \in {"idle", "window", "cas", "reset", "first", "add",
                          "zero", "unset", "begin", "serve"}
       /\ slot[p].now \in 0..clock
       /\ slot[p].ent \in Entries \cup {NoEntry}
       /\ slot[p].seen \in 0..clock
  /\ current \in DOMAIN entry \cup {NoEntry}
  /\ DOMAIN entry \subseteq Entries
  /\ \A e \in DOMAIN entry : entry[e].count \in Nat /\ entry[e].start \in 0..clock

LimitInit ==
  /\ gate \in {"apikey", "global", "admin"}
  /\ clock = 1
  /\ slot = [p \in Requests |-> Idle]
  /\ current = NoEntry /\ entry = << >>
  /\ admitted = << >> /\ raced = FALSE

Tick ==
  /\ clock < MaxClock
  /\ clock' = clock + 1
  /\ UNCHANGED <<gate, slot, entryVars>>

Goto(p, pc) == slot' = [slot EXCEPT ![p].pc = pc]
Leave(p)    == slot' = [slot EXCEPT ![p] = Idle]

Of(p) == entry[slot[p].ent]
SetCount(p, n) == entry' = [entry EXCEPT ![slot[p].ent].count = n]
SetStart(p, s) == entry' = [entry EXCEPT ![slot[p].ent].start = s]

(* LoadOrStore: the entry in the map, or a new one. *)
LoadEntry(p, pc) ==
  \E e \in IF current = NoEntry THEN Entries \ DOMAIN entry ELSE {current} :
    /\ e \in DOMAIN entry => entry[e].count < MaxCount
    /\ current' = e
    /\ entry' = [f \in DOMAIN entry \cup {e} |-> IF f \in DOMAIN entry THEN entry[f] ELSE Fresh]
    /\ admitted' = [f \in DOMAIN entry' |-> IF f \in DOMAIN entry THEN admitted[f] ELSE 0]
    /\ slot' = [slot EXCEPT ![p] = [pc |-> pc, now |-> clock, ent |-> e, seen |-> entry'[e].start]]

(* A request is let in: what the histories note. *)
LetIn(p) ==
  /\ admitted' = [admitted EXCEPT ![slot[p].ent] = @ + 1]
  /\ raced' = (raced \/ slot[p].ent # current)

(* cleanupRateLimitMap: an entry whose window is over leaves the map;      *)
(* requests that have loaded it keep it.  So does one that a request has   *)
(* just created and not begun.                                             *)
Cleanup ==
  /\ current # NoEntry
  /\ entry[current].start <= clock - Window
  /\ current' = NoEntry
  /\ UNCHANGED <<gate, clock, slot, entry, admitted, raced>>

-----------------------------------------------------------------------------
(* APIKeyAuth.  A request it refuses before the window changes nothing.    *)

KeyEntry(p) ==
  /\ gate = "apikey" /\ slot[p].pc = "idle"
  /\ LoadEntry(p, "window")
  /\ UNCHANGED <<gate, clock, raced>>

KeyWindow(p) ==
  /\ gate = "apikey" /\ slot[p].pc = "window"
  /\ IF slot[p].now - Of(p).start >= Window
     THEN slot' = [slot EXCEPT ![p].pc = "cas", ![p].seen = Of(p).start]
     ELSE Goto(p, "add")
  /\ UNCHANGED <<gate, clock, entryVars>>

(* Mutant: the window is begun anew although another request has begun it. *)
BeginWindowStoring(p) ==
  /\ slot[p].pc = "cas"
  /\ SetStart(p, slot[p].now)
  /\ admitted' = [admitted EXCEPT ![slot[p].ent] = 0]
  /\ Goto(p, "reset")
  /\ UNCHANGED <<gate, clock, current, raced>>

(* CompareAndSwap: the one that wins begins the window, the others retry.  *)
BeginWindow(p) ==
  /\ slot[p].pc = "cas"
  /\ IF Of(p).start = slot[p].seen
     THEN /\ SetStart(p, slot[p].now)
          /\ admitted' = [admitted EXCEPT ![slot[p].ent] = 0]
          /\ Goto(p, "reset")
     ELSE Goto(p, "window") /\ UNCHANGED <<entry, admitted>>
  /\ UNCHANGED <<gate, clock, current, raced>>

(* Mutant: the window begins with the count of the one before.             *)
ResetCountSkipped(p) ==
  /\ slot[p].pc = "reset"
  /\ Goto(p, "first")
  /\ UNCHANGED <<gate, clock, entryVars>>

ResetCount(p) ==
  /\ slot[p].pc = "reset"
  /\ SetCount(p, 0)
  /\ raced' = (raced \/ admitted[slot[p].ent] # 0)
  /\ Goto(p, "first")
  /\ UNCHANGED <<gate, clock, current, admitted>>

CountFirst(p) ==
  /\ slot[p].pc = "first"
  /\ SetCount(p, Of(p).count + 1)
  /\ LetIn(p)
  /\ Goto(p, "serve")
  /\ UNCHANGED <<gate, clock, current>>

(* Mutant: one request too many. *)
CountKeyOff(p) ==
  /\ gate = "apikey" /\ slot[p].pc = "add"
  /\ SetCount(p, Of(p).count + 1)
  /\ IF Of(p).count > RateLimit
     THEN Leave(p) /\ UNCHANGED <<admitted, raced>>
     ELSE LetIn(p) /\ Goto(p, "serve")
  /\ UNCHANGED <<gate, clock, current>>

CountKey(p) ==
  /\ gate = "apikey" /\ slot[p].pc = "add"
  /\ SetCount(p, Of(p).count + 1)
  /\ IF Of(p).count + 1 > RateLimit
     THEN Leave(p) /\ UNCHANGED <<admitted, raced>>
     ELSE LetIn(p) /\ Goto(p, "serve")
  /\ UNCHANGED <<gate, clock, current>>

-----------------------------------------------------------------------------
(* The limits of an address.                                               *)

AddressEntry(p) ==
  /\ gate # "apikey" /\ slot[p].pc = "idle"
  /\ LoadEntry(p, "window")
  /\ UNCHANGED <<gate, clock, raced>>

(* Where a request goes that is not refused.  Requests to the              *)
(* administrator's API are counted after they were served.                 *)
Onward == IF gate = "admin" THEN "serve" ELSE "begin"

AddressWindow(p) ==
  /\ gate # "apikey" /\ slot[p].pc = "window"
  /\ LET start == Of(p).start
         inside == start > 0 /\ slot[p].now - start < Window
     IN  slot' = [slot EXCEPT ![p] =
                    IF inside /\ Of(p).count >= RateLimit THEN Idle
                    ELSE [@ EXCEPT !.seen = start,
                                   !.pc = IF inside \/ start = 0 THEN Onward ELSE "zero"]]
  /\ UNCHANGED <<gate, clock, entryVars>>

(* Others have begun the next window meanwhile. *)
Superseded(p) == Of(p).start \notin {0, slot[p].seen}

(* The window seen is over: its count and its start are cleared, each on   *)
(* its own, whatever other requests have made of the entry meanwhile.      *)
ZeroCount(p) ==
  /\ slot[p].pc = "zero"
  /\ SetCount(p, 0)
  /\ raced' = (raced \/ Superseded(p) \/ \E q \in Requests \ {p} : slot[q].ent = slot[p].ent)
  /\ Goto(p, "unset")
  /\ UNCHANGED <<gate, clock, current, admitted>>

UnsetStart(p) ==
  /\ slot[p].pc = "unset"
  /\ SetStart(p, 0)
  /\ raced' = (raced \/ Superseded(p))
  /\ Goto(p, Onward)
  /\ UNCHANGED <<gate, clock, current, admitted>>

(* CompareAndSwap(0, now). *)
BeginAddress(p) ==
  /\ slot[p].pc = "begin"
  /\ IF Of(p).start = 0
     THEN SetStart(p, slot[p].now) /\ admitted' = [admitted EXCEPT ![slot[p].ent] = 0]
     ELSE UNCHANGED <<entry, admitted>>
  /\ Goto(p, "add")
  /\ UNCHANGED <<gate, clock, current, raced>>

CountAddress(p) ==
  /\ gate # "apikey" /\ slot[p].pc = "add"
  /\ SetCount(p, Of(p).count + 1)
  /\ LetIn(p)
  /\ Leave(p)
  /\ UNCHANGED <<gate, clock, current>>

(* A request has been served: one let in by its key, or one to the         *)
(* administrator's API, which is counted if its answer was a 401.          *)
Served(p) ==
  /\ slot[p].pc = "serve"
  /\ Leave(p) \/ (gate = "admin" /\ Goto(p, "begin"))
  /\ UNCHANGED <<gate, clock, entryVars>>

-----------------------------------------------------------------------------
(* The maps live in memory: a restart forgets the windows.                 *)
LimitRestart ==
  /\ slot' = [p \in Requests |-> Idle]
  /\ current' = NoEntry /\ entry' = << >> /\ admitted' = << >> /\ raced' = FALSE
  /\ UNCHANGED <<gate, clock>>

KeyStep(p) ==
  \/ KeyEntry(p) \/ KeyWindow(p) \/ BeginWindow(p) \/ ResetCount(p) \/ CountFirst(p)
  \/ CountKey(p)

AddressStep(p) ==
  \/ AddressEntry(p) \/ AddressWindow(p) \/ ZeroCount(p) \/ UnsetStart(p)
  \/ BeginAddress(p) \/ CountAddress(p)

LimitNext ==
  \/ Tick \/ Cleanup \/ LimitRestart
  \/ \E p \in Requests : KeyStep(p) \/ AddressStep(p) \/ Served(p)

-----------------------------------------------------------------------------
(* Properties.                                                             *)

(* What an entry lets in during a window: its limit, and of the requests   *)
(* in progress those that are let in whatever the count has become: the    *)
(* one that begins the window of a key, and those of an address, whose     *)
(* count is read before it is raised.  Nothing else goes over the limit    *)
(* but a clearing or a removal of the entry under a request that loaded it.*)
WindowHolds ==
  ~raced => \A e \in DOMAIN entry : admitted[e] <= RateLimit - 1 + Cardinality(Requests)

(* middleware.go:101 "Reset then increment -- avoids stale old-window      *)
(* count race": a key is refused before its limit is used up only while    *)
(* another request is between beginning the window and clearing the count. *)
NoEarlyRefusal ==
  [][\A p \in Requests :
       (slot[p].pc = "add" /\ slot'[p].pc = "idle" /\ gate = "apikey" /\ entry' # << >>)
         => \/ admitted[slot[p].ent] >= RateLimit
            \/ \E q \in Requests : slot[q].pc = "reset" /\ slot[q].ent = slot[p].ent]_limitVars

===============================================================================
