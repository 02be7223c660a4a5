--------------------------- MODULE Server_proofs ---------------------------
(***************************************************************************)
(* Proofs about the server (MCServer) and the four parts it is made of.    *)
(*                                                                         *)
(* The limiters: the limit of a window holds because what an entry has let *)
(* in and the requests that will be let in whatever its count, together,   *)
(* never exceed the limit less one and the requests there are. For a key   *)
(* those are the requests that have begun the window and not counted       *)
(* themselves yet; for an address those that have read the count and not   *)
(* raised it. The count itself is never below what was let in, except      *)
(* between the two steps in which an address's request clears it.          *)
(*                                                                         *)
(* The usage buffer: table, hand and buffer, one behind the other, are     *)
(* always in order, so a cut at the old end of the buffer drops the        *)
(* oldest.                                                                 *)
(*                                                                         *)
(* The credentials: a day's successes and the requests in progress,        *)
(* together, stay within the limit less one and the callers there are; a   *)
(* session that was logged out of is revoked or has expired.               *)
(*                                                                         *)
(* The configuration: as long as writers do not overlap there is at most   *)
(* one between its steps, and the configuration in use, the manager's copy *)
(* and the rows differ by what that one has still to do.                   *)
(*                                                                         *)
(* The parts share no state: each inductive invariant is kept by the steps *)
(* of its own part, and every other step leaves its variables alone.       *)
(***************************************************************************)
EXTENDS MCServer, FiniteSetTheorems, SequenceTheorems, TLAPS

(* The limiters. *)

(* The steps of a key's request and of an address's. *)
KeyPcs     == {"window", "cas", "reset", "first", "add", "serve"}
AddressPcs == {"window", "zero", "unset", "begin", "add", "serve"}

Pcs        == {"idle", "window", "cas", "reset", "first", "add", "serve", "zero", "unset", "begin"}

Slots == [pc : Pcs, now : Nat, ent : Nat, seen : Nat]
EntryRecords == [count : Nat, start : Nat]

(* The types, with what ties a slot to its entry and to the clock. *)
LimitTyped ==
  /\ gate \in {"apikey", "global", "admin"}
  /\ clock \in 1..MaxClock
  /\ slot \in [Requests -> Slots]
  /\ \A p \in Requests :
       /\ slot[p].now <= clock /\ slot[p].seen <= clock
       /\ slot[p].ent \in DOMAIN entry \cup {NoEntry}
       /\ slot[p].pc # "idle" => /\ slot[p].ent \in DOMAIN entry /\ slot[p].now > 0
                                 /\ slot[p].pc \in IF gate = "apikey" THEN KeyPcs ELSE AddressPcs
       /\ slot[p].pc \in {"zero", "unset"} => slot[p].now >= slot[p].seen + Window /\ slot[p].seen > 0
  /\ DOMAIN entry \subseteq Entries /\ current \in DOMAIN entry \cup {NoEntry}
  /\ entry \in [DOMAIN entry -> EntryRecords]
  /\ \A e \in DOMAIN entry : entry[e].start <= clock
  /\ admitted \in [DOMAIN entry -> Nat]
  /\ raced \in BOOLEAN

(* The requests at an entry that will be let in whatever its count. *)
Unchecked == IF gate = "apikey" THEN {"reset", "first"} ELSE {"begin", "serve", "add"}
Bound(e) == {p \in Requests : slot[p].ent = e /\ slot[p].pc \in Unchecked}
Most == RateLimit - 1 + Cardinality(Requests)

(* A key's entry counts at least what it has let in, and what it has let   *)
(* in leaves room for those that will be.                                  *)
KeyWindows ==
  \A e \in DOMAIN entry :
     /\ admitted[e] <= entry[e].count
     /\ admitted[e] + Cardinality(Bound(e)) <= Most

(* p has cleared the count of the window it saw, and is to clear its start. *)
Clearing(p, e) == slot[p].pc = "unset" /\ slot[p].ent = e /\ slot[p].seen = entry[e].start

(* Whoever loads an entry while its window is cleared comes later, and     *)
(* sees that the window is over.                                           *)
ClearingOrder ==
  \A p \in Requests : \A q \in Requests \ {p} :
    slot[p].pc = "unset" /\ slot[q].ent = slot[p].ent =>
      /\ slot[q].now >= slot[p].now
      /\ Clearing(p, slot[p].ent) => slot[q].pc \in {"window", "zero"}

(* An address's entry: the same once its window has begun, or one is about *)
(* to clear what is left of the window before.  Until it begins nobody is  *)
(* about to count.                                                         *)
WindowOf(e) ==
  IF entry[e].start = 0
  THEN /\ admitted[e] <= Most
       /\ \A p \in Requests : slot[p].ent = e => slot[p].pc # "add"
  ELSE /\ admitted[e] + Cardinality(Bound(e)) <= Most
       /\ \/ admitted[e] <= entry[e].count
          \/ \E p \in Requests : Clearing(p, e)

AddressWindows == ClearingOrder /\ \A e \in DOMAIN entry : WindowOf(e)

(* A key's count runs ahead of what it lets in only once its limit is used *)
(* up, or while the count is still to be cleared.                          *)
Resetting(e) == \E q \in Requests : slot[q].pc = "reset" /\ slot[q].ent = e

CountsAdmitted ==
  \A e \in DOMAIN entry : \/ entry[e].count <= admitted[e]
                          \/ admitted[e] >= RateLimit
                          \/ Resetting(e)

(* The inductive invariant. *)
LimitIInv ==
  /\ LimitTyped
  /\ ~raced => IF gate = "apikey" THEN KeyWindows ELSE AddressWindows
  /\ gate = "apikey" => CountsAdmitted

(* What a step of a request amounts to. *)
SlotAt(p, pc, seen) == [pc |-> pc, now |-> slot[p].now, ent |-> slot[p].ent, seen |-> seen]
EntryRecord(n, s) == [count |-> n, start |-> s]

StepTo(p, s, c, a) ==
  /\ slot' = [slot EXCEPT ![p] = s]
  /\ entry' = [entry EXCEPT ![slot[p].ent] = c]
  /\ admitted' = [admitted EXCEPT ![slot[p].ent] = a]
  /\ UNCHANGED <<gate, clock, current>>

(* The slots and the entries are records, and how a change of one field    *)
(* leaves the others.                                                      *)
LEMMA SlotFacts ==
  /\ \A s \in Slots : /\ s.pc \in Pcs
                      /\ s.now \in Nat /\ s.ent \in Nat /\ s.seen \in Nat
  /\ \A s \in Slots, pc \in Pcs :
       [s EXCEPT !.pc = pc] = [pc |-> pc, now |-> s.now, ent |-> s.ent, seen |-> s.seen]
  /\ \A s \in Slots, n \in Nat :
       [s EXCEPT !.seen = n] = [pc |-> s.pc, now |-> s.now, ent |-> s.ent, seen |-> n]
  /\ \A c \in EntryRecords : c.count \in Nat /\ c.start \in Nat /\ c = EntryRecord(c.count, c.start)
  /\ \A c \in EntryRecords, n \in Nat :
       /\ [c EXCEPT !.count = n] = EntryRecord(n, c.start)
       /\ [c EXCEPT !.start = n] = EntryRecord(c.count, n)
  /\ \A n \in Nat, s \in Nat : EntryRecord(n, s) \in EntryRecords
  /\ \A n, s : EntryRecord(n, s).count = n /\ EntryRecord(n, s).start = s
  /\ Idle \in Slots /\ Fresh \in EntryRecords /\ Fresh = EntryRecord(0, 0)
<1>1. \A s \in Slots : /\ s.pc \in Pcs
                       /\ s.now \in Nat /\ s.ent \in Nat /\ s.seen \in Nat
  BY DEF Slots
<1>2. \A s \in Slots, pc \in Pcs :
        [s EXCEPT !.pc = pc] = [pc |-> pc, now |-> s.now, ent |-> s.ent, seen |-> s.seen]
  BY DEF Slots
<1>3. \A s \in Slots, n \in Nat :
        [s EXCEPT !.seen = n] = [pc |-> s.pc, now |-> s.now, ent |-> s.ent, seen |-> n]
  BY DEF Slots
<1>4. \A c \in EntryRecords : c.count \in Nat /\ c.start \in Nat /\ c = EntryRecord(c.count, c.start)
  BY DEF EntryRecords, EntryRecord
<1>5. \A c \in EntryRecords, n \in Nat :
        /\ [c EXCEPT !.count = n] = EntryRecord(n, c.start)
        /\ [c EXCEPT !.start = n] = EntryRecord(c.count, n)
  BY DEF EntryRecords, EntryRecord
<1>6. \A n \in Nat, s \in Nat : EntryRecord(n, s) \in EntryRecords
  BY DEF EntryRecords, EntryRecord
<1>7. \A n, s : EntryRecord(n, s).count = n /\ EntryRecord(n, s).start = s
  BY DEF EntryRecord
<1>8. Idle \in Slots /\ Fresh \in EntryRecords /\ Fresh = EntryRecord(0, 0)
  BY DEF Idle, Slots, Fresh, EntryRecords, EntryRecord, NoEntry, Pcs
<1> QED
  BY <1>1, <1>2, <1>3, <1>4, <1>5, <1>6, <1>7, <1>8

(* Two fields of a slot changed, in either order. *)
LEMMA TwoFields ==
  ASSUME NEW s \in Slots, NEW pc \in Pcs, NEW n \in Nat
  PROVE  /\ [[s EXCEPT !.pc = pc] EXCEPT !.seen = n] = [pc |-> pc, now |-> s.now, ent |-> s.ent, seen |-> n]
         /\ [[s EXCEPT !.seen = n] EXCEPT !.pc = pc] = [pc |-> pc, now |-> s.now, ent |-> s.ent, seen |-> n]
<1> DEFINE t == [pc |-> pc, now |-> s.now, ent |-> s.ent, seen |-> s.seen]
           u == [pc |-> s.pc, now |-> s.now, ent |-> s.ent, seen |-> n]
<1>1. [s EXCEPT !.pc = pc] = t /\ [s EXCEPT !.seen = n] = u
  BY SlotFacts
<1>2. t \in Slots /\ u \in Slots
  BY SlotFacts DEF Slots
<1>3. [t EXCEPT !.seen = n] = [pc |-> t.pc, now |-> t.now, ent |-> t.ent, seen |-> n]
  BY <1>2, SlotFacts
<1>4. [u EXCEPT !.pc = pc] = [pc |-> pc, now |-> u.now, ent |-> u.ent, seen |-> u.seen]
  BY <1>2, SlotFacts
<1>5. /\ t.pc = pc /\ t.now = s.now /\ t.ent = s.ent
      /\ u.now = s.now /\ u.ent = s.ent /\ u.seen = n
  OBVIOUS
<1> HIDE DEF t, u
<1> QED
  BY <1>1, <1>3, <1>4, <1>5

(* A slot that goes on to another step. *)
LEMMA AtFacts ==
  ASSUME LimitTyped, NEW p \in Requests,
         NEW pc \in Pcs, NEW seen \in Nat
  PROVE  /\ SlotAt(p, pc, seen) \in Slots
         /\ SlotAt(p, pc, seen).pc = pc /\ SlotAt(p, pc, seen).seen = seen
         /\ SlotAt(p, pc, seen).now = slot[p].now /\ SlotAt(p, pc, seen).ent = slot[p].ent
BY SlotFacts DEF LimitTyped, SlotAt, Slots

(* What the types say of a request and of its entry. *)
LEMMA TypedFacts ==
  ASSUME LimitTyped, NEW p \in Requests
  PROVE  /\ slot[p] \in Slots /\ slot[p].now \in Nat /\ slot[p].ent \in Nat /\ slot[p].seen \in Nat
         /\ slot[p].pc # "idle" => /\ slot[p].ent \in DOMAIN entry
                                   /\ Of(p) \in EntryRecords /\ Of(p).count \in Nat
                                   /\ Of(p).start \in Nat /\ Of(p).start <= clock
                                   /\ admitted[slot[p].ent] \in Nat
BY SlotFacts DEF LimitTyped, Of

(* The state after such a step. *)
LEMMA StepFacts ==
  ASSUME LimitTyped, NEW p \in Requests, NEW s, NEW c, NEW a, StepTo(p, s, c, a),
         slot[p].pc # "idle"
  PROVE  /\ slot'[p] = s /\ \A q \in Requests \ {p} : slot'[q] = slot[q]
         /\ DOMAIN entry' = DOMAIN entry /\ DOMAIN admitted' = DOMAIN entry
         /\ entry'[slot[p].ent] = c /\ admitted'[slot[p].ent] = a
         /\ \A e \in DOMAIN entry \ {slot[p].ent} : entry'[e] = entry[e] /\ admitted'[e] = admitted[e]
BY DEF LimitTyped, StepTo

(* Each action is one. *)
LEMMA RequestSteps ==
  ASSUME LimitTyped, NEW p \in Requests, slot[p].pc # "idle"
  PROVE  LET c == Of(p)
             a == admitted[slot[p].ent]
             n == slot[p].seen
         IN
         /\ KeyWindow(p) =>
              \/ c.start + Window <= slot[p].now /\ StepTo(p, SlotAt(p, "cas", c.start), c, a)
              \/ StepTo(p, SlotAt(p, "add", n), c, a)
         /\ BeginWindow(p) =>
              \/ StepTo(p, SlotAt(p, "reset", n), EntryRecord(c.count, slot[p].now), 0)
              \/ StepTo(p, SlotAt(p, "window", n), c, a)
         /\ ResetCount(p) => StepTo(p, SlotAt(p, "first", n), EntryRecord(0, c.start), a)
         /\ CountFirst(p) => StepTo(p, SlotAt(p, "serve", n), EntryRecord(c.count + 1, c.start), a + 1)
         /\ CountKey(p) =>
              \/ c.count + 1 > RateLimit /\ StepTo(p, Idle, EntryRecord(c.count + 1, c.start), a)
              \/ /\ c.count + 1 <= RateLimit
                 /\ StepTo(p, SlotAt(p, "serve", n), EntryRecord(c.count + 1, c.start), a + 1)
         /\ AddressWindow(p) =>
              \/ StepTo(p, Idle, c, a)
              \/ /\ c.start = 0 \/ (c.count < RateLimit /\ slot[p].now < c.start + Window)
                 /\ StepTo(p, SlotAt(p, Onward, c.start), c, a)
              \/ /\ c.start # 0 /\ slot[p].now >= c.start + Window
                 /\ StepTo(p, SlotAt(p, "zero", c.start), c, a)
         /\ ZeroCount(p) => StepTo(p, SlotAt(p, "unset", n), EntryRecord(0, c.start), a)
         /\ UnsetStart(p) => StepTo(p, SlotAt(p, Onward, n), EntryRecord(c.count, 0), a)
         /\ BeginAddress(p) =>
              \/ c.start = 0 /\ StepTo(p, SlotAt(p, "add", n), EntryRecord(c.count, slot[p].now), 0)
              \/ c.start # 0 /\ StepTo(p, SlotAt(p, "add", n), c, a)
         /\ CountAddress(p) => StepTo(p, Idle, EntryRecord(c.count + 1, c.start), a + 1)
         /\ Served(p) => \/ StepTo(p, Idle, c, a)
                         \/ gate = "admin" /\ StepTo(p, SlotAt(p, "begin", n), c, a)
<1> DEFINE e == slot[p].ent
           c == Of(p)
           a == admitted[e]
           n == slot[p].seen
<1>1. /\ slot[p] \in Slots /\ slot[p].now \in Nat /\ n \in Nat /\ e \in DOMAIN entry
      /\ c \in EntryRecords /\ c.count \in Nat /\ c.start \in Nat /\ c.start <= clock /\ a \in Nat
  BY TypedFacts
<1>2. /\ slot \in [Requests -> Slots] /\ entry \in [DOMAIN entry -> EntryRecords]
      /\ admitted \in [DOMAIN entry -> Nat] /\ clock \in Nat
  BY RateLimitsAssumption DEF LimitTyped
<1>3. \A pc \in Pcs : Goto(p, pc) => slot' = [slot EXCEPT ![p] = SlotAt(p, pc, n)]
  <2>1. \A pc \in Pcs : [slot[p] EXCEPT !.pc = pc] = SlotAt(p, pc, n)
    BY <1>1, SlotFacts DEF SlotAt
  <2> QED
    BY <1>2, <2>1 DEF Goto
<1>4. \A m \in Nat : SetCount(p, m) => entry' = [entry EXCEPT ![e] = EntryRecord(m, c.start)]
  <2>1. \A m \in Nat : [entry[e] EXCEPT !.count = m] = EntryRecord(m, c.start)
    BY <1>1, SlotFacts DEF Of
  <2> QED
    BY <1>2, <2>1 DEF SetCount
<1>5. \A m \in Nat : SetStart(p, m) => entry' = [entry EXCEPT ![e] = EntryRecord(c.count, m)]
  <2>1. \A m \in Nat : [entry[e] EXCEPT !.start = m] = EntryRecord(c.count, m)
    BY <1>1, SlotFacts DEF Of
  <2> QED
    BY <1>2, <2>1 DEF SetStart
<1>6. Leave(p) => slot' = [slot EXCEPT ![p] = Idle]
  BY DEF Leave
<1>7. UNCHANGED entry => entry' = [entry EXCEPT ![e] = c]
  BY <1>1, <1>2 DEF Of
<1>8. UNCHANGED admitted => admitted' = [admitted EXCEPT ![e] = a]
  BY <1>1, <1>2
<1>9. admitted' = [admitted EXCEPT ![e] = @ + 1] => admitted' = [admitted EXCEPT ![e] = a + 1]
  OBVIOUS
<1>0. /\ "idle" \in Pcs /\ "window" \in Pcs /\ "cas" \in Pcs /\ "reset" \in Pcs /\ "first" \in Pcs
      /\ "add" \in Pcs /\ "serve" \in Pcs /\ "zero" \in Pcs /\ "unset" \in Pcs /\ "begin" \in Pcs
  BY DEF Pcs
<1>10. Window \in Nat /\ RateLimit \in Nat
  BY RateLimitsAssumption
<1> HIDE DEF c, a, n, e
<1>11. KeyWindow(p) =>
         \/ c.start + Window <= slot[p].now /\ StepTo(p, SlotAt(p, "cas", c.start), c, a)
         \/ StepTo(p, SlotAt(p, "add", n), c, a)
  <2> SUFFICES ASSUME KeyWindow(p)
               PROVE  \/ c.start + Window <= slot[p].now /\ StepTo(p, SlotAt(p, "cas", c.start), c, a)
                      \/ StepTo(p, SlotAt(p, "add", n), c, a)
    OBVIOUS
  <2>1. UNCHANGED <<gate, clock, current, entry, admitted>>
    BY DEF KeyWindow, entryVars
  <2>2. CASE slot[p].now - c.start >= Window
    <3>1. slot' = [slot EXCEPT ![p].pc = "cas", ![p].seen = c.start]
      BY <2>2 DEF KeyWindow, c
    <3>2. [[slot[p] EXCEPT !.pc = "cas"] EXCEPT !.seen = c.start] = SlotAt(p, "cas", c.start)
      BY <1>0, <1>1, TwoFields DEF SlotAt
    <3>3. slot' = [slot EXCEPT ![p] = SlotAt(p, "cas", c.start)]
      BY <1>2, <3>1, <3>2
    <3> QED
      BY <1>1, <1>7, <1>8, <1>10, <2>1, <2>2, <3>3 DEF StepTo, e
  <2>3. CASE ~(slot[p].now - c.start >= Window)
    BY <1>0, <1>3, <1>7, <1>8, <2>1, <2>3 DEF KeyWindow, StepTo, c, e
  <2> QED
    BY <2>2, <2>3
<1>12. BeginWindow(p) =>
         \/ StepTo(p, SlotAt(p, "reset", n), EntryRecord(c.count, slot[p].now), 0)
         \/ StepTo(p, SlotAt(p, "window", n), c, a)
  BY <1>0, <1>1, <1>3, <1>5, <1>7, <1>8 DEF BeginWindow, StepTo, e
<1>13. ResetCount(p) => StepTo(p, SlotAt(p, "first", n), EntryRecord(0, c.start), a)
  BY <1>0, <1>3, <1>4, <1>8 DEF ResetCount, StepTo, e
<1>14. CountFirst(p) => StepTo(p, SlotAt(p, "serve", n), EntryRecord(c.count + 1, c.start), a + 1)
  BY <1>0, <1>1, <1>3, <1>4, <1>9 DEF CountFirst, StepTo, LetIn, c, e
<1>15. CountKey(p) =>
         \/ c.count + 1 > RateLimit /\ StepTo(p, Idle, EntryRecord(c.count + 1, c.start), a)
         \/ /\ c.count + 1 <= RateLimit
            /\ StepTo(p, SlotAt(p, "serve", n), EntryRecord(c.count + 1, c.start), a + 1)
  BY <1>0, <1>1, <1>3, <1>4, <1>6, <1>8, <1>9, <1>10 DEF CountKey, StepTo, LetIn, c, e
<1>16. AddressWindow(p) =>
         \/ StepTo(p, Idle, c, a)
         \/ /\ c.start = 0 \/ (c.count < RateLimit /\ slot[p].now < c.start + Window)
            /\ StepTo(p, SlotAt(p, Onward, c.start), c, a)
         \/ /\ c.start # 0 /\ slot[p].now >= c.start + Window
            /\ StepTo(p, SlotAt(p, "zero", c.start), c, a)
  <2> SUFFICES ASSUME AddressWindow(p)
               PROVE  \/ StepTo(p, Idle, c, a)
                      \/ /\ c.start = 0 \/ (c.count < RateLimit /\ slot[p].now < c.start + Window)
                         /\ StepTo(p, SlotAt(p, Onward, c.start), c, a)
                      \/ /\ c.start # 0 /\ slot[p].now >= c.start + Window
                         /\ StepTo(p, SlotAt(p, "zero", c.start), c, a)
    OBVIOUS
  <2> DEFINE inside == c.start > 0 /\ slot[p].now - c.start < Window
             pc == IF inside \/ c.start = 0 THEN Onward ELSE "zero"
             s == IF inside /\ c.count >= RateLimit THEN Idle
                  ELSE [slot[p] EXCEPT !.seen = c.start, !.pc = pc]
  <2>1. UNCHANGED <<gate, clock, current, entry, admitted>> /\ slot' = [slot EXCEPT ![p] = s]
    BY <1>2 DEF AddressWindow, entryVars, c
  <2>2. [slot[p] EXCEPT !.seen = c.start, !.pc = pc] = SlotAt(p, pc, c.start)
    <3>1. pc \in Pcs
      BY DEF Onward, Pcs
    <3> HIDE DEF pc
    <3>2. [slot[p] EXCEPT !.seen = c.start, !.pc = pc]
            = [[slot[p] EXCEPT !.seen = c.start] EXCEPT !.pc = pc]
      OBVIOUS
    <3>3. [[slot[p] EXCEPT !.seen = c.start] EXCEPT !.pc = pc] = SlotAt(p, pc, c.start)
      BY <1>1, <3>1, TwoFields DEF SlotAt
    <3> QED
      BY <3>2, <3>3
  <2>3. StepTo(p, s, c, a)
    BY <1>7, <1>8, <2>1 DEF StepTo, e
  <2> QED
    BY <1>1, <1>10, <2>2, <2>3
<1>17. ZeroCount(p) => StepTo(p, SlotAt(p, "unset", n), EntryRecord(0, c.start), a)
  BY <1>0, <1>3, <1>4, <1>8 DEF ZeroCount, StepTo, e
<1>18. UnsetStart(p) => StepTo(p, SlotAt(p, Onward, n), EntryRecord(c.count, 0), a)
  BY <1>0, <1>3, <1>5, <1>8 DEF UnsetStart, StepTo, Onward, e
<1>19. BeginAddress(p) =>
         \/ c.start = 0 /\ StepTo(p, SlotAt(p, "add", n), EntryRecord(c.count, slot[p].now), 0)
         \/ c.start # 0 /\ StepTo(p, SlotAt(p, "add", n), c, a)
  BY <1>0, <1>1, <1>3, <1>5, <1>7, <1>8 DEF BeginAddress, StepTo, c, e
<1>20. CountAddress(p) => StepTo(p, Idle, EntryRecord(c.count + 1, c.start), a + 1)
  BY <1>1, <1>4, <1>6, <1>9 DEF CountAddress, StepTo, LetIn, c, e
<1>21. Served(p) => \/ StepTo(p, Idle, c, a)
                    \/ gate = "admin" /\ StepTo(p, SlotAt(p, "begin", n), c, a)
  BY <1>0, <1>3, <1>6, <1>7, <1>8 DEF Served, StepTo, entryVars, e
<1> QED
  BY <1>11, <1>12, <1>13, <1>14, <1>15, <1>16, <1>17, <1>18, <1>19, <1>20, <1>21 DEF c, a, n, e

(* A request that loads the entry of its key or address. *)
LEMMA LoadFacts ==
  ASSUME LimitTyped, NEW p \in Requests, LoadEntry(p, "window"), UNCHANGED <<gate, clock, raced>>
  PROVE  /\ current' \in Entries /\ DOMAIN entry' = DOMAIN entry \cup {current'}
         /\ DOMAIN admitted' = DOMAIN entry'
         /\ \A e \in DOMAIN entry : entry'[e] = entry[e] /\ admitted'[e] = admitted[e]
         /\ \A e \in DOMAIN entry' \ DOMAIN entry : entry'[e] = Fresh /\ admitted'[e] = 0
         /\ \A e \in DOMAIN entry' : entry'[e] \in EntryRecords
         /\ slot' = [slot EXCEPT ![p] =
                       [pc |-> "window", now |-> clock, ent |-> current', seen |-> entry'[current'].start]]
<1>1. PICK e \in IF current = NoEntry THEN Entries \ DOMAIN entry ELSE {current} :
         /\ current' = e
         /\ entry' = [f \in DOMAIN entry \cup {e} |-> IF f \in DOMAIN entry THEN entry[f] ELSE Fresh]
         /\ admitted' = [f \in DOMAIN entry' |-> IF f \in DOMAIN entry THEN admitted[f] ELSE 0]
         /\ slot' = [slot EXCEPT ![p] = [pc |-> "window", now |-> clock, ent |-> e, seen |-> entry'[e].start]]
  BY DEF LoadEntry
<1>2. e \in Entries
  BY <1>1 DEF LimitTyped
<1>3. \A f \in DOMAIN entry' : entry'[f] \in EntryRecords
  BY <1>1, SlotFacts DEF LimitTyped
<1> QED
  BY <1>1, <1>2, <1>3

(* Loading an entry keeps the types. *)
LEMMA LoadKeepsTypes ==
  ASSUME LimitTyped, NEW p \in Requests, LoadEntry(p, "window"), UNCHANGED <<gate, clock, raced>>
  PROVE  LimitTyped'
<1> DEFINE s == [pc |-> "window", now |-> clock, ent |-> current', seen |-> entry'[current'].start]
<1>1. clock \in Nat /\ clock > 0 /\ clock \in 1..MaxClock
  BY RateLimitsAssumption DEF LimitTyped
<1>2. /\ DOMAIN entry' \subseteq Entries /\ current' \in DOMAIN entry'
      /\ entry' \in [DOMAIN entry' -> EntryRecords] /\ admitted' \in [DOMAIN entry' -> Nat]
  <2>1. entry' = [e \in DOMAIN entry' |-> entry'[e]] /\ admitted' = [e \in DOMAIN entry' |-> admitted'[e]]
    BY DEF LoadEntry
  <2>2. \A e \in DOMAIN entry' : admitted'[e] \in Nat
    BY LoadFacts DEF LimitTyped
  <2> QED
    BY <2>1, <2>2, LoadFacts DEF LimitTyped
<1>3. \A e \in DOMAIN entry' : entry'[e].start \in Nat /\ entry'[e].start <= clock
  <2>1. \A e \in DOMAIN entry : entry'[e].start <= clock
    BY LoadFacts DEF LimitTyped
  <2>2. \A e \in DOMAIN entry' \ DOMAIN entry : entry'[e].start = 0
    BY LoadFacts, SlotFacts
  <2>3. \A e \in DOMAIN entry' : entry'[e].start \in Nat
    BY LoadFacts, SlotFacts
  <2> QED
    BY <1>1, <2>1, <2>2, <2>3
<1>4. current' \in Nat
  BY LoadFacts, RateLimitsAssumption
<1>5. s \in Slots /\ s.pc = "window" /\ s.now = clock /\ s.ent = current' /\ s.seen <= clock
  BY <1>1, <1>2, <1>3, <1>4 DEF Slots, Pcs
<1> HIDE DEF s
<1>6. slot' = [slot EXCEPT ![p] = s]
  BY LoadFacts DEF s
<1>7. slot' \in [Requests -> Slots]
  BY <1>5, <1>6 DEF LimitTyped
<1>8. ASSUME NEW q \in Requests
      PROVE  /\ slot'[q].now <= clock /\ slot'[q].seen <= clock
             /\ slot'[q].ent \in DOMAIN entry' \cup {NoEntry}
             /\ slot'[q].pc # "idle" => /\ slot'[q].ent \in DOMAIN entry' /\ slot'[q].now > 0
                                        /\ slot'[q].pc \in IF gate = "apikey" THEN KeyPcs ELSE AddressPcs
             /\ slot'[q].pc \in {"zero", "unset"} => slot'[q].now >= slot'[q].seen + Window /\ slot'[q].seen > 0
  <2>1. CASE q = p
    BY <1>1, <1>2, <1>5, <1>6, <2>1 DEF LimitTyped, KeyPcs, AddressPcs
  <2>2. CASE q # p
    BY <1>6, <2>2, LoadFacts DEF LimitTyped
  <2> QED
    BY <2>1, <2>2
<1> QED
  BY <1>2, <1>3, <1>7, <1>8 DEF LimitTyped

(* A step of a request keeps the types when its slot and its entry do. *)
LEMMA StepKeepsTypes ==
  ASSUME LimitTyped, NEW p \in Requests, slot[p].pc # "idle", raced' \in BOOLEAN,
         NEW s \in Slots, NEW c \in EntryRecords, NEW a \in Nat, StepTo(p, s, c, a),
         c.start <= clock,
         \/ s = Idle
         \/ /\ s.now = slot[p].now /\ s.ent = slot[p].ent /\ s.seen <= clock
            /\ s.pc \in IF gate = "apikey" THEN KeyPcs ELSE AddressPcs
            /\ s.pc \in {"zero", "unset"} => s.now >= s.seen + Window /\ s.seen > 0
  PROVE  LimitTyped'
<1>1. clock \in Nat
  BY RateLimitsAssumption DEF LimitTyped
<1>2. slot' \in [Requests -> Slots] /\ DOMAIN entry' = DOMAIN entry
      /\ entry' \in [DOMAIN entry -> EntryRecords] /\ admitted' \in [DOMAIN entry -> Nat]
  BY DEF StepTo, LimitTyped
<1>3. \A e \in DOMAIN entry : entry'[e].start <= clock
  BY StepFacts DEF LimitTyped
<1>4. /\ s.now <= clock /\ s.seen <= clock
      /\ s.ent \in DOMAIN entry \cup {NoEntry}
      /\ s.pc # "idle" => /\ s.ent \in DOMAIN entry /\ s.now > 0
                          /\ s.pc \in IF gate = "apikey" THEN KeyPcs ELSE AddressPcs
      /\ s.pc \in {"zero", "unset"} => s.now >= s.seen + Window /\ s.seen > 0
  BY <1>1, SlotFacts DEF LimitTyped, Idle
<1>5. ASSUME NEW q \in Requests
      PROVE  /\ slot'[q].now <= clock /\ slot'[q].seen <= clock
             /\ slot'[q].ent \in DOMAIN entry \cup {NoEntry}
             /\ slot'[q].pc # "idle" => /\ slot'[q].ent \in DOMAIN entry /\ slot'[q].now > 0
                                        /\ slot'[q].pc \in IF gate = "apikey" THEN KeyPcs ELSE AddressPcs
             /\ slot'[q].pc \in {"zero", "unset"} => slot'[q].now >= slot'[q].seen + Window /\ slot'[q].seen > 0
  <2>1. CASE q = p
    BY <1>4, <2>1, StepFacts
  <2>2. CASE q # p
    BY <2>2, StepFacts DEF LimitTyped
  <2> QED
    BY <2>1, <2>2
<1> QED
  BY <1>2, <1>3, <1>5 DEF LimitTyped, StepTo

(* Every step of the limiters keeps the types. *)
LEMMA LimitTypedKept ==
  ASSUME LimitTyped, LimitNext
  PROVE  LimitTyped'
<1>0. clock \in Nat /\ Window \in Nat /\ RateLimit \in Nat
  BY RateLimitsAssumption DEF LimitTyped
<1>1. CASE Tick
  <2>1. /\ clock' = clock + 1 /\ clock' \in 1..MaxClock
        /\ UNCHANGED <<gate, slot, current, entry, admitted, raced>>
    BY <1>1, RateLimitsAssumption DEF Tick, entryVars, LimitTyped
  <2>2. \A p \in Requests : slot[p].now <= clock + 1 /\ slot[p].seen <= clock + 1
    BY <1>0, TypedFacts DEF LimitTyped
  <2>3. \A e \in DOMAIN entry : entry[e].start <= clock + 1
    BY <1>0, SlotFacts DEF LimitTyped
  <2> QED
    BY <2>1, <2>2, <2>3 DEF LimitTyped
<1>2. CASE Cleanup
  BY <1>2 DEF Cleanup, LimitTyped
<1>3. CASE LimitRestart
  <2>1. entry' = << >> /\ admitted' = << >> /\ current' = NoEntry /\ raced' = FALSE /\ UNCHANGED <<gate, clock>>
    BY <1>3 DEF LimitRestart
  <2>2. DOMAIN entry' = {} /\ entry' \in [{} -> EntryRecords] /\ admitted' \in [{} -> Nat]
    BY <2>1
  <2>3. slot' \in [Requests -> Slots] /\ \A p \in Requests : slot'[p] = Idle
    BY <1>3, SlotFacts DEF LimitRestart
  <2>4. Idle.pc = "idle" /\ Idle.now = 0 /\ Idle.seen = 0 /\ Idle.ent = NoEntry
    BY DEF Idle
  <2> QED
    <3>1. /\ \A p \in Requests : /\ slot'[p].now <= clock' /\ slot'[p].seen <= clock'
                                   /\ slot'[p].ent = NoEntry /\ slot'[p].pc = "idle"
          /\ clock' \in 1..MaxClock /\ gate' \in {"apikey", "global", "admin"}
      BY <1>0, <2>1, <2>3, <2>4 DEF LimitTyped
    <3> QED
      BY <2>1, <2>2, <2>3, <3>1 DEF LimitTyped
<1>4. ASSUME NEW p \in Requests, KeyStep(p) \/ AddressStep(p) \/ Served(p)
      PROVE  LimitTyped'
  <2>1. CASE KeyEntry(p) \/ AddressEntry(p)
    BY <2>1, LoadKeepsTypes DEF KeyEntry, AddressEntry
  <2>2. CASE ~(KeyEntry(p) \/ AddressEntry(p))
    <3>1. slot[p].pc # "idle"
      BY <1>4, <2>2 DEF KeyStep, KeyWindow, BeginWindow, ResetCount, CountFirst, CountKey,
         AddressStep, AddressWindow, ZeroCount, UnsetStart, BeginAddress, CountAddress, Served
    <3> DEFINE c == Of(p)
               a == admitted[slot[p].ent]
               n == slot[p].seen
    <3>2. /\ slot[p] \in Slots /\ slot[p].now \in Nat /\ n \in Nat
          /\ c \in EntryRecords /\ c.count \in Nat /\ c.start \in Nat /\ c.start <= clock /\ a \in Nat
          /\ slot[p].now <= clock /\ n <= clock
      BY <3>1, TypedFacts DEF LimitTyped
    <3>3. /\ gate = "apikey" => {"window", "cas", "reset", "first", "add", "serve"} \subseteq KeyPcs
          /\ {"zero", "unset", "begin", "window", "add", "serve"} \subseteq AddressPcs
          /\ KeyPcs \subseteq Pcs /\ AddressPcs \subseteq Pcs
          /\ slot[p].pc \in IF gate = "apikey" THEN KeyPcs ELSE AddressPcs
          /\ slot[p].pc \in {"zero", "unset"} => slot[p].now >= n + Window /\ n > 0
      BY <3>1 DEF KeyPcs, AddressPcs, Pcs, LimitTyped
    <3>4. \A pc \in Pcs, m \in Nat : /\ SlotAt(p, pc, m) \in Slots /\ SlotAt(p, pc, m).pc = pc /\ SlotAt(p, pc, m).seen = m
                                     /\ SlotAt(p, pc, m).now = slot[p].now /\ SlotAt(p, pc, m).ent = slot[p].ent
      BY AtFacts
    <3>5. \A i, j \in Nat : EntryRecord(i, j) \in EntryRecords /\ EntryRecord(i, j).start = j
      BY SlotFacts
    <3>6. Onward \in {"serve", "begin"} /\ Idle \in Slots
      BY SlotFacts DEF Onward
    <3>7. raced' \in BOOLEAN
      BY <1>4, <2>2 DEF LimitTyped, LetIn, entryVars, KeyStep, KeyWindow, BeginWindow, ResetCount, CountFirst,
         CountKey, AddressStep, AddressWindow, ZeroCount, UnsetStart, BeginAddress, CountAddress, Served
    <3> HIDE DEF c, a, n
    <3>8. \A s \in Slots, d \in EntryRecords, b \in Nat :
            /\ StepTo(p, s, d, b) /\ d.start <= clock
            /\ \/ s = Idle
               \/ /\ s.now = slot[p].now /\ s.ent = slot[p].ent /\ s.seen <= clock
                  /\ s.pc \in IF gate = "apikey" THEN KeyPcs ELSE AddressPcs
                  /\ s.pc \in {"zero", "unset"} => s.now >= s.seen + Window /\ s.seen > 0
            => LimitTyped'
      BY <3>1, <3>7, StepKeepsTypes
    <3>9. \A i, j, b \in Nat : StepTo(p, Idle, EntryRecord(i, j), b) /\ j <= clock => LimitTyped'
      BY <3>5, <3>6, <3>8
    <3>10. ASSUME gate = "apikey"
           PROVE  /\ \A pc \in KeyPcs : \A m, i, j, b \in Nat :
                       /\ StepTo(p, SlotAt(p, pc, m), EntryRecord(i, j), b) /\ j <= clock /\ m <= clock
                       => LimitTyped'
                  /\ "cas" \in KeyPcs /\ "window" \in KeyPcs /\ "reset" \in KeyPcs
                  /\ "first" \in KeyPcs /\ "add" \in KeyPcs /\ "serve" \in KeyPcs
      <4>1. \A pc \in KeyPcs : pc \in Pcs /\ pc \notin {"zero", "unset"}
        BY DEF Pcs, KeyPcs
      <4>2. /\ "cas" \in KeyPcs /\ "window" \in KeyPcs /\ "reset" \in KeyPcs
            /\ "first" \in KeyPcs /\ "add" \in KeyPcs /\ "serve" \in KeyPcs
        BY DEF KeyPcs
      <4> QED
        BY <3>4, <3>5, <3>8, <3>10, <4>1, <4>2
    <3>30. ASSUME gate # "apikey"
           PROVE  /\ \A pc \in AddressPcs : \A m, i, j, b \in Nat :
                       /\ StepTo(p, SlotAt(p, pc, m), EntryRecord(i, j), b) /\ j <= clock /\ m <= clock
                       /\ pc \in {"zero", "unset"} => slot[p].now >= m + Window /\ m > 0
                       => LimitTyped'
                  /\ "window" \in AddressPcs /\ "zero" \in AddressPcs /\ "unset" \in AddressPcs
                  /\ "begin" \in AddressPcs /\ "add" \in AddressPcs /\ "serve" \in AddressPcs
      <4>1. \A pc \in AddressPcs : pc \in Pcs
        BY DEF Pcs, AddressPcs
      <4>2. /\ "window" \in AddressPcs /\ "zero" \in AddressPcs /\ "unset" \in AddressPcs
            /\ "begin" \in AddressPcs /\ "add" \in AddressPcs /\ "serve" \in AddressPcs
        BY DEF AddressPcs
      <4> QED
        BY <3>4, <3>5, <3>8, <3>30, <4>1, <4>2
    <3>31. /\ c = EntryRecord(c.count, c.start) /\ c.count + 1 \in Nat /\ a + 1 \in Nat
           /\ 0 <= clock /\ 0 \in Nat
      BY <1>0, <3>2, SlotFacts
    <3>11. CASE KeyWindow(p)
      <4>1. \/ StepTo(p, SlotAt(p, "cas", c.start), c, a) \/ StepTo(p, SlotAt(p, "add", n), c, a)
        BY <3>1, <3>11, RequestSteps DEF c, a, n
      <4> QED
        BY <3>2, <3>3, <3>31, <4>1, <3>10, <3>11 DEF KeyWindow
    <3>12. CASE BeginWindow(p)
      <4>1. gate = "apikey"
        BY <3>3, <3>12 DEF BeginWindow, AddressPcs
      <4>2. \/ StepTo(p, SlotAt(p, "reset", n), EntryRecord(c.count, slot[p].now), 0)
            \/ StepTo(p, SlotAt(p, "window", n), c, a)
        BY <3>1, <3>12, RequestSteps DEF c, a, n
      <4> QED
        BY <3>2, <3>3, <3>31, <4>2, <3>10, <4>1
    <3>13. CASE ResetCount(p)
      <4>1. gate = "apikey"
        BY <3>3, <3>13 DEF ResetCount, AddressPcs
      <4>2. StepTo(p, SlotAt(p, "first", n), EntryRecord(0, c.start), a)
        BY <3>1, <3>13, RequestSteps DEF c, a, n
      <4> QED
        BY <3>2, <3>3, <3>31, <4>2, <3>10, <4>1
    <3>14. CASE CountFirst(p)
      <4>1. gate = "apikey"
        BY <3>3, <3>14 DEF CountFirst, AddressPcs
      <4>2. StepTo(p, SlotAt(p, "serve", n), EntryRecord(c.count + 1, c.start), a + 1)
        BY <3>1, <3>14, RequestSteps DEF c, a, n
      <4> QED
        BY <3>2, <3>3, <3>31, <4>2, <3>10, <4>1
    <3>15. CASE CountKey(p)
      <4>2. \/ StepTo(p, Idle, EntryRecord(c.count + 1, c.start), a)
            \/ StepTo(p, SlotAt(p, "serve", n), EntryRecord(c.count + 1, c.start), a + 1)
        BY <3>1, <3>15, RequestSteps DEF c, a, n
      <4> QED
        BY <3>2, <3>3, <3>31, <4>2, <3>9, <3>10, <3>15 DEF CountKey
    <3>16. CASE AddressWindow(p)
      <4>2. \/ StepTo(p, Idle, c, a)
            \/ StepTo(p, SlotAt(p, Onward, c.start), c, a)
            \/ /\ slot[p].now >= c.start + Window /\ c.start > 0
               /\ StepTo(p, SlotAt(p, "zero", c.start), c, a)
        BY <3>1, <3>2, <3>16, RequestSteps DEF c, a, n
      <4> QED
        <5>1. gate # "apikey" /\ Onward \in AddressPcs /\ Onward \notin {"zero", "unset"}
          BY <3>6, <3>16, <3>30 DEF AddressWindow
        <5>2. StepTo(p, Idle, c, a) => LimitTyped'
          BY <3>2, <3>9, <3>31
        <5>3. StepTo(p, SlotAt(p, Onward, c.start), c, a) => LimitTyped'
          BY <3>2, <3>30, <3>31, <5>1
        <5>4. slot[p].now >= c.start + Window /\ c.start > 0 /\ StepTo(p, SlotAt(p, "zero", c.start), c, a) => LimitTyped'
          BY <3>2, <3>30, <3>31, <5>1
        <5> QED
          BY <4>2, <5>2, <5>3, <5>4
    <3>17. CASE ZeroCount(p)
      <4>1. gate # "apikey"
        BY <3>3, <3>17 DEF ZeroCount, KeyPcs
      <4>2. StepTo(p, SlotAt(p, "unset", n), EntryRecord(0, c.start), a)
        BY <3>1, <3>17, RequestSteps DEF c, a, n
      <4> QED
        BY <3>2, <3>3, <3>31, <4>2, <3>17, <3>30, <4>1 DEF ZeroCount
    <3>18. CASE UnsetStart(p)
      <4>1. gate # "apikey"
        BY <3>3, <3>18 DEF UnsetStart, KeyPcs
      <4>2. StepTo(p, SlotAt(p, Onward, n), EntryRecord(c.count, 0), a)
        BY <3>1, <3>18, RequestSteps DEF c, a, n
      <4> QED
        BY <3>2, <3>3, <3>31, <4>2, <3>6, <3>30, <4>1
    <3>19. CASE BeginAddress(p)
      <4>1. gate # "apikey"
        BY <3>3, <3>19 DEF BeginAddress, KeyPcs
      <4>2. \/ StepTo(p, SlotAt(p, "add", n), EntryRecord(c.count, slot[p].now), 0)
            \/ StepTo(p, SlotAt(p, "add", n), c, a)
        BY <3>1, <3>19, RequestSteps DEF c, a, n
      <4> QED
        BY SMTT(30), <3>2, <3>3, <3>31, <4>2, <3>30, <4>1
    <3>20. CASE CountAddress(p)
      <4>2. StepTo(p, Idle, EntryRecord(c.count + 1, c.start), a + 1)
        BY <3>1, <3>20, RequestSteps DEF c, a, n
      <4> QED
        BY <3>2, <3>3, <3>31, <4>2, <3>9
    <3>21. CASE Served(p)
      <4>2. \/ StepTo(p, Idle, c, a)
            \/ gate = "admin" /\ StepTo(p, SlotAt(p, "begin", n), c, a)
        BY <3>1, <3>21, RequestSteps DEF c, a, n
      <4> QED
        BY SMTT(30), <3>2, <3>3, <3>31, <4>2, <3>9, <3>30
    <3> QED
      BY <1>4, <2>2, <3>11, <3>12, <3>13, <3>14, <3>15, <3>16, <3>17, <3>18, <3>19, <3>20, <3>21
         DEF KeyStep, AddressStep
  <2> QED
    BY <2>1, <2>2
<1> QED
  BY <1>1, <1>2, <1>3, <1>4 DEF LimitNext

(* Cardinalities of sets of requests. *)
LEMMA CountFacts ==
  ASSUME NEW S \in SUBSET Requests, NEW T \in SUBSET Requests, NEW p \in Requests
  PROVE  /\ Cardinality(S) \in Nat /\ Cardinality(Requests) \in Nat
         /\ Cardinality(S) <= Cardinality(Requests)
         /\ p \notin S => Cardinality(S) + 1 <= Cardinality(Requests)
         /\ S \subseteq T => Cardinality(S) <= Cardinality(T)
         /\ p \in T /\ S = T \ {p} => Cardinality(S) + 1 = Cardinality(T)
<1>1. IsFiniteSet(Requests) /\ IsFiniteSet(S) /\ IsFiniteSet(T)
  BY RateLimitsAssumption, FS_Subset
<1>2. Cardinality(S) \in Nat /\ Cardinality(T) \in Nat /\ Cardinality(Requests) \in Nat
  BY <1>1, FS_CardinalityType
<1>3. Cardinality(S) <= Cardinality(Requests)
  BY <1>1, FS_Subset
<1>4. ASSUME p \notin S PROVE Cardinality(S) + 1 <= Cardinality(Requests)
  <2>1. S \cup {p} \in SUBSET Requests
    OBVIOUS
  <2>2. Cardinality(S \cup {p}) <= Cardinality(Requests)
    BY <1>1, <2>1, FS_Subset
  <2>3. Cardinality(S \cup {p}) = Cardinality(S) + 1
    BY <1>1, <1>4, FS_AddElement
  <2> QED
    BY <2>2, <2>3
<1>5. S \subseteq T => Cardinality(S) <= Cardinality(T)
  BY <1>1, FS_Subset
<1>6. ASSUME p \in T, S = T \ {p} PROVE Cardinality(S) + 1 = Cardinality(T)
  <2>1. Cardinality(S) = Cardinality(T) - 1
    BY <1>1, <1>6, FS_RemoveElement
  <2> QED
    BY <1>2, <2>1
<1> QED
  BY <1>2, <1>3, <1>4, <1>5, <1>6

(* How a step of p changes the number of those that will be let in. *)
LEMMA BoundChanges ==
  ASSUME LimitTyped, LimitTyped', NEW p \in Requests, NEW e, gate' = gate,
         \A q \in Requests \ {p} : slot'[q] = slot[q]
  PROVE  LET n == Cardinality(Bound(e))
             m == Cardinality(Bound(e)')
         IN
         /\ n \in Nat /\ m \in Nat /\ n <= Cardinality(Requests) /\ m <= Cardinality(Requests)
         /\ Cardinality(Requests) \in Nat
         /\ p \notin Bound(e)' => m <= n /\ m + 1 <= Cardinality(Requests)
         /\ p \in Bound(e) /\ p \notin Bound(e)' => m + 1 = n
         /\ p \in Bound(e) => m <= n
<1>1. Unchecked' = Unchecked
  BY DEF Unchecked
<1>2. Bound(e) \in SUBSET Requests /\ Bound(e)' \in SUBSET Requests
  BY DEF Bound
<1>3. \A q \in Requests \ {p} : q \in Bound(e)' <=> q \in Bound(e)
  BY <1>1 DEF Bound
<1>4. p \notin Bound(e)' => Bound(e)' \subseteq Bound(e)
  BY <1>2, <1>3
<1>5. p \in Bound(e) => Bound(e)' \subseteq Bound(e)
  BY <1>2, <1>3
<1>6. p \in Bound(e) /\ p \notin Bound(e)' => Bound(e)' = Bound(e) \ {p}
  BY <1>2, <1>3
<1> QED
  BY <1>2, <1>4, <1>5, <1>6, CountFacts

(* Entries other than that of the request that moves.                      *)
LEMMA OtherEntries ==
  ASSUME LimitTyped, LimitTyped', NEW p \in Requests, NEW s, NEW c, NEW a, StepTo(p, s, c, a),
         slot[p].pc # "idle", s = Idle \/ s.ent = slot[p].ent,
         NEW e \in DOMAIN entry \ {slot[p].ent}
  PROVE  /\ entry'[e] = entry[e] /\ admitted'[e] = admitted[e] /\ Bound(e)' = Bound(e)
<1>1. Unchecked' = Unchecked
  BY DEF StepTo, Unchecked
<1>2. p \notin Bound(e) /\ p \notin Bound(e)'
  BY StepFacts DEF Bound, Unchecked, Idle
<1>3. \A q \in Requests \ {p} : q \in Bound(e)' <=> q \in Bound(e)
  BY <1>1, StepFacts DEF Bound
<1>4. Bound(e) \subseteq Requests /\ Bound(e)' \subseteq Requests
  BY DEF Bound
<1>5. Bound(e)' = Bound(e)
  BY <1>2, <1>3, <1>4
<1> QED
  BY <1>5, StepFacts

(* What a step of a key's request does to its entry is all there is to     *)
(* look at.                                                                *)
LEMMA KeyWindowsAt ==
  ASSUME LimitTyped, LimitTyped', KeyWindows,
         NEW p \in Requests, NEW s, NEW c, NEW a, StepTo(p, s, c, a),
         NEW f, f = slot[p].ent, slot[p].pc # "idle", s = Idle \/ s.ent = f,
         a <= c.count, a + Cardinality(Bound(f)') <= Most
  PROVE  KeyWindows'
<1>1. DOMAIN entry' = DOMAIN entry /\ entry'[f] = c /\ admitted'[f] = a
  BY StepFacts
<1>2. \A e \in DOMAIN entry \ {f} :
        entry'[e] = entry[e] /\ admitted'[e] = admitted[e] /\ Bound(e)' = Bound(e)
  BY OtherEntries
<1>3. Most' = Most
  BY DEF Most
<1>4. ASSUME NEW e \in DOMAIN entry
      PROVE  admitted'[e] <= entry'[e].count /\ admitted'[e] + Cardinality(Bound(e)') <= Most
  <2>1. CASE e = f
    BY <1>1, <2>1
  <2>2. CASE e # f
    BY <1>2, <2>2 DEF KeyWindows
  <2> QED
    BY <2>1, <2>2
<1> QED
  BY <1>1, <1>3, <1>4 DEF KeyWindows

(* The steps of a key's request keep what is counted of each window. *)
LEMMA KeyWindowsKept ==
  ASSUME LimitTyped, LimitTyped', KeyWindows, gate = "apikey", ~raced', NEW p \in Requests,
         KeyStep(p) \/ Served(p)
  PROVE  KeyWindows'
<1>0. gate' = gate
  BY DEF KeyStep, KeyEntry, KeyWindow, BeginWindow, ResetCount, CountFirst, CountKey, Served
<1>1. CASE KeyEntry(p)
  <2>1. LoadEntry(p, "window") /\ UNCHANGED <<gate, clock, raced>> /\ slot[p].pc = "idle"
    BY <1>1 DEF KeyEntry
  <2>2. slot'[p].pc = "window" /\ \A q \in Requests \ {p} : slot'[q] = slot[q]
    BY <2>1, LoadFacts DEF LimitTyped
  <2>3. \A e : p \notin Bound(e)'
    BY <1>0, <2>2 DEF Bound, Unchecked
  <2>4. ASSUME NEW e \in DOMAIN entry'
        PROVE  admitted'[e] <= entry'[e].count /\ admitted'[e] + Cardinality(Bound(e)') <= Most
    <3>1. /\ Cardinality(Bound(e)') \in Nat /\ Cardinality(Bound(e)) \in Nat
          /\ Cardinality(Bound(e)') <= Cardinality(Bound(e))
          /\ Cardinality(Bound(e)') <= Cardinality(Requests) /\ Cardinality(Requests) \in Nat
      BY <1>0, <2>2, <2>3, BoundChanges
    <3>2. CASE e \in DOMAIN entry
      <4>1. admitted'[e] = admitted[e] /\ entry'[e] = entry[e] /\ admitted[e] \in Nat
        BY <2>1, <3>2, LoadFacts DEF LimitTyped
      <4>2. admitted[e] <= entry[e].count /\ admitted[e] + Cardinality(Bound(e)) <= Most
        BY <3>2 DEF KeyWindows
      <4> QED
        BY <3>1, <4>1, <4>2, RateLimitsAssumption DEF Most
    <3>3. CASE e \notin DOMAIN entry
      <4>1. entry'[e] = Fresh /\ admitted'[e] = 0
        BY <2>1, <3>3, LoadFacts
      <4> QED
        BY <3>1, <4>1, RateLimitsAssumption DEF Most, Fresh
    <3> QED
      BY <3>2, <3>3
  <2>5. Most' = Most
    BY DEF Most
  <2> QED
    BY <2>4, <2>5 DEF KeyWindows
<1>2. ASSUME slot[p].pc # "idle", ~KeyEntry(p) PROVE KeyWindows'
  <2>0. PICK e : e = slot[p].ent
    OBVIOUS
  <2> DEFINE c == Of(p)
             a == admitted[e]
             n == slot[p].seen
             m == Cardinality(Bound(e)')
  <2>1. /\ n \in Nat /\ slot[p].now \in Nat /\ c.count \in Nat /\ c.start \in Nat /\ a \in Nat
        /\ e \in DOMAIN entry /\ e # NoEntry
    BY <1>2, <2>0, TypedFacts, RateLimitsAssumption DEF LimitTyped, NoEntry
  <2>2. a <= c.count /\ a + Cardinality(Bound(e)) <= Most
    BY <2>0, <2>1 DEF KeyWindows, Of
  <2>3. \A pc \in Pcs, k \in Nat : SlotAt(p, pc, k).ent = e /\ SlotAt(p, pc, k).pc = pc
    BY <2>0, AtFacts
  <2>4. \A i, j : EntryRecord(i, j).count = i
    BY SlotFacts
  <2>5. p \in Bound(e) <=> slot[p].pc \in {"reset", "first"}
    BY <2>0 DEF Bound, Unchecked
  <2>6. p \in Bound(e)' <=> slot'[p].ent = e /\ slot'[p].pc \in {"reset", "first"}
    BY <1>0, <2>0 DEF Bound, Unchecked
  <2>7. Idle.pc = "idle"
    BY DEF Idle
  <2>8. \A s, d, b : StepTo(p, s, d, b) =>
          /\ slot'[p] = s
          /\ Cardinality(Bound(e)) \in Nat /\ m \in Nat /\ m <= Cardinality(Requests)
          /\ Cardinality(Requests) \in Nat
          /\ p \notin Bound(e)' => m <= Cardinality(Bound(e)) /\ m + 1 <= Cardinality(Requests)
          /\ p \in Bound(e) /\ p \notin Bound(e)' => m + 1 = Cardinality(Bound(e))
          /\ p \in Bound(e) => m <= Cardinality(Bound(e))
    BY <1>0, <1>2, StepFacts, BoundChanges
  <2>9. \A s, d, b : /\ StepTo(p, s, d, b) /\ (s = Idle \/ s.ent = e)
                     /\ b <= d.count /\ b + m <= Most
                     => KeyWindows'
    BY <1>2, <2>0, KeyWindowsAt
  <2>10. RateLimit \in Nat \ {0} /\ Most = RateLimit - 1 + Cardinality(Requests)
    BY RateLimitsAssumption DEF Most
  <2>11. /\ "cas" \in Pcs /\ "add" \in Pcs /\ "reset" \in Pcs /\ "window" \in Pcs /\ "first" \in Pcs
         /\ "serve" \in Pcs /\ "begin" \in Pcs
    BY DEF Pcs
  <2> HIDE DEF c, a, n, m
  <2>12. CASE KeyWindow(p)
    <3>1. PICK pc \in {"cas", "add"}, k \in Nat : StepTo(p, SlotAt(p, pc, k), c, a)
      BY <1>2, <2>1, <2>12, <2>0, RequestSteps DEF c, a, n
    <3> QED
      BY <2>1, <2>2, <2>3, <2>6, <2>8, <2>9, <2>10, <2>11, <3>1
  <2>13. CASE BeginWindow(p)
    <3>1. \/ StepTo(p, SlotAt(p, "reset", n), EntryRecord(c.count, slot[p].now), 0)
          \/ StepTo(p, SlotAt(p, "window", n), c, a)
      BY <1>2, <2>13, <2>0, RequestSteps DEF c, a, n
    <3>2. CASE StepTo(p, SlotAt(p, "reset", n), EntryRecord(c.count, slot[p].now), 0)
      BY <2>1, <2>3, <2>4, <2>8, <2>9, <2>10, <2>11, <3>2
    <3>3. CASE StepTo(p, SlotAt(p, "window", n), c, a)
      BY <2>1, <2>2, <2>3, <2>6, <2>8, <2>9, <2>10, <2>11, <3>3
    <3> QED
      BY <3>1, <3>2, <3>3
  <2>14. CASE ResetCount(p)
    <3>1. StepTo(p, SlotAt(p, "first", n), EntryRecord(0, c.start), a) /\ a = 0 /\ slot[p].pc = "reset"
      BY <1>2, <2>14, <2>0, RequestSteps DEF c, a, n, ResetCount, LimitTyped
    <3> QED
      BY <2>1, <2>2, <2>3, <2>4, <2>5, <2>8, <2>9, <2>10, <2>11, <3>1
  <2>15. CASE CountFirst(p)
    <3>1. StepTo(p, SlotAt(p, "serve", n), EntryRecord(c.count + 1, c.start), a + 1) /\ slot[p].pc = "first"
      BY <1>2, <2>15, <2>0, RequestSteps DEF c, a, n, CountFirst
    <3> QED
      BY <2>1, <2>2, <2>3, <2>4, <2>5, <2>6, <2>8, <2>9, <2>10, <2>11, <3>1
  <2>16. CASE CountKey(p)
    <3>1. \/ StepTo(p, Idle, EntryRecord(c.count + 1, c.start), a)
          \/ /\ c.count + 1 <= RateLimit
             /\ StepTo(p, SlotAt(p, "serve", n), EntryRecord(c.count + 1, c.start), a + 1)
      BY <1>2, <2>16, <2>0, RequestSteps DEF c, a, n
    <3>2. CASE StepTo(p, Idle, EntryRecord(c.count + 1, c.start), a)
      BY <2>1, <2>2, <2>4, <2>6, <2>7, <2>8, <2>9, <2>10, <3>2
    <3>3. CASE /\ c.count + 1 <= RateLimit
               /\ StepTo(p, SlotAt(p, "serve", n), EntryRecord(c.count + 1, c.start), a + 1)
      BY <2>1, <2>2, <2>3, <2>4, <2>6, <2>8, <2>9, <2>10, <2>11, <3>3
    <3> QED
      BY <3>1, <3>2, <3>3
  <2>17. CASE Served(p)
    <3>1. StepTo(p, Idle, c, a)
      BY <1>2, <2>17, <2>0, RequestSteps DEF c, a, n
    <3> QED
      BY <2>1, <2>2, <2>6, <2>7, <2>8, <2>9, <2>10, <3>1
  <2> QED
    BY <1>2, <2>12, <2>13, <2>14, <2>15, <2>16, <2>17 DEF KeyStep
<1> QED
  BY <1>1, <1>2 DEF KeyStep, KeyWindow, BeginWindow, ResetCount, CountFirst, CountKey, Served

(* The same for the count of a key that runs ahead.                        *)
LEMMA CountsAdmittedKept ==
  ASSUME LimitTyped, LimitTyped', CountsAdmitted, gate = "apikey", NEW p \in Requests,
         KeyStep(p) \/ Served(p)
  PROVE  CountsAdmitted'
<1>1. CASE KeyEntry(p)
  <2>1. LoadEntry(p, "window") /\ UNCHANGED <<gate, clock, raced>> /\ slot[p].pc = "idle"
    BY <1>1 DEF KeyEntry
  <2>2. \A q \in Requests : slot[q].pc = "reset" => slot'[q] = slot[q]
    BY <2>1, LoadFacts DEF LimitTyped
  <2>3. ASSUME NEW e \in DOMAIN entry'
        PROVE  \/ entry'[e].count <= admitted'[e]
               \/ admitted'[e] >= RateLimit
               \/ Resetting(e)'
    <3>1. CASE e \in DOMAIN entry
      BY <2>1, <2>2, <3>1, LoadFacts DEF CountsAdmitted, Resetting
    <3>2. CASE e \notin DOMAIN entry
      BY <2>1, <3>2, LoadFacts DEF Fresh
    <3> QED
      BY <3>1, <3>2
  <2> QED
    BY <2>3 DEF CountsAdmitted
<1>2. ASSUME slot[p].pc # "idle", ~KeyEntry(p) PROVE CountsAdmitted'
  <2>0. PICK f : f = slot[p].ent
    OBVIOUS
  <2> DEFINE c == Of(p)
             a == admitted[f]
             n == slot[p].seen
  <2>1. /\ n \in Nat /\ c.count \in Nat /\ c.start \in Nat /\ a \in Nat /\ f \in DOMAIN entry
    BY <1>2, <2>0, TypedFacts
  <2>2. c.count <= a \/ a >= RateLimit \/ Resetting(f)
    BY <2>0, <2>1 DEF CountsAdmitted, Of
  <2>3. \A i, j : EntryRecord(i, j).count = i
    BY SlotFacts
  <2>4. RateLimit \in Nat
    BY RateLimitsAssumption
  <2>5. ASSUME NEW s, NEW d, NEW b, StepTo(p, s, d, b),
               \/ d.count <= b \/ b >= RateLimit \/ (s.pc = "reset" /\ s.ent = f)
               \/ (Resetting(f) /\ slot[p].pc # "reset"),
               slot[p].pc = "reset" => s.ent = f /\ d.count <= b
        PROVE  CountsAdmitted'
    <3>1. DOMAIN entry' = DOMAIN entry /\ entry'[f] = d /\ admitted'[f] = b /\ slot'[p] = s
      BY <1>2, <2>0, <2>5, StepFacts
    <3>2. \A e \in DOMAIN entry \ {f} : entry'[e] = entry[e] /\ admitted'[e] = admitted[e]
      BY <1>2, <2>0, <2>5, StepFacts
    <3>3. \A q \in Requests \ {p} : slot'[q] = slot[q]
      BY <1>2, <2>0, <2>5, StepFacts
    <3>4. ASSUME NEW e \in DOMAIN entry
          PROVE  \/ entry'[e].count <= admitted'[e]
                 \/ admitted'[e] >= RateLimit
                 \/ Resetting(e)'
      <4>1. CASE e # f
        <5>1. Resetting(e) => Resetting(e)'
          BY <2>0, <3>3, <4>1 DEF Resetting
        <5> QED
          BY <3>2, <4>1, <5>1 DEF CountsAdmitted
      <4>2. CASE e = f
        <5>1. Resetting(f) /\ slot[p].pc # "reset" => Resetting(f)'
          BY <3>3 DEF Resetting
        <5> QED
          BY <2>5, <3>1, <4>2, <5>1 DEF Resetting
      <4> QED
        BY <4>1, <4>2
    <3> QED
      BY <3>1, <3>4 DEF CountsAdmitted
  <2>7. \A s, d, b :
          /\ StepTo(p, s, d, b)
          /\ \/ d.count <= b \/ b >= RateLimit \/ (s.pc = "reset" /\ s.ent = f)
             \/ (Resetting(f) /\ slot[p].pc # "reset")
          /\ slot[p].pc = "reset" => s.ent = f /\ d.count <= b
          => CountsAdmitted'
    BY <2>5
  <2>6. /\ SlotAt(p, "reset", n).pc = "reset" /\ SlotAt(p, "reset", n).ent = f
        /\ SlotAt(p, "first", n).ent = f
    BY <2>0, <2>1, AtFacts DEF Pcs
  <2> HIDE DEF c, a, n
  <2>12. CASE KeyWindow(p)
    <3>1. PICK s : StepTo(p, s, c, a)
      BY <1>2, <2>12, <2>0, RequestSteps DEF c, a, n
    <3> QED
      BY <2>2, <2>7, <2>12, <3>1 DEF KeyWindow
  <2>13. CASE BeginWindow(p)
    <3>1. \/ StepTo(p, SlotAt(p, "reset", n), EntryRecord(c.count, slot[p].now), 0)
          \/ StepTo(p, SlotAt(p, "window", n), c, a)
      BY <1>2, <2>13, <2>0, RequestSteps DEF c, a, n
    <3> QED
      BY <2>2, <2>7, <2>6, <2>13, <3>1 DEF BeginWindow
  <2>14. CASE ResetCount(p)
    <3>1. StepTo(p, SlotAt(p, "first", n), EntryRecord(0, c.start), a)
      BY <1>2, <2>14, <2>0, RequestSteps DEF c, a, n
    <3> QED
      BY <2>1, <2>3, <2>7, <2>6, <3>1
  <2>15. CASE CountFirst(p)
    <3>1. StepTo(p, SlotAt(p, "serve", n), EntryRecord(c.count + 1, c.start), a + 1) /\ slot[p].pc = "first"
      BY <1>2, <2>15, <2>0, RequestSteps DEF c, a, n, CountFirst
    <3> QED
      BY <2>1, <2>2, <2>3, <2>4, <2>7, <3>1
  <2>16. CASE CountKey(p)
    <3>1. \/ c.count + 1 > RateLimit /\ StepTo(p, Idle, EntryRecord(c.count + 1, c.start), a)
          \/ StepTo(p, SlotAt(p, "serve", n), EntryRecord(c.count + 1, c.start), a + 1)
      BY <1>2, <2>16, <2>0, RequestSteps DEF c, a, n
    <3>2. slot[p].pc = "add"
      BY <2>16 DEF CountKey
    <3>3. CASE c.count + 1 > RateLimit /\ StepTo(p, Idle, EntryRecord(c.count + 1, c.start), a)
      BY <2>1, <2>2, <2>3, <2>4, <2>7, <3>2, <3>3
    <3>4. CASE StepTo(p, SlotAt(p, "serve", n), EntryRecord(c.count + 1, c.start), a + 1)
      BY <2>1, <2>2, <2>3, <2>4, <2>7, <3>2, <3>4
    <3> QED
      BY <3>1, <3>3, <3>4
  <2>17. CASE Served(p)
    <3>1. PICK s : StepTo(p, s, c, a)
      BY <1>2, <2>17, <2>0, RequestSteps DEF c, a, n
    <3> QED
      BY <2>2, <2>7, <2>17, <3>1 DEF Served
  <2> QED
    BY <1>2, <2>12, <2>13, <2>14, <2>15, <2>16, <2>17 DEF KeyStep
<1> QED
  BY <1>1, <1>2 DEF KeyStep, KeyWindow, BeginWindow, ResetCount, CountFirst, CountKey, Served

(* While the window seen by p is being cleared, others have come later and *)
(* see that it is over.                                                    *)
LEMMA ClearedIsOver ==
  ASSUME LimitTyped, ClearingOrder, NEW p \in Requests, NEW q \in Requests \ {p}, NEW f \in DOMAIN entry,
         slot[p].ent = f, Clearing(q, f)
  PROVE  /\ slot[p].now >= entry[f].start + Window /\ entry[f].start > 0
         /\ slot[p].pc \in {"window", "zero"}
<1>1. slot[q].pc = "unset" /\ slot[q].ent = f /\ slot[q].seen = entry[f].start
  BY DEF Clearing
<1>2. slot[p].now >= slot[q].now /\ slot[p].pc \in {"window", "zero"}
  BY <1>1 DEF ClearingOrder
<1>3. slot[q].now >= slot[q].seen + Window /\ slot[q].seen > 0
  BY <1>1 DEF LimitTyped
<1> QED
  BY <1>1, <1>2, <1>3, TypedFacts, RateLimitsAssumption

(* What a step of an address's request does to its entry is all there is   *)
(* to look at.                                                             *)
LEMMA AddressWindowsAt ==
  ASSUME LimitTyped, LimitTyped', AddressWindows,
         NEW p \in Requests, NEW s, NEW c, NEW a, StepTo(p, s, c, a),
         NEW f, f = slot[p].ent, slot[p].pc # "idle",
         s = Idle \/ (s.ent = f /\ s.now = slot[p].now),
         s.pc # "unset",
         \A q \in Requests \ {p} : slot[q].pc = "unset" /\ slot[q].ent = f /\ slot[q].seen = c.start
           => c.start = entry[f].start /\ (s = Idle \/ s.pc \in {"window", "zero"}),
         WindowOf(f)'
  PROVE  AddressWindows'
<1>1. /\ DOMAIN entry' = DOMAIN entry /\ entry'[f] = c /\ slot'[p] = s
      /\ \A q \in Requests \ {p} : slot'[q] = slot[q]
  BY StepFacts
<1>2. f # NoEntry /\ Idle.ent = NoEntry /\ f \in DOMAIN entry
  BY TypedFacts, RateLimitsAssumption DEF LimitTyped, Idle, NoEntry
<1>3. \A e \in DOMAIN entry \ {f} :
        entry'[e] = entry[e] /\ admitted'[e] = admitted[e] /\ Bound(e)' = Bound(e)
  BY OtherEntries
<1>4. \A e \in DOMAIN entry \ {f} : slot'[p].ent # e /\ slot[p].ent # e
  BY <1>1, <1>2, RateLimitsAssumption DEF LimitTyped, NoEntry
<1>5. ASSUME NEW e \in DOMAIN entry PROVE WindowOf(e)'
  <2>1. CASE e = f
    BY <2>1
  <2>2. CASE e # f
    <3>1. WindowOf(e)
      BY DEF AddressWindows
    <3>2. \A q \in Requests : Clearing(q, e) => Clearing(q, e)'
      BY <1>1, <1>3, <1>4, <2>2 DEF Clearing
    <3>3. \A q \in Requests : slot'[q].ent = e => slot'[q] = slot[q]
      BY <1>1, <1>4, <2>2
    <3>4. entry'[e] = entry[e] /\ admitted'[e] = admitted[e] /\ Bound(e)' = Bound(e) /\ Most' = Most
      BY <1>3, <2>2 DEF Most
    <3> QED
      BY <3>1, <3>2, <3>3, <3>4 DEF WindowOf
  <2> QED
    BY <2>1, <2>2
<1>6. ASSUME NEW q \in Requests, NEW r \in Requests \ {q}, slot'[q].pc = "unset",
             slot'[r].ent = slot'[q].ent
      PROVE  /\ slot'[r].now >= slot'[q].now
             /\ Clearing(q, slot[q].ent)' => slot'[r].pc \in {"window", "zero"}
  <2>1. q # p /\ slot'[q] = slot[q] /\ slot[q].ent \in DOMAIN entry /\ slot[q].ent # NoEntry
    BY <1>1, <1>6, TypedFacts, RateLimitsAssumption DEF LimitTyped, NoEntry
  <2>2. \A x \in Requests \ {q} : slot[x].ent = slot[q].ent =>
          /\ slot[x].now >= slot[q].now
          /\ Clearing(q, slot[q].ent) => slot[x].pc \in {"window", "zero"}
    BY <1>6, <2>1 DEF AddressWindows, ClearingOrder
  <2>3. Clearing(q, slot[q].ent)' => slot[q].seen = entry'[slot[q].ent].start
    BY <2>1 DEF Clearing
  <2>4. slot[q].seen = entry[slot[q].ent].start => Clearing(q, slot[q].ent)
    BY <1>6, <2>1 DEF Clearing
  <2>5. CASE slot[q].ent # f
    <3>1. r # p
      BY <1>1, <1>2, <1>6, <2>1, <2>5
    <3> QED
      BY <1>1, <1>3, <1>6, <2>1, <2>2, <2>3, <2>4, <2>5, <3>1
  <2>6. CASE slot[q].ent = f
    <3>1. Clearing(q, slot[q].ent)' => /\ Clearing(q, slot[q].ent)
                                       /\ s = Idle \/ s.pc \in {"window", "zero"}
      BY <1>1, <1>6, <2>1, <2>3, <2>4, <2>6
    <3>2. CASE r = p
      <4>1. s # Idle
        BY <1>1, <1>2, <1>6, <2>1, <3>2
      <4> QED
        BY <1>1, <2>1, <2>2, <2>6, <3>1, <3>2, <4>1
    <3>3. CASE r # p
      BY <1>1, <1>6, <2>1, <2>2, <3>1, <3>3
    <3> QED
      BY <3>2, <3>3
  <2> QED
    BY <2>5, <2>6
<1>7. ClearingOrder'
  BY <1>6 DEF ClearingOrder
<1> QED
  BY <1>1, <1>5, <1>7 DEF AddressWindows

(* Loading the entry of an address keeps what is counted of each window. *)
LEMMA AddressEntryKeeps ==
  ASSUME LimitTyped, LimitTyped', AddressWindows, gate # "apikey", NEW p \in Requests, AddressEntry(p)
  PROVE  AddressWindows'
<1>0. gate' = gate /\ Most' = Most
  BY DEF AddressEntry, Most
<1>1. LoadEntry(p, "window") /\ UNCHANGED <<gate, clock, raced>> /\ slot[p].pc = "idle"
  BY DEF AddressEntry
<1>2. /\ slot'[p].pc = "window" /\ slot'[p].now = clock /\ slot'[p].ent = current'
      /\ \A q \in Requests \ {p} : slot'[q] = slot[q]
  BY <1>1, LoadFacts DEF LimitTyped
<1>3. \A e : p \notin Bound(e)'
  BY <1>0, <1>2 DEF Bound, Unchecked
<1>4. \A q \in Requests : slot[q].pc # "idle" => slot[q].ent \in DOMAIN entry /\ q # p
  BY <1>1 DEF LimitTyped
<1>5. ASSUME NEW e \in DOMAIN entry' PROVE WindowOf(e)'
  <2>1. /\ Cardinality(Bound(e)') \in Nat /\ Cardinality(Bound(e)) \in Nat
        /\ Cardinality(Bound(e)') <= Cardinality(Bound(e)) /\ Cardinality(Requests) \in Nat
    BY <1>0, <1>2, <1>3, BoundChanges
  <2>2. CASE e \in DOMAIN entry
    <3>1. admitted'[e] = admitted[e] /\ entry'[e] = entry[e] /\ admitted[e] \in Nat
      BY <1>1, <2>2, LoadFacts DEF LimitTyped
    <3>2. WindowOf(e)
      BY <2>2 DEF AddressWindows
    <3>3. \A q \in Requests : Clearing(q, e) => Clearing(q, e)'
      BY <1>2, <1>4, <3>1 DEF Clearing
    <3>4. \A q \in Requests : slot'[q].ent = e /\ slot'[q].pc = "add" => slot[q].ent = e /\ slot[q].pc = "add"
      BY <1>2
    <3>5. Most \in Int
      BY <2>1, RateLimitsAssumption DEF Most
    <3>6. CASE entry[e].start = 0
      BY <1>0, <3>1, <3>2, <3>4, <3>6 DEF WindowOf
    <3>7. CASE entry[e].start # 0
      BY <1>0, <2>1, <3>1, <3>2, <3>3, <3>5, <3>7 DEF WindowOf
    <3> QED
      BY <3>6, <3>7
  <2>3. CASE e \notin DOMAIN entry
    <3>1. entry'[e] = Fresh /\ admitted'[e] = 0
      BY <1>1, <2>3, LoadFacts
    <3>2. \A q \in Requests : slot'[q].ent = e => slot'[q].pc # "add"
      BY <1>2, <1>4, <2>3
    <3> QED
      BY <1>0, <2>1, <3>1, <3>2, RateLimitsAssumption DEF Most, Fresh, WindowOf
  <2> QED
    BY <2>2, <2>3
<1>6. ASSUME NEW q \in Requests, NEW r \in Requests \ {q}, slot'[q].pc = "unset",
             slot'[r].ent = slot'[q].ent
      PROVE  /\ slot'[r].now >= slot'[q].now
             /\ Clearing(q, slot[q].ent)' => slot'[r].pc \in {"window", "zero"}
  <2>1. q # p /\ slot'[q] = slot[q]
    BY <1>2, <1>6
  <2>2. slot[q].ent \in DOMAIN entry
    BY <1>4, <1>6, <2>1
  <2>3. entry'[slot[q].ent] = entry[slot[q].ent]
    BY <1>1, <2>2, LoadFacts
  <2>4. Clearing(q, slot[q].ent)' => Clearing(q, slot[q].ent)
    BY <2>1, <2>3 DEF Clearing
  <2>5. CASE r = p
    BY <1>2, <2>1, <2>5 DEF LimitTyped
  <2>6. CASE r # p
    <3>1. slot'[r] = slot[r]
      BY <1>2, <2>6
    <3> QED
      BY <1>6, <2>1, <2>4, <3>1 DEF AddressWindows, ClearingOrder
  <2> QED
    BY <2>5, <2>6
<1>7. ClearingOrder'
  BY <1>6 DEF ClearingOrder
<1> QED
  BY <1>5, <1>7 DEF AddressWindows

(* The other steps of an address's request keep it, while no clearing      *)
(* comes under another request.                                            *)
LEMMA AddressWindowsKept ==
  ASSUME LimitTyped, LimitTyped', AddressWindows, gate # "apikey", ~raced', NEW p \in Requests,
         slot[p].pc # "idle",
         \/ AddressWindow(p) \/ ZeroCount(p) \/ UnsetStart(p) \/ BeginAddress(p) \/ CountAddress(p)
         \/ Served(p)
  PROVE  AddressWindows'
<1>0. gate' = gate /\ Most' = Most
  BY DEF AddressWindow, ZeroCount, UnsetStart, BeginAddress, CountAddress, Served, Most
<1>1. PICK f : f = slot[p].ent
  OBVIOUS
<1> DEFINE c == Of(p)
           a == admitted[f]
           n == slot[p].seen
           m == Cardinality(Bound(f)')
           k == Cardinality(Bound(f))
<1>2. /\ n \in Nat /\ slot[p].now \in Nat /\ c.count \in Nat /\ c.start \in Nat /\ a \in Nat
      /\ slot[p].now > 0 /\ f \in DOMAIN entry /\ c = entry[f] /\ clock \in Nat /\ slot[p].now <= clock
  BY <1>1, TypedFacts, RateLimitsAssumption DEF LimitTyped, Of
<1>3. WindowOf(f) /\ ClearingOrder
  BY <1>2 DEF AddressWindows
<1>4. \A pc \in Pcs, x \in Nat :
        SlotAt(p, pc, x).ent = f /\ SlotAt(p, pc, x).pc = pc /\ SlotAt(p, pc, x).now = slot[p].now /\ SlotAt(p, pc, x).seen = x
  BY <1>1, AtFacts
<1>5. \A i, j : EntryRecord(i, j).count = i /\ EntryRecord(i, j).start = j
  BY SlotFacts
<1>6. p \in Bound(f) <=> slot[p].pc \in {"begin", "serve", "add"}
  BY <1>1 DEF Bound, Unchecked
<1>7. p \in Bound(f)' <=> slot'[p].ent = f /\ slot'[p].pc \in {"begin", "serve", "add"}
  BY <1>0 DEF Bound, Unchecked
<1>8. Idle.pc = "idle" /\ Idle.ent = NoEntry /\ f # NoEntry
  BY <1>2, RateLimitsAssumption DEF Idle, LimitTyped, NoEntry
<1>9. \A s, d, b : StepTo(p, s, d, b) =>
        /\ slot'[p] = s /\ entry'[f] = d /\ admitted'[f] = b
        /\ \A q \in Requests \ {p} : slot'[q] = slot[q]
        /\ k \in Nat /\ m \in Nat /\ m <= Cardinality(Requests)
        /\ Cardinality(Requests) \in Nat
        /\ p \notin Bound(f)' => m <= k /\ m + 1 <= Cardinality(Requests)
        /\ p \in Bound(f) /\ p \notin Bound(f)' => m + 1 = k
        /\ p \in Bound(f) => m <= k
  BY <1>0, <1>1, StepFacts, BoundChanges
<1>10. RateLimit \in Nat \ {0} /\ Window \in Nat \ {0} /\ Most = RateLimit - 1 + Cardinality(Requests)
  BY RateLimitsAssumption DEF Most
<1>11. /\ "begin" \in Pcs /\ "add" \in Pcs /\ "zero" \in Pcs /\ "unset" \in Pcs /\ "serve" \in Pcs
       /\ Onward \in {"serve", "begin"}
  BY DEF Pcs, Onward
<1>12. \A s, d, b :
         /\ StepTo(p, s, d, b)
         /\ s = Idle \/ (s.ent = f /\ s.now = slot[p].now)
         /\ s.pc # "unset"
         /\ \A q \in Requests \ {p} : slot[q].pc = "unset" /\ slot[q].ent = f /\ slot[q].seen = d.start
              => d.start = entry[f].start /\ (s = Idle \/ s.pc \in {"window", "zero"})
         /\ WindowOf(f)'
         => AddressWindows'
  BY <1>1, AddressWindowsAt
<1>13. \A q \in Requests \ {p} : slot[q].pc = "unset" /\ slot[q].ent = f =>
         /\ slot[p].now >= slot[q].now /\ slot[q].now >= slot[q].seen + Window /\ slot[q].seen > 0
         /\ slot[q].seen \in Nat /\ slot[q].now \in Nat
  BY <1>1, <1>3, TypedFacts DEF ClearingOrder, LimitTyped
<1>14. \A q \in Requests \ {p} : Clearing(q, f) =>
         slot[p].now >= c.start + Window /\ c.start > 0 /\ slot[p].pc \in {"window", "zero"}
  BY <1>1, <1>2, <1>3, ClearedIsOver
<1>15. \A q \in Requests \ {p} : slot[q].pc = "unset" /\ slot[q].ent = f /\ slot[q].seen = c.start
         => Clearing(q, f)
  BY <1>2 DEF Clearing
<1>16. /\ c.start = 0 => /\ a <= Most
                         /\ \A q \in Requests : slot[q].ent = f => slot[q].pc # "add"
       /\ c.start # 0 => /\ a + k <= Most
                         /\ a <= c.count \/ \E q \in Requests : Clearing(q, f)
  BY <1>2, <1>3 DEF WindowOf
(* What is to be shown of the entry after the step. *)
<1>17. \A s, d, b :
         /\ StepTo(p, s, d, b)
         /\ d.start = 0 => /\ b <= Most
                           /\ s.ent = f => s.pc # "add"
                           /\ \A q \in Requests \ {p} : slot[q].ent = f => slot[q].pc # "add"
         /\ d.start # 0 => /\ b + m <= Most
                           /\ \/ b <= d.count
                              \/ \E q \in Requests \ {p} : Clearing(q, f) /\ d.start = c.start
         => WindowOf(f)'
  <2> SUFFICES ASSUME NEW s, NEW d, NEW b, StepTo(p, s, d, b),
                      d.start = 0 => /\ b <= Most
                                     /\ s.ent = f => s.pc # "add"
                                     /\ \A q \in Requests \ {p} : slot[q].ent = f => slot[q].pc # "add",
                      d.start # 0 => /\ b + m <= Most
                                     /\ \/ b <= d.count
                                        \/ \E q \in Requests \ {p} : Clearing(q, f) /\ d.start = c.start
               PROVE  WindowOf(f)'
    OBVIOUS
  <2>1. /\ slot'[p] = s /\ entry'[f] = d /\ admitted'[f] = b
        /\ \A q \in Requests \ {p} : slot'[q] = slot[q]
    BY <1>9
  <2>2. \A q \in Requests \ {p} : Clearing(q, f) /\ d.start = c.start => Clearing(q, f)'
    BY <1>2, <2>1 DEF Clearing
  <2>3. CASE d.start = 0
    BY <1>0, <2>1, <2>3 DEF WindowOf
  <2>4. CASE d.start # 0
    BY <1>0, <2>1, <2>2, <2>4 DEF WindowOf
  <2> QED
    BY <2>3, <2>4
<1> HIDE DEF c, a, n, m, k
<1>18. CASE AddressWindow(p)
  <2>0. slot[p].pc = "window"
    BY <1>18 DEF AddressWindow
  <2>1. p \notin Bound(f) /\ ~Clearing(p, f)
    BY <1>6, <2>0 DEF Clearing
  <2>2. \/ StepTo(p, Idle, c, a)
        \/ /\ c.start = 0 \/ (c.count < RateLimit /\ slot[p].now < c.start + Window)
           /\ StepTo(p, SlotAt(p, Onward, c.start), c, a)
        \/ /\ c.start # 0 /\ slot[p].now >= c.start + Window
           /\ StepTo(p, SlotAt(p, "zero", c.start), c, a)
    BY <1>1, <1>18, RequestSteps DEF c, a
  <2>3. CASE StepTo(p, Idle, c, a)
    <3>1. m <= k /\ k \in Nat /\ m \in Nat
      BY <1>7, <1>8, <1>9, <2>3
    <3>2. WindowOf(f)'
      BY <1>2, <1>8, <1>10, <1>16, <1>17, <2>1, <2>3, <3>1, <1>9
    <3> QED
      BY <1>2, <1>8, <1>12, <2>3, <3>2
  <2>4. CASE /\ c.start # 0 /\ slot[p].now >= c.start + Window
             /\ StepTo(p, SlotAt(p, "zero", c.start), c, a)
    <3>1. m <= k /\ k \in Nat /\ m \in Nat
      BY <1>2, <1>4, <1>7, <1>9, <1>11, <2>4
    <3>2. WindowOf(f)'
      BY <1>2, <1>4, <1>10, <1>11, <1>16, <1>17, <2>1, <2>4, <3>1, <1>9
    <3> QED
      BY <1>2, <1>4, <1>11, <1>12, <2>4, <3>2
  <2>5. CASE /\ c.start = 0 \/ (c.count < RateLimit /\ slot[p].now < c.start + Window)
             /\ StepTo(p, SlotAt(p, Onward, c.start), c, a)
    <3>1. \A q \in Requests : ~Clearing(q, f)
      BY <1>2, <1>10, <1>14, <2>1, <2>5
    <3>2. Onward \in Pcs /\ Onward # "add" /\ Onward # "unset"
      BY <1>11
    <3>3. m \in Nat /\ m <= Cardinality(Requests) /\ Cardinality(Requests) \in Nat
      BY <1>9, <2>5
    <3>4. WindowOf(f)'
      BY <1>2, <1>4, <1>10, <1>16, <1>17, <2>5, <3>1, <3>2, <3>3
    <3> QED
      BY <1>2, <1>4, <1>12, <1>15, <2>5, <3>1, <3>2, <3>4
  <2> QED
    BY <2>2, <2>3, <2>4, <2>5
<1>19. CASE ZeroCount(p)
  <2>0. slot[p].pc = "zero" /\ c.start \in {0, n} /\ \A q \in Requests \ {p} : slot[q].ent # f
    BY <1>1, <1>19 DEF ZeroCount, Superseded, LimitTyped, c, n
  <2>1. StepTo(p, SlotAt(p, "unset", n), EntryRecord(0, c.start), a)
    BY <1>1, <1>19, RequestSteps DEF c, a, n
  <2>2. /\ slot'[p] = SlotAt(p, "unset", n) /\ entry'[f] = EntryRecord(0, c.start) /\ admitted'[f] = a
        /\ \A q \in Requests \ {p} : slot'[q] = slot[q]
    BY <1>9, <2>1
  <2>3. m <= k /\ k \in Nat /\ m \in Nat
    BY <1>2, <1>4, <1>7, <1>9, <1>11, <2>1
  <2>4. WindowOf(f)'
    <3>1. CASE c.start = 0
      BY <1>0, <1>2, <1>4, <1>5, <1>11, <1>16, <2>0, <2>2, <3>1 DEF WindowOf
    <3>2. CASE c.start # 0
      <4>1. Clearing(p, f)'
        BY <1>2, <1>4, <1>5, <1>11, <2>0, <2>2, <3>2 DEF Clearing
      <4> QED
        BY <1>0, <1>2, <1>5, <1>9, <1>10, <1>16, <2>1, <2>2, <2>3, <3>2, <4>1 DEF WindowOf, m
    <3> QED
      BY <3>1, <3>2
  <2>5. DOMAIN entry' = DOMAIN entry /\ slot'[p].ent = f
    BY <1>1, <1>2, <1>4, <1>11, <2>1, <2>2, StepFacts
  <2>6. ASSUME NEW e \in DOMAIN entry PROVE WindowOf(e)'
    <3>1. CASE e = f
      BY <2>4, <3>1
    <3>2. CASE e # f
      <4>1. entry'[e] = entry[e] /\ admitted'[e] = admitted[e] /\ Bound(e)' = Bound(e)
        BY <1>1, <1>2, <1>4, <1>11, <2>1, <3>2, OtherEntries
      <4>2. WindowOf(e)
        BY DEF AddressWindows
      <4>3. \A q \in Requests : slot'[q].ent = e \/ slot[q].ent = e => slot'[q] = slot[q]
        BY <1>1, <2>2, <2>5, <3>2
      <4>4. \A q \in Requests : Clearing(q, e) => Clearing(q, e)'
        BY <4>1, <4>3 DEF Clearing
      <4> QED
        BY <1>0, <4>1, <4>2, <4>3, <4>4 DEF WindowOf
    <3> QED
      BY <3>1, <3>2
  <2>7. ClearingOrder'
    <3> SUFFICES ASSUME NEW q \in Requests, NEW r \in Requests \ {q}, slot'[q].pc = "unset",
                        slot'[r].ent = slot'[q].ent
                 PROVE  /\ slot'[r].now >= slot'[q].now
                        /\ Clearing(q, slot[q].ent)' => slot'[r].pc \in {"window", "zero"}
      BY DEF ClearingOrder
    <3>1. q # p /\ r # p
      BY <2>0, <2>2, <2>5
    <3>2. slot'[q] = slot[q] /\ slot'[r] = slot[r] /\ slot[q].ent # f
      BY <2>0, <2>2, <3>1
    <3>3. slot[q].ent \in DOMAIN entry
      BY <3>2 DEF LimitTyped
    <3>4. entry'[slot[q].ent] = entry[slot[q].ent]
      BY <1>1, <2>1, <3>2, <3>3, StepFacts
    <3>5. Clearing(q, slot[q].ent)' => Clearing(q, slot[q].ent)
      BY <3>2, <3>4 DEF Clearing
    <3> QED
      BY <1>3, <3>2, <3>5 DEF ClearingOrder
  <2> QED
    BY <2>5, <2>6, <2>7 DEF AddressWindows
<1>20. CASE UnsetStart(p)
  <2>0. slot[p].pc = "unset" /\ c.start \in {0, n} /\ n > 0
    BY <1>1, <1>20 DEF UnsetStart, Superseded, LimitTyped, c, n
  <2>1. StepTo(p, SlotAt(p, Onward, n), EntryRecord(c.count, 0), a)
    BY <1>1, <1>20, RequestSteps DEF c, a, n
  <2>2. Onward \in Pcs /\ Onward # "add" /\ Onward # "unset"
    BY <1>11
  <2>3. ASSUME NEW q \in Requests \ {p}, slot[q].ent = f PROVE slot[q].pc # "add"
    <3>1. CASE c.start = 0
      BY <1>16, <2>3, <3>1
    <3>2. CASE c.start # 0
      <4>1. Clearing(p, f)
        BY <1>1, <1>2, <2>0, <3>2 DEF Clearing, n
      <4> QED
        BY <1>1, <1>3, <2>0, <2>3, <4>1 DEF ClearingOrder
    <3> QED
      BY <3>1, <3>2
  <2>4. k \in Nat /\ Most \in Int
    BY <1>9, <1>10, <2>1
  <2>5. a <= Most
    BY <1>2, <1>16, <2>4
  <2>6. WindowOf(f)'
    BY <1>4, <1>5, <1>17, <1>2, <2>1, <2>2, <2>3, <2>5
  <2> QED
    BY <1>2, <1>4, <1>5, <1>12, <1>13, <2>1, <2>2, <2>6
<1>21. CASE BeginAddress(p)
  <2>0. slot[p].pc = "begin"
    BY <1>21 DEF BeginAddress
  <2>1. \/ c.start = 0 /\ StepTo(p, SlotAt(p, "add", n), EntryRecord(c.count, slot[p].now), 0)
        \/ c.start # 0 /\ StepTo(p, SlotAt(p, "add", n), c, a)
    BY <1>1, <1>21, RequestSteps DEF c, a, n
  <2>2. CASE c.start = 0 /\ StepTo(p, SlotAt(p, "add", n), EntryRecord(c.count, slot[p].now), 0)
    <3>1. WindowOf(f)'
      BY <1>2, <1>5, <1>9, <1>10, <1>17, <2>2
    <3>2. \A q \in Requests \ {p} : slot[q].pc = "unset" /\ slot[q].ent = f => slot[q].seen # slot[p].now
      BY <1>2, <1>10, <1>13
    <3> QED
      BY <1>2, <1>4, <1>5, <1>11, <1>12, <2>2, <3>1, <3>2
  <2>3. CASE c.start # 0 /\ StepTo(p, SlotAt(p, "add", n), c, a)
    <3>1. \A q \in Requests \ {p} : ~Clearing(q, f)
      BY <1>14, <2>0
    <3>2. ~Clearing(p, f)
      BY <2>0 DEF Clearing
    <3>3. m <= k /\ k \in Nat /\ m \in Nat /\ Most \in Int
      BY <1>6, <1>9, <1>10, <2>0, <2>3
    <3>4. WindowOf(f)'
      BY <1>2, <1>16, <1>17, <2>3, <3>1, <3>2, <3>3
    <3> QED
      BY <1>2, <1>4, <1>11, <1>12, <1>15, <2>3, <3>1, <3>4
  <2> QED
    BY <2>1, <2>2, <2>3
<1>22. CASE CountAddress(p)
  <2>0. slot[p].pc = "add"
    BY <1>22 DEF CountAddress
  <2>1. StepTo(p, Idle, EntryRecord(c.count + 1, c.start), a + 1)
    BY <1>1, <1>22, RequestSteps DEF c, a, n
  <2>2. \A q \in Requests : ~Clearing(q, f)
    BY <1>14, <2>0 DEF Clearing
  <2>3. c.start # 0
    BY <1>1, <1>16, <2>0
  <2>4. m + 1 = k /\ m \in Nat
    BY <1>6, <1>7, <1>8, <1>9, <2>0, <2>1
  <2>5. WindowOf(f)'
    BY <1>2, <1>5, <1>10, <1>16, <1>17, <2>1, <2>2, <2>3, <2>4, <1>9
  <2> QED
    BY <1>2, <1>5, <1>8, <1>12, <2>1, <2>2, <1>15, <2>5
<1>23. CASE Served(p)
  <2>0. slot[p].pc = "serve"
    BY <1>23 DEF Served
  <2>1. \/ StepTo(p, Idle, c, a)
        \/ StepTo(p, SlotAt(p, "begin", n), c, a)
    BY <1>1, <1>23, RequestSteps DEF c, a, n
  <2>2. \A q \in Requests : ~Clearing(q, f)
    BY <1>14, <2>0 DEF Clearing
  <2>3. m <= k /\ k \in Nat /\ m \in Nat /\ Cardinality(Requests) \in Nat /\ Most \in Int
    BY <1>6, <1>9, <1>10, <2>0, <2>1
  <2>4. PICK s : StepTo(p, s, c, a) /\ (s = Idle \/ s = SlotAt(p, "begin", n))
    BY <2>1
  <2>5. WindowOf(f)'
    BY <1>2, <1>4, <1>8, <1>11, <1>16, <1>17, <2>2, <2>3, <2>4
  <2> QED
    BY <1>2, <1>4, <1>8, <1>11, <1>12, <1>15, <2>2, <2>4, <2>5
<1> QED
  BY <1>18, <1>19, <1>20, <1>21, <1>22, <1>23

(* The invariant holds at the start. *)
LEMMA LimitStarts ==
  LimitInit => LimitIInv
<1> SUFFICES ASSUME LimitInit PROVE LimitIInv
  OBVIOUS
<1>1. DOMAIN entry = {} /\ entry \in [{} -> EntryRecords] /\ admitted \in [{} -> Nat]
  BY DEF LimitInit
<1>2. /\ \A p \in Requests : slot[p] = Idle
      /\ slot \in [Requests -> Slots]
  BY SlotFacts DEF LimitInit
<1>3. Idle.pc = "idle" /\ Idle.now = 0 /\ Idle.seen = 0 /\ Idle.ent = NoEntry
  BY DEF Idle
<1>4. LimitTyped
  <2>1. clock = 1 /\ clock \in 1..MaxClock
    BY RateLimitsAssumption DEF LimitInit
  <2>2. \A p \in Requests : /\ slot[p].pc = "idle" /\ slot[p].now <= clock /\ slot[p].seen <= clock
                            /\ slot[p].ent = NoEntry
    BY <1>2, <1>3, <2>1
  <2>3. /\ gate \in {"apikey", "global", "admin"} /\ current \in DOMAIN entry \cup {NoEntry}
        /\ raced \in BOOLEAN
    BY DEF LimitInit
  <2> QED
    BY <1>1, <1>2, <2>1, <2>2, <2>3 DEF LimitTyped
<1>5. KeyWindows /\ AddressWindows /\ CountsAdmitted
  BY <1>1, <1>2, <1>3 DEF KeyWindows, AddressWindows, ClearingOrder, CountsAdmitted
<1> QED
  BY <1>4, <1>5 DEF LimitIInv

(* A step that leaves the slots and the entries alone. *)
LEMMA WindowsStay ==
  ASSUME UNCHANGED <<gate, slot, entry, admitted>>
  PROVE  /\ KeyWindows => KeyWindows'
         /\ AddressWindows => AddressWindows'
         /\ CountsAdmitted => CountsAdmitted'
<1>1. \A e : Bound(e)' = Bound(e)
  BY DEF Bound, Unchecked
<1>2. \A p, e : Clearing(p, e)' <=> Clearing(p, e)
  BY DEF Clearing
<1>3. Most' = Most
  BY DEF Most
<1>4. KeyWindows => KeyWindows'
  BY <1>1, <1>3 DEF KeyWindows
<1>5. \A e : WindowOf(e) => WindowOf(e)'
  BY <1>1, <1>2, <1>3 DEF WindowOf
<1>6. ClearingOrder => ClearingOrder'
  BY <1>2 DEF ClearingOrder
<1>7. CountsAdmitted => CountsAdmitted'
  BY DEF CountsAdmitted, Resetting
<1> QED
  BY <1>4, <1>5, <1>6, <1>7 DEF AddressWindows

(* Every step keeps the invariant. *)
LEMMA LimitInductive ==
  ASSUME LimitIInv, [LimitNext]_limitVars
  PROVE  LimitIInv'
<1>1. CASE UNCHANGED limitVars
  <2>1. UNCHANGED <<gate, clock, slot, current, entry, admitted, raced>>
    BY <1>1 DEF limitVars, entryVars
  <2>2. LimitTyped'
    BY <2>1 DEF LimitIInv, LimitTyped
  <2> QED
    BY <2>1, <2>2, WindowsStay DEF LimitIInv
<1>2. CASE LimitNext
  <2>1. LimitTyped /\ LimitTyped'
    BY <1>2, LimitTypedKept DEF LimitIInv
  <2>2. CASE Tick \/ Cleanup
    <3>1. UNCHANGED <<gate, slot, entry, admitted, raced>>
      BY <2>2 DEF Tick, Cleanup, entryVars
    <3> QED
      BY <2>1, <3>1, WindowsStay DEF LimitIInv
  <2>3. CASE LimitRestart
    <3>1. DOMAIN entry' = {} /\ \A p \in Requests : slot'[p] = Idle
      BY <2>3 DEF LimitRestart
    <3>2. KeyWindows' /\ AddressWindows' /\ CountsAdmitted'
      BY <3>1 DEF KeyWindows, AddressWindows, ClearingOrder, CountsAdmitted, Idle
    <3> QED
      BY <2>1, <3>2 DEF LimitIInv
  <2>4. ASSUME NEW p \in Requests, KeyStep(p) \/ AddressStep(p) \/ Served(p) PROVE LimitIInv'
    <3>1. gate' = gate
      BY <2>4 DEF KeyStep, KeyEntry, KeyWindow, BeginWindow, ResetCount, CountFirst, CountKey,
         AddressStep, AddressEntry, AddressWindow, ZeroCount, UnsetStart, BeginAddress, CountAddress, Served
    <3>2. ~raced' => ~raced
      BY <2>1, <2>4 DEF LimitTyped, LetIn, entryVars, KeyStep, KeyEntry, KeyWindow, BeginWindow, ResetCount,
         CountFirst, CountKey, AddressStep, AddressEntry, AddressWindow, ZeroCount, UnsetStart, BeginAddress,
         CountAddress, Served
    <3>3. slot[p].pc # "idle" => slot[p].pc \in IF gate = "apikey" THEN KeyPcs ELSE AddressPcs
      BY <2>1 DEF LimitTyped
    <3>4. CASE gate = "apikey"
      <4>1. KeyStep(p) \/ Served(p)
        <5>1. ~ZeroCount(p) /\ ~UnsetStart(p) /\ ~BeginAddress(p)
          BY <3>3, <3>4 DEF ZeroCount, UnsetStart, BeginAddress, KeyPcs
        <5> QED
          BY <2>4, <3>4, <5>1 DEF AddressStep, AddressEntry, AddressWindow, CountAddress
      <4>2. CountsAdmitted'
        BY <2>1, <3>4, <4>1, CountsAdmittedKept DEF LimitIInv
      <4>3. ~raced' => KeyWindows'
        BY <2>1, <3>2, <3>4, <4>1, KeyWindowsKept DEF LimitIInv
      <4> QED
        BY <2>1, <3>1, <3>4, <4>2, <4>3 DEF LimitIInv
    <3>5. CASE gate # "apikey"
      <4>1. AddressStep(p) \/ Served(p)
        <5>1. ~BeginWindow(p) /\ ~ResetCount(p) /\ ~CountFirst(p)
          BY <3>3, <3>5 DEF BeginWindow, ResetCount, CountFirst, AddressPcs
        <5> QED
          BY <2>4, <3>5, <5>1 DEF KeyStep, KeyEntry, KeyWindow, CountKey
      <4>2. CASE AddressEntry(p)
        BY <2>1, <3>1, <3>2, <3>5, <4>2, AddressEntryKeeps DEF LimitIInv
      <4>3. CASE ~AddressEntry(p)
        <5>1. slot[p].pc # "idle"
          BY <4>1, <4>3 DEF AddressStep, AddressWindow, ZeroCount, UnsetStart, BeginAddress, CountAddress,
             Served
        <5>2. ~raced' => AddressWindows'
          BY <2>1, <3>2, <3>5, <4>1, <4>3, <5>1, AddressWindowsKept DEF LimitIInv, AddressStep
        <5> QED
          BY <2>1, <3>1, <3>5, <5>2 DEF LimitIInv
      <4> QED
        BY <4>2, <4>3
    <3> QED
      BY <3>4, <3>5
  <2> QED
    BY <1>2, <2>2, <2>3, <2>4 DEF LimitNext
<1> QED
  BY <1>1, <1>2

(* The invariant implies the types and the limit of a window. *)
LEMMA LimitIInvImplied ==
  ASSUME LimitIInv
  PROVE  LimitTypeOK /\ WindowHolds
<1>1. LimitTypeOK
  <2>1. clock \in Nat
    BY RateLimitsAssumption DEF LimitIInv, LimitTyped
  <2>2. ASSUME NEW p \in Requests
        PROVE  /\ slot[p].pc \in {"idle", "window", "cas", "reset", "first", "add",
                                  "zero", "unset", "begin", "serve"}
               /\ slot[p].now \in 0..clock
               /\ slot[p].ent \in Entries \cup {NoEntry}
               /\ slot[p].seen \in 0..clock
    <3>1. slot[p].now \in Nat /\ slot[p].seen \in Nat /\ slot[p].pc \in Pcs
      BY SlotFacts DEF LimitIInv, LimitTyped
    <3>2. slot[p].now <= clock /\ slot[p].seen <= clock
      BY DEF LimitIInv, LimitTyped
    <3>3. slot[p].ent \in Entries \cup {NoEntry}
      BY DEF LimitIInv, LimitTyped
    <3> QED
      BY <2>1, <3>1, <3>2, <3>3 DEF Pcs
  <2>3. ASSUME NEW e \in DOMAIN entry PROVE entry[e].count \in Nat /\ entry[e].start \in 0..clock
    BY <2>1, SlotFacts DEF LimitIInv, LimitTyped
  <2> QED
    BY <2>2, <2>3 DEF LimitIInv, LimitTyped, LimitTypeOK
<1>2. ASSUME ~raced, NEW e \in DOMAIN entry
      PROVE  admitted[e] <= RateLimit - 1 + Cardinality(Requests)
  <2>1. Bound(e) \in SUBSET Requests
    BY DEF Bound
  <2>2. Cardinality(Bound(e)) \in Nat /\ Cardinality(Requests) \in Nat
    BY <2>1, RateLimitsAssumption, FS_Subset, FS_CardinalityType
  <2>3. Most \in Int /\ admitted[e] \in Nat
    BY <2>2, RateLimitsAssumption DEF Most, LimitIInv, LimitTyped
  <2>4. admitted[e] <= Most \/ admitted[e] + Cardinality(Bound(e)) <= Most
    BY <1>2 DEF LimitIInv, KeyWindows, AddressWindows, WindowOf
  <2> QED
    BY <2>2, <2>3, <2>4 DEF Most
<1> QED
  BY <1>1, <1>2 DEF WindowHolds

(* A key's request that is refused is refused by a limit used up, or by a  *)
(* count that another request is about to clear (the step NoEarlyRefusal   *)
(* is about).                                                              *)
LEMMA RefusedInTime ==
  ASSUME LimitIInv, [LimitNext]_limitVars, NEW p \in Requests,
         slot[p].pc = "add", slot'[p].pc = "idle", gate = "apikey", entry' # << >>
  PROVE  \/ admitted[slot[p].ent] >= RateLimit
         \/ \E q \in Requests : slot[q].pc = "reset" /\ slot[q].ent = slot[p].ent
<1>0. LimitTyped /\ CountsAdmitted
  BY DEF LimitIInv
<1>1. /\ slot[p].ent \in DOMAIN entry /\ Of(p).count \in Nat /\ admitted[slot[p].ent] \in Nat
      /\ slot \in [Requests -> Slots]
  BY <1>0, TypedFacts DEF LimitTyped
<1>2. PICK q \in Requests : KeyStep(q) \/ AddressStep(q) \/ Served(q)
  <2>1. slot' # slot
    OBVIOUS
  <2> QED
    BY <2>1 DEF LimitNext, limitVars, Tick, Cleanup, LimitRestart
<1>3. q = p
  <2>1. CASE KeyEntry(q) \/ AddressEntry(q)
    <3>1. \A r \in Requests \ {q} : slot'[r] = slot[r]
      BY <1>0, <1>1, <2>1, LoadFacts DEF KeyEntry, AddressEntry
    <3> QED
      BY <3>1
  <2>2. CASE ~(KeyEntry(q) \/ AddressEntry(q))
    <3>1. slot[q].pc # "idle"
      BY <1>2, <2>2 DEF KeyStep, KeyWindow, BeginWindow, ResetCount, CountFirst, CountKey,
         AddressStep, AddressWindow, ZeroCount, UnsetStart, BeginAddress, CountAddress, Served
    <3>2. PICK s, c, a : StepTo(q, s, c, a)
      BY <1>0, <1>2, <2>2, <3>1, RequestSteps DEF KeyStep, AddressStep
    <3> QED
      BY <1>0, <3>1, <3>2, StepFacts
  <2> QED
    BY <2>1, <2>2
<1>4. CountKey(p)
  BY <1>2, <1>3 DEF KeyStep, KeyEntry, KeyWindow, BeginWindow, ResetCount, CountFirst,
     AddressStep, AddressEntry, AddressWindow, ZeroCount, UnsetStart, BeginAddress, CountAddress, Served
<1>5. Of(p).count + 1 > RateLimit
  <2>1. \/ Of(p).count + 1 > RateLimit
        \/ StepTo(p, SlotAt(p, "serve", slot[p].seen), EntryRecord(Of(p).count + 1, Of(p).start), admitted[slot[p].ent] + 1)
    BY <1>0, <1>4, RequestSteps
  <2>2. SlotAt(p, "serve", slot[p].seen).pc = "serve"
    BY DEF SlotAt
  <2>3. CASE StepTo(p, SlotAt(p, "serve", slot[p].seen), EntryRecord(Of(p).count + 1, Of(p).start), admitted[slot[p].ent] + 1)
    BY <1>0, <2>2, <2>3, StepFacts
  <2> QED
    BY <2>1, <2>3
<1> QED
  BY <1>0, <1>1, <1>5, RateLimitsAssumption DEF CountsAdmitted, Resetting, Of

-----------------------------------------------------------------------------
(* The usage buffer. *)

(* Two sequences one behind the other, in order. *)
Sorted(s) == \A i, j \in DOMAIN s : i < j => s[i] < s[j]
Below(s, t) == \A i \in DOMAIN s, j \in DOMAIN t : s[i] < t[j]

(* What a concatenation is made of. *)
LEMMA ConcatFacts ==
  ASSUME NEW s \in Seq(Nat), NEW t \in Seq(Nat)
  PROVE  /\ s \o t \in Seq(Nat)
         /\ Len(s \o t) = Len(s) + Len(t)
         /\ DOMAIN (s \o t) = 1..(Len(s) + Len(t))
         /\ \A i \in DOMAIN s : (s \o t)[i] = s[i]
         /\ \A j \in DOMAIN t : (s \o t)[Len(s) + j] = t[j]
         /\ \A k \in DOMAIN (s \o t) : \/ k \in DOMAIN s
                                       \/ k > Len(s) /\ k - Len(s) \in DOMAIN t
         /\ DOMAIN s = 1..Len(s) /\ DOMAIN t = 1..Len(t) /\ Len(s) \in Nat /\ Len(t) \in Nat
BY ConcatProperties, LenProperties

(* A concatenation is in order when its parts are, one behind the other. *)
LEMMA SortedConcat ==
  ASSUME NEW s \in Seq(Nat), NEW t \in Seq(Nat)
  PROVE  Sorted(s \o t) <=> Sorted(s) /\ Sorted(t) /\ Below(s, t)
<1> DEFINE n == Len(s)
           c == s \o t
<1>0. /\ n \in Nat /\ Len(t) \in Nat
      /\ DOMAIN s = 1..n /\ DOMAIN t = 1..Len(t) /\ DOMAIN c = 1..(n + Len(t))
      /\ \A i \in 1..n : c[i] = s[i]
      /\ \A j \in 1..Len(t) : c[n + j] = t[j]
  BY ConcatFacts
<1> HIDE DEF n, c
<1>1. ASSUME Sorted(c) PROVE Sorted(s) /\ Sorted(t) /\ Below(s, t)
  <2>1. Sorted(s)
    BY <1>0, <1>1 DEF Sorted
  <2>2. Sorted(t)
    <3> SUFFICES ASSUME NEW i \in 1..Len(t), NEW j \in 1..Len(t), i < j
                 PROVE  t[i] < t[j]
      BY <1>0 DEF Sorted
    <3>1. n + i \in DOMAIN c /\ n + j \in DOMAIN c /\ n + i < n + j
      BY <1>0
    <3> QED
      BY <3>1, <1>0, <1>1 DEF Sorted
  <2>3. Below(s, t)
    <3> SUFFICES ASSUME NEW i \in 1..n, NEW j \in 1..Len(t)
                 PROVE  s[i] < t[j]
      BY <1>0 DEF Below
    <3>1. i \in DOMAIN c /\ n + j \in DOMAIN c /\ i < n + j
      BY <1>0
    <3> QED
      BY <3>1, <1>0, <1>1 DEF Sorted
  <2> QED
    BY <2>1, <2>2, <2>3
<1>2. ASSUME Sorted(s), Sorted(t), Below(s, t) PROVE Sorted(c)
  <2> SUFFICES ASSUME NEW i \in DOMAIN c, NEW j \in DOMAIN c, i < j
               PROVE  c[i] < c[j]
    BY DEF Sorted
  <2>1. CASE j \in 1..n
    BY <2>1, <1>0, <1>2 DEF Sorted
  <2>2. CASE i \in 1..n /\ j \notin 1..n
    <3>1. j - n \in 1..Len(t) /\ c[j] = t[j - n]
      <4>1. j - n \in 1..Len(t) /\ n + (j - n) = j
        BY <2>2, <1>0
      <4> QED
        BY <4>1, <1>0
    <3> QED
      BY <3>1, <2>2, <1>0, <1>2 DEF Below
  <2>3. CASE i \notin 1..n /\ j \notin 1..n
    <3>1. j - n \in 1..Len(t) /\ i - n \in 1..Len(t) /\ n + (j - n) = j /\ n + (i - n) = i
      BY <2>3, <1>0
    <3>2. c[j] = t[j - n] /\ c[i] = t[i - n] /\ i - n < j - n
      BY <3>1, <1>0
    <3> QED
      BY <3>1, <3>2, <1>0, <1>2 DEF Sorted
  <2> QED
    BY <2>1, <2>2, <2>3, <1>0
<1> QED
  BY <1>1, <1>2 DEF c

(* n is what is left of s when its first d elements are dropped. *)
TailOf(n, s, d) ==
  /\ d \in 0..Len(s)
  /\ n \in Seq(Nat)
  /\ Len(n) = Len(s) - d
  /\ DOMAIN n = 1..(Len(s) - d)
  /\ \A i \in 1..(Len(s) - d) : n[i] = s[d + i]

(* What Newest keeps is the tail of the sequence that fits. *)
LEMMA NewestFacts ==
  ASSUME NEW s \in Seq(Nat)
  PROVE  \E d \in 0..Len(s) : /\ TailOf(Newest(s), s, d)
                              /\ d > 0 => Len(Newest(s)) = MaxUsageBuffer
<1>0. MaxUsageBuffer \in Nat \ {0} /\ Len(s) \in Nat /\ s \in [1..Len(s) -> Nat]
  BY UsageBufferAssumption, LenProperties
<1>1. CASE Len(s) > MaxUsageBuffer
  <2> DEFINE d == Len(s) - MaxUsageBuffer
  <2>1. d \in 0..Len(s) /\ d + 1 \in Int /\ Newest(s) = SubSeq(s, d + 1, Len(s))
    BY <1>0, <1>1 DEF Newest
  <2>2. \A i \in (d + 1)..Len(s) : s[i] \in Nat
    BY <1>0, <2>1
  <2>3. /\ Newest(s) \in Seq(Nat)
        /\ Len(Newest(s)) = IF d + 1 <= Len(s) THEN Len(s) - (d + 1) + 1 ELSE 0
        /\ \A i \in 1..(Len(s) - (d + 1) + 1) : Newest(s)[i] = s[(d + 1) + i - 1]
    BY <2>1, <2>2, <1>0, SubSeqProperties
  <2>4. Len(Newest(s)) = Len(s) - d /\ Len(Newest(s)) = MaxUsageBuffer
    BY <2>1, <2>3, <1>0, <1>1
  <2>5. DOMAIN Newest(s) = 1..(Len(s) - d)
    BY <2>3, <2>4, LenProperties
  <2>6. \A i \in 1..(Len(s) - d) : Newest(s)[i] = s[d + i]
    BY <2>1, <2>3, <1>0
  <2>7. TailOf(Newest(s), s, d)
    BY <2>1, <2>3, <2>4, <2>5, <2>6 DEF TailOf
  <2> QED
    BY <2>1, <2>4, <2>7
<1>2. CASE ~(Len(s) > MaxUsageBuffer)
  <2>1. Newest(s) = s /\ DOMAIN s = 1..Len(s)
    BY <1>2, LenProperties DEF Newest
  <2>2. TailOf(Newest(s), s, 0)
    BY <2>1, <1>0 DEF TailOf
  <2> QED
    BY <2>2, <1>0
<1> QED
  BY <1>1, <1>2

(* A tail of a sequence in order is in order, and stays behind whatever    *)
(* the sequence was behind; what it has lost is smaller than what it has.  *)
LEMMA TailFacts ==
  ASSUME NEW s \in Seq(Nat), NEW n, NEW d, TailOf(n, s, d)
  PROVE  /\ Sorted(s) => Sorted(n)
         /\ \A t : Below(t, s) => Below(t, n)
         /\ \A i \in DOMAIN n : \E j \in DOMAIN s : n[i] = s[j]
         /\ Sorted(s) => \A r \in Elements(s) \ Elements(n) :
                           d > 0 /\ \A i \in DOMAIN n : n[i] > r
<1>0. /\ Len(s) \in Nat /\ DOMAIN s = 1..Len(s) /\ d \in 0..Len(s)
      /\ DOMAIN n = 1..(Len(s) - d)
      /\ \A i \in DOMAIN n : d + i \in DOMAIN s /\ n[i] = s[d + i]
      /\ s \in [1..Len(s) -> Nat]
  BY LenProperties DEF TailOf
<1>1. Sorted(s) => Sorted(n)
  BY <1>0 DEF Sorted
<1>2. ASSUME NEW t, Below(t, s) PROVE Below(t, n)
  BY <1>0, <1>2 DEF Below
<1>3. ASSUME Sorted(s), NEW r \in Elements(s) \ Elements(n)
      PROVE  d > 0 /\ \A i \in DOMAIN n : n[i] > r
  <2> PICK k \in DOMAIN s : r = s[k]
    BY DEF Elements
  <2>1. k <= d
    <3> SUFFICES ASSUME k > d PROVE FALSE
      BY <1>0
    <3>1. k - d \in DOMAIN n /\ d + (k - d) = k
      BY <1>0
    <3>2. n[k - d] = s[k]
      BY <3>1, <1>0
    <3> QED
      BY <3>1, <3>2 DEF Elements
  <2>2. ASSUME NEW i \in DOMAIN n PROVE n[i] > r
    <3>1. k < d + i /\ d + i \in DOMAIN s /\ n[i] = s[d + i]
      BY <1>0, <2>1
    <3>2. s[k] < s[d + i]
      BY <3>1, <1>3 DEF Sorted
    <3>3. s[k] \in Nat /\ s[d + i] \in Nat
      BY <1>0, <3>1
    <3> QED
      BY <3>1, <3>2, <3>3
  <2> QED
    BY <2>1, <2>2, <1>0
<1> QED
  BY <1>0, <1>1, <1>2, <1>3

(* A concatenation has the elements of its parts. *)
LEMMA ConcatElements ==
  ASSUME NEW s \in Seq(Nat), NEW t \in Seq(Nat)
  PROVE  Elements(s \o t) = Elements(s) \cup Elements(t)
<1>1. /\ \A i \in DOMAIN s : i \in DOMAIN (s \o t) /\ (s \o t)[i] = s[i]
      /\ \A j \in DOMAIN t : Len(s) + j \in DOMAIN (s \o t) /\ (s \o t)[Len(s) + j] = t[j]
  BY ConcatFacts
<1>2. \A k \in DOMAIN (s \o t) : \/ k \in DOMAIN s /\ (s \o t)[k] = s[k]
                                 \/ k - Len(s) \in DOMAIN t /\ (s \o t)[k] = t[k - Len(s)]
  <2> SUFFICES ASSUME NEW k \in DOMAIN (s \o t), k \notin DOMAIN s
               PROVE  k - Len(s) \in DOMAIN t /\ (s \o t)[k] = t[k - Len(s)]
    BY <1>1
  <2>1. k - Len(s) \in DOMAIN t /\ Len(s) + (k - Len(s)) = k
    BY ConcatFacts
  <2> QED
    BY <2>1, <1>1
<1>3. ASSUME NEW r \in Elements(s \o t) PROVE r \in Elements(s) \cup Elements(t)
  BY <1>2, <1>3 DEF Elements
<1>4. ASSUME NEW r \in Elements(s) \cup Elements(t) PROVE r \in Elements(s \o t)
  BY <1>1, <1>4 DEF Elements
<1> QED
  BY <1>3, <1>4

-----------------------------------------------------------------------------
(* Table, hand and buffer are in order, one behind the other; the hand is  *)
(* empty unless an insert is under way; from the last drain on the buffer  *)
(* has only records that were made after it.                               *)
InOrder ==
  /\ Sorted(table) /\ Sorted(hand) /\ Sorted(buf)
  /\ Below(table, hand) /\ Below(table, buf) /\ Below(hand, buf)

UsageIInv ==
  /\ UsageTypeOK
  /\ InOrder
  /\ loop \notin {"insert", "last"} => hand = << >>
  /\ loop = "last" \/ (loop = "done" /\ ~kept) => \A i \in DOMAIN buf : buf[i] > closing

(* Sequences of records that were made. *)
LEMMA Numbered ==
  ASSUME NEW n \in Nat, NEW s
  PROVE  s \in Seq(1..n) <=> s \in Seq(Nat) /\ \A i \in DOMAIN s : s[i] \in 1..n
<1>1. ASSUME s \in Seq(1..n) PROVE s \in Seq(Nat) /\ \A i \in DOMAIN s : s[i] \in 1..n
  <2>1. 1..n \subseteq Nat
    OBVIOUS
  <2>2. s \in Seq(Nat)
    BY <1>1, <2>1, SeqMonotonic
  <2>3. DOMAIN s = 1..Len(s)
    BY <2>2, LenProperties
  <2> QED
    BY <1>1, <2>2, <2>3, ElementOfSeq
<1>2. ASSUME s \in Seq(Nat), \A i \in DOMAIN s : s[i] \in 1..n PROVE s \in Seq(1..n)
  <2>1. Len(s) \in Nat /\ s \in [1..Len(s) -> Nat]
    BY <1>2, LenProperties
  <2>2. s \in [1..Len(s) -> 1..n]
    BY <1>2, <2>1
  <2> QED
    BY <2>1, <2>2, SeqDef
<1> QED
  BY <1>1, <1>2

(* The types, number by number. *)
LEMMA UsageFacts ==
  ASSUME UsageTypeOK
  PROVE  /\ made \in Nat /\ closing \in Nat /\ MaxRecords \in Nat
         /\ buf \in Seq(Nat) /\ \A i \in DOMAIN buf : buf[i] \in 1..made
         /\ hand \in Seq(Nat) /\ \A i \in DOMAIN hand : hand[i] \in 1..made
         /\ table \in Seq(Nat) /\ \A i \in DOMAIN table : table[i] \in 1..made
<1>1. made \in Nat /\ closing \in Nat /\ MaxRecords \in Nat
  BY UsageBufferAssumption DEF UsageTypeOK
<1> QED
  BY <1>1, Numbered DEF UsageTypeOK

(* The empty sequence is in order, before and behind everything. *)
LEMMA NothingSorted ==
  /\ Sorted(<< >>) /\ << >> \in Seq(Nat) /\ DOMAIN << >> = {}
  /\ \A s : Below(s, << >>) /\ Below(<< >>, s)
BY EmptySeq DEF Sorted, Below

(* The inductive invariant implies the invariant of the run. *)
LEMMA UsageInvImplied == UsageIInv => UsageInv
<1> SUFFICES ASSUME UsageIInv PROVE UsageInv
  OBVIOUS
<1>1. /\ buf \in Seq(Nat) /\ hand \in Seq(Nat) /\ table \in Seq(Nat)
  BY UsageFacts DEF UsageIInv
<1>2. table \o hand \in Seq(Nat) /\ Sorted(table \o hand)
  BY <1>1, ConcatFacts, SortedConcat DEF UsageIInv, InOrder
<1>3. Below(table \o hand, buf)
  <2> SUFFICES ASSUME NEW i \in DOMAIN (table \o hand), NEW j \in DOMAIN buf
               PROVE  (table \o hand)[i] < buf[j]
    BY DEF Below
  <2>1. (table \o hand)[i] \in Elements(table) \cup Elements(hand)
    BY <1>1, ConcatElements DEF Elements
  <2> QED
    BY <2>1 DEF UsageIInv, InOrder, Below, Elements
<1>4. Sorted(Everywhere)
  BY <1>1, <1>2, <1>3, SortedConcat DEF Everywhere, UsageIInv, InOrder
<1> QED
  BY <1>4 DEF UsageIInv, UsageInv, Sorted

(* A buffer cut to what fits: what it has lost is older than all it has. *)
LEMMA CutBuffer ==
  ASSUME NEW s \in Seq(Nat), NEW n \in Nat, \A i \in DOMAIN s : s[i] \in 1..n
  PROVE  /\ Newest(s) \in Seq(1..n)
         /\ Sorted(s) => Sorted(Newest(s))
         /\ \A t : Below(t, s) => Below(t, Newest(s))
         /\ \A c : (\A i \in DOMAIN s : s[i] > c) => \A i \in DOMAIN Newest(s) : Newest(s)[i] > c
         /\ Sorted(s) => \A r \in Elements(s) \ Elements(Newest(s)) :
              /\ Len(Newest(s)) = MaxUsageBuffer
              /\ \A i \in DOMAIN Newest(s) : Newest(s)[i] > r
<1> PICK d \in 0..Len(s) : /\ TailOf(Newest(s), s, d)
                           /\ d > 0 => Len(Newest(s)) = MaxUsageBuffer
  BY NewestFacts
<1>1. \A i \in DOMAIN Newest(s) : \E j \in DOMAIN s : Newest(s)[i] = s[j]
  BY TailFacts
<1>2. Newest(s) \in Seq(1..n)
  BY <1>1, Numbered DEF TailOf
<1>3. Sorted(s) => \A r \in Elements(s) \ Elements(Newest(s)) :
                     d > 0 /\ \A i \in DOMAIN Newest(s) : Newest(s)[i] > r
  BY TailFacts
<1>4. (Sorted(s) => Sorted(Newest(s))) /\ \A t : Below(t, s) => Below(t, Newest(s))
  BY TailFacts
<1> QED
  BY <1>1, <1>2, <1>3, <1>4

(* A record added to the buffer, with the cut that may follow. *)
LEMMA RecordKeeps ==
  ASSUME UsageIInv, Record
  PROVE  UsageIInv' /\ \A r \in Elements(buf) \ Elements(buf') :
                          Len(buf') = MaxUsageBuffer /\ \A i \in DOMAIN buf' : buf'[i] > r
<1> DEFINE s == Append(buf, made + 1)
<1>0. UsageTypeOK /\ made \in Nat /\ made + 1 \in Nat /\ closing \in Nat /\ MaxRecords \in Nat
  BY UsageFacts DEF UsageIInv
<1>1. /\ s \in Seq(Nat) /\ DOMAIN s = 1..(Len(buf) + 1) /\ Len(buf) \in Nat
      /\ DOMAIN buf = 1..Len(buf)
      /\ \A i \in 1..Len(buf) : s[i] = buf[i]
      /\ s[Len(buf) + 1] = made + 1
  BY <1>0, UsageFacts, AppendProperties, LenProperties
<1> HIDE DEF s
<1>2. \A i \in DOMAIN s : (i \in DOMAIN buf /\ s[i] = buf[i]) \/ s[i] = made + 1
  BY <1>1
<1>3. \A i \in DOMAIN s : s[i] \in 1..(made + 1)
  <2>1. \A i \in DOMAIN buf : buf[i] \in 1..(made + 1)
    BY <1>0, UsageFacts
  <2>2. made + 1 \in 1..(made + 1)
    BY <1>0
  <2> QED
    BY <2>1, <2>2, <1>2
<1>4. Sorted(s)
  <2> SUFFICES ASSUME NEW i \in DOMAIN s, NEW j \in DOMAIN s, i < j
               PROVE  s[i] < s[j]
    BY DEF Sorted
  <2>1. i \in DOMAIN buf /\ s[i] = buf[i]
    BY <1>1
  <2>2. CASE j \in DOMAIN buf
    BY <2>1, <2>2, <1>1 DEF UsageIInv, InOrder, Sorted
  <2>3. CASE s[j] = made + 1
    BY <2>1, <2>3, <1>0, UsageFacts
  <2> QED
    BY <2>2, <2>3, <1>2
<1>5. ASSUME NEW t \in Seq(Nat), \A i \in DOMAIN t : t[i] \in 1..made, Below(t, buf)
      PROVE  Below(t, s)
  BY <1>0, <1>2, <1>5 DEF Below
<1>6. buf' = Newest(s) /\ made' = made + 1 /\ made < MaxRecords
      /\ UNCHANGED <<hand, table, loop, stopping, closing, kept>>
  BY DEF Record, s
<1>7. InOrder'
  <2>1. Below(table, s) /\ Below(hand, s)
    BY <1>0, <1>5, UsageFacts DEF UsageIInv, InOrder
  <2>2. Sorted(Newest(s)) /\ Below(table, Newest(s)) /\ Below(hand, Newest(s))
    BY <2>1, <1>0, <1>1, <1>3, <1>4, CutBuffer
  <2> QED
    BY <2>2, <1>6 DEF InOrder, UsageIInv
<1>8. UsageTypeOK'
  <2>1. buf' \in Seq(1..made')
    BY <1>0, <1>1, <1>3, <1>6, CutBuffer
  <2>2. \A t : t \in Seq(1..made) => t \in Seq(1..made')
    BY <1>0, <1>6, SeqMonotonic
  <2> QED
    BY <2>1, <2>2, <1>0, <1>6 DEF UsageTypeOK
<1>9. (\A i \in DOMAIN buf : buf[i] > closing) => \A i \in DOMAIN buf' : buf'[i] > closing
  <2>1. (\A i \in DOMAIN buf : buf[i] > closing) => \A i \in DOMAIN s : s[i] > closing
    <3>1. made + 1 > closing
      BY <1>0 DEF UsageTypeOK
    <3> QED
      BY <3>1, <1>2
  <2> QED
    BY <2>1, <1>0, <1>1, <1>3, <1>6, CutBuffer
<1>10. \A r \in Elements(buf) \ Elements(buf') :
          Len(buf') = MaxUsageBuffer /\ \A i \in DOMAIN buf' : buf'[i] > r
  <2>1. Elements(buf) \subseteq Elements(s)
    BY <1>1 DEF Elements
  <2>2. \A r \in Elements(s) \ Elements(Newest(s)) :
              /\ Len(Newest(s)) = MaxUsageBuffer
              /\ \A i \in DOMAIN Newest(s) : Newest(s)[i] > r
    BY <1>0, <1>1, <1>3, <1>4, CutBuffer
  <2> QED
    BY <2>1, <2>2, <1>6
<1> QED
  BY <1>6, <1>7, <1>8, <1>9, <1>10 DEF UsageIInv

(* The flush takes the buffer into its hand. *)
LEMMA DrainKeeps ==
  ASSUME UsageIInv, Drain
  PROVE  UsageIInv'
<1>0. hand = << >> /\ hand' = buf /\ buf' = << >> /\ UNCHANGED <<table, stopping, made>>
      /\ closing' = made /\ kept' = FALSE
  BY DEF Drain, UsageIInv
<1>1. InOrder'
  BY <1>0, NothingSorted DEF InOrder, UsageIInv
<1>2. loop' \in {"select", "done", "insert", "last"}
  BY DEF Drain, After
<1>3. UsageTypeOK'
  <2>1. << >> \in Seq(1..made) /\ made \in 0..made
    BY EmptySeq, UsageFacts DEF UsageIInv
  <2>2. UsageTypeOK
    BY DEF UsageIInv
  <2>3. kept' \in BOOLEAN
    BY <1>0
  <2>4. buf' \in Seq(1..made') /\ hand' \in Seq(1..made') /\ table' \in Seq(1..made')
    BY <2>1, <2>2, <1>0 DEF UsageTypeOK
  <2>5. made' \in 0..MaxRecords /\ closing' \in 0..made'
    BY <2>1, <2>2, <1>0 DEF UsageTypeOK
  <2> QED
    BY <2>2, <2>3, <2>4, <2>5, <1>0, <1>2 DEF UsageTypeOK
<1>4. loop' \notin {"insert", "last"} => hand' = << >>
  BY <1>0 DEF Drain, After
<1> QED
  BY <1>0, <1>1, <1>3, <1>4, NothingSorted DEF UsageIInv

(* The insert puts the hand behind the table. *)
LEMMA InsertKeeps ==
  ASSUME UsageIInv, Insert
  PROVE  UsageIInv'
<1>0. /\ table' = table \o hand /\ hand' = << >> /\ loop' = After
      /\ UNCHANGED <<buf, stopping, made, closing, kept>>
      /\ loop \in {"insert", "last"}
  BY DEF Insert
<1>1. /\ table \in Seq(Nat) /\ hand \in Seq(Nat) /\ buf \in Seq(Nat) /\ made \in Nat
  BY UsageFacts DEF UsageIInv
<1>2. Sorted(table') /\ \A i \in DOMAIN table' : table'[i] \in Elements(table) \cup Elements(hand)
  BY <1>0, <1>1, SortedConcat, ConcatElements DEF UsageIInv, InOrder, Elements
<1>3. Below(table', buf')
  BY <1>0, <1>2 DEF Below, Elements, UsageIInv, InOrder
<1>4. InOrder'
  BY <1>0, <1>2, <1>3, NothingSorted DEF InOrder, UsageIInv
<1>5. UsageTypeOK'
  <2>1. table \in Seq(1..made) /\ hand \in Seq(1..made) /\ << >> \in Seq(1..made)
    BY EmptySeq DEF UsageIInv, UsageTypeOK
  <2>2. table' \in Seq(1..made)
    BY <2>1, <1>0, ConcatProperties
  <2> QED
    BY <2>1, <2>2, <1>0 DEF UsageTypeOK, UsageIInv, After
<1> QED
  BY <1>0, <1>4, <1>5 DEF UsageIInv, After

(* A failed insert puts the hand before the buffer, with the cut that may  *)
(* follow.                                                                 *)
LEMMA RequeueKeeps ==
  ASSUME UsageIInv, Requeue
  PROVE  UsageIInv' /\ \A r \in Elements(hand \o buf) \ Elements(buf') :
                          Len(buf') = MaxUsageBuffer /\ \A i \in DOMAIN buf' : buf'[i] > r
<1>0. /\ buf' = Newest(hand \o buf) /\ hand' = << >> /\ loop' = After /\ kept' = TRUE
      /\ UNCHANGED <<table, stopping, made, closing>>
      /\ loop \in {"insert", "last"}
  BY DEF Requeue
<1> DEFINE s == hand \o buf
<1>1. /\ hand \in Seq(Nat) /\ buf \in Seq(Nat) /\ made \in Nat
  BY UsageFacts DEF UsageIInv
<1>2. s \in Seq(Nat) /\ Sorted(s) /\ \A i \in DOMAIN s : s[i] \in Elements(hand) \cup Elements(buf)
  BY <1>1, ConcatFacts, SortedConcat, ConcatElements DEF UsageIInv, InOrder, Elements
<1>3. Below(table, s)
  BY <1>2 DEF Below, Elements, UsageIInv, InOrder
<1>4. \A i \in DOMAIN s : s[i] \in 1..made
  BY <1>2, UsageFacts DEF Elements, UsageIInv
<1> HIDE DEF s
<1>5. buf' = Newest(s)
  BY <1>0 DEF s
<1>6. InOrder'
  BY <1>0, <1>1, <1>2, <1>3, <1>4, <1>5, CutBuffer, NothingSorted DEF InOrder, UsageIInv
<1>7. UsageTypeOK'
  <2>1. << >> \in Seq(1..made) /\ buf' \in Seq(1..made)
    BY EmptySeq, <1>1, <1>2, <1>4, <1>5, CutBuffer
  <2> QED
    BY <2>1, <1>0 DEF UsageTypeOK, UsageIInv, After
<1>8. \A r \in Elements(s) \ Elements(buf') :
          Len(buf') = MaxUsageBuffer /\ \A i \in DOMAIN buf' : buf'[i] > r
  BY <1>1, <1>2, <1>4, <1>5, CutBuffer
<1> QED
  BY <1>0, <1>6, <1>7, <1>8 DEF UsageIInv, After, s

(* The usage buffer starts in the invariant. *)
LEMMA UsageStarts == UsageInit => UsageIInv
<1> SUFFICES ASSUME UsageInit PROVE UsageIInv
  OBVIOUS
<1>1. << >> \in Seq(1..0) /\ MaxRecords \in Nat
  BY EmptySeq, UsageBufferAssumption
<1>2. UsageTypeOK
  <2>1. buf \in Seq(1..made) /\ hand \in Seq(1..made) /\ table \in Seq(1..made)
    BY <1>1 DEF UsageInit
  <2>2. made \in 0..MaxRecords /\ closing \in 0..made
    BY <1>1 DEF UsageInit
  <2> QED
    BY <2>1, <2>2 DEF UsageInit, UsageTypeOK
<1>3. InOrder
  BY NothingSorted DEF UsageInit, InOrder
<1> QED
  BY <1>2, <1>3 DEF UsageInit, UsageIInv

(* Every step of the usage buffer keeps it. *)
LEMMA UsageInductive ==
  ASSUME UsageIInv, [UsageNext]_usageVars
  PROVE  UsageIInv'
<1>1. CASE Ticks \/ Stop \/ LastRound
  BY <1>1 DEF Ticks, Stop, LastRound, UsageIInv, UsageTypeOK, InOrder
<1>2. CASE UNCHANGED usageVars
  BY <1>2 DEF usageVars, UsageIInv, UsageTypeOK, InOrder
<1> QED
  BY <1>1, <1>2, RecordKeeps, DrainKeeps, InsertKeeps, RequeueKeeps DEF UsageNext

(* A step gives up a record only where the buffer is cut. *)
LEMMA DropsOldest ==
  ASSUME UsageIInv, UsageNext,
         NEW r \in Elements(Everywhere) \ Elements(Everywhere')
  PROVE  Len(buf') = MaxUsageBuffer /\ \A i \in DOMAIN buf' : buf'[i] > r
<1> DEFINE Parts3 == Elements(table) \cup Elements(hand) \cup Elements(buf)
<1>0. /\ table \in Seq(Nat) /\ hand \in Seq(Nat) /\ buf \in Seq(Nat) /\ table \o hand \in Seq(Nat)
  BY UsageFacts, ConcatFacts DEF UsageIInv
<1>1. Elements(Everywhere) = Parts3
  BY <1>0, ConcatElements DEF Everywhere
<1>2. UsageIInv'
  BY UsageInductive
<1>3. /\ table' \in Seq(Nat) /\ hand' \in Seq(Nat) /\ buf' \in Seq(Nat)
  <2>1. made' \in Nat
    BY <1>2, UsageBufferAssumption DEF UsageIInv, UsageTypeOK
  <2> QED
    BY <2>1, <1>2, Numbered DEF UsageIInv, UsageTypeOK
<1>4. Elements(Everywhere') = Parts3'
  <2>1. table' \o hand' \in Seq(Nat)
    BY <1>3, ConcatFacts
  <2>2. Elements((table' \o hand') \o buf') = Elements(table') \cup Elements(hand') \cup Elements(buf')
    BY <2>1, <1>3, ConcatElements
  <2> QED
    BY <2>2 DEF Everywhere, Elements
<1>5. r \in Parts3 /\ r \notin Parts3'
  BY <1>1, <1>4
<1>6. CASE Record
  BY <1>5, <1>6, RecordKeeps DEF Record, Elements
<1>7. CASE Requeue
  <2>1. Elements(hand \o buf) = Elements(hand) \cup Elements(buf) /\ Elements(table') = Elements(table)
    BY <1>7, <1>0, ConcatElements DEF Requeue
  <2>2. r \in Elements(hand \o buf) \ Elements(buf')
    BY <2>1, <1>5
  <2> QED
    BY <2>2, <1>7, RequeueKeeps
<1>8. CASE Insert
  <2>1. Elements(table') = Elements(table) \cup Elements(hand) /\ Elements(buf') = Elements(buf)
    BY <1>8, <1>0, ConcatElements DEF Insert
  <2> QED
    BY <2>1, <1>5
<1>9. CASE Drain
  BY <1>5, <1>9, EmptySeq DEF Drain, Elements, UsageIInv
<1>10. CASE Ticks \/ Stop \/ LastRound
  BY <1>5, <1>10 DEF Ticks, Stop, LastRound, Elements
<1> QED
  BY <1>6, <1>7, <1>8, <1>9, <1>10 DEF UsageNext

-----------------------------------------------------------------------------
(* The rows of the API key. *)
KeyRows == [state : {"none", "live", "deleted"}, status : {"active", "inactive"},
            secret : Secrets, daily : Nat, total : Nat]

Tallies == [ever : Nat, today : Nat]

(* The row and its copy are rows; what the uses counted today and the      *)
(* requests in progress may still add up to is within the limit and the    *)
(* callers.                                                                *)
KeysIInv ==
  /\ serving \subseteq Callers
  /\ row \in KeyRows
  /\ copy = NoCopy \/ (copy \in KeyRows /\ copy.state = "live")
  /\ counts \in Tallies /\ overwritten \in BOOLEAN
  /\ ~overwritten => row.daily = counts.today /\ row.total = counts.ever
  /\ (~overwritten /\ DailyLimit > 0)
       => counts.today + Cardinality(serving) <= DailyLimit - 1 + Cardinality(Callers)

(* A session that was logged out of is remembered until it expires. *)
SessionsIInv ==
  /\ time \in 1..MaxTime /\ appKey \in Secrets
  /\ issued \subseteq (1..time) \X Secrets /\ revoked \subseteq issued
  /\ loggedOut \subseteq issued
  /\ \A s \in loggedOut : Expired(s) \/ s \in revoked

(* Cardinalities of sets of callers. *)
LEMMA ServingFacts ==
  ASSUME NEW S \in SUBSET Callers
  PROVE  /\ IsFiniteSet(S) /\ Cardinality(S) \in Nat /\ Cardinality(Callers) \in Nat
         /\ Cardinality(S) <= Cardinality(Callers)
         /\ \A p \in Callers \ S : Cardinality(S \cup {p}) = Cardinality(S) + 1
         /\ \A p \in S : Cardinality(S \ {p}) = Cardinality(S) - 1
<1>1. IsFiniteSet(Callers) /\ IsFiniteSet(S)
  BY CredentialsAssumption, FS_Subset
<1> QED
  BY <1>1, FS_CardinalityType, FS_Subset, FS_AddElement, FS_RemoveElement

(* The inductive invariant of the keys implies that counted uses stay.     *)
LEMMA KeysInvImplied == KeysIInv => CountedUsesStay
<1> SUFFICES ASSUME KeysIInv PROVE CountedUsesStay
  OBVIOUS
<1>1. /\ Cardinality(serving) \in Nat /\ Cardinality(Callers) \in Nat /\ DailyLimit \in Nat
      /\ counts.today \in Nat
  BY ServingFacts, CredentialsAssumption DEF KeysIInv, Tallies
<1> QED
  BY <1>1 DEF KeysIInv, CountedUsesStay

(* The keys start in the invariant. *)
LEMMA KeysStart == CredentialsInit => KeysIInv
<1> SUFFICES ASSUME CredentialsInit PROVE KeysIInv
  OBVIOUS
<1>1. Cardinality({}) = 0 /\ Cardinality(Callers) \in Nat /\ DailyLimit \in Nat /\ 1 \in Secrets
  BY FS_EmptySet, ServingFacts, CredentialsAssumption
<1>2. row \in KeyRows /\ row.daily = 0 /\ row.total = 0
  BY <1>1 DEF CredentialsInit, KeyRows
<1>3. /\ counts \in Tallies /\ counts.today = 0 /\ counts.ever = 0
      /\ serving = {} /\ copy = NoCopy /\ overwritten = FALSE
  BY DEF CredentialsInit, NoUses, Tallies
<1>4. \/ counts.today + Cardinality(serving) <= DailyLimit - 1 + Cardinality(Callers)
      \/ ~(DailyLimit > 0)
  BY <1>1, <1>3
<1> QED
  BY <1>2, <1>3, <1>4 DEF KeysIInv

(* The requests of a key. *)
LEMMA CallersKeep ==
  ASSUME KeysIInv, NEW p \in Callers,
         \/ ServeMedia(p) \/ IncrementFails(p) \/ Succeed(p) \/ FailUpstream(p)
         \/ \E secret \in Secrets : Authenticate(p, secret)
  PROVE  KeysIInv'
<1>0. /\ serving \in SUBSET Callers /\ DailyLimit \in Nat
      /\ Cardinality(serving) \in Nat /\ Cardinality(Callers) \in Nat
      /\ Cardinality(serving) <= Cardinality(Callers)
      /\ p \notin serving => Cardinality(serving \cup {p}) = Cardinality(serving) + 1
                             /\ Cardinality(serving \cup {p}) <= Cardinality(Callers)
      /\ p \in serving => Cardinality(serving \ {p}) = Cardinality(serving) - 1
  BY ServingFacts, CredentialsAssumption DEF KeysIInv
<1>4. counts.today \in Nat /\ counts.ever \in Nat
  BY DEF KeysIInv, Tallies
<1>1. CASE Succeed(p)
  <2>1. CASE row.state = "live"
    <3>1. row' \in KeyRows /\ row'.daily = row.daily + 1 /\ row'.total = row.total + 1
      <4>1. row \in KeyRows /\ row.daily \in Nat /\ row.total \in Nat
        BY DEF KeysIInv, KeyRows
      <4>2. row' = [row EXCEPT !.daily = row.daily + 1, !.total = row.total + 1]
        BY <1>1, <2>1 DEF Succeed
      <4>3. row.daily + 1 \in Nat /\ row.total + 1 \in Nat
        BY <4>1
      <4>4. [row EXCEPT !.daily = row.daily + 1] \in KeyRows
        BY <4>1, <4>3 DEF KeyRows
      <4>5. \A k \in KeyRows, n \in Nat : [k EXCEPT !.total = n] \in KeyRows
        BY DEF KeyRows
      <4>6. row' = [[row EXCEPT !.daily = row.daily + 1] EXCEPT !.total = row.total + 1]
        BY <4>2
      <4>7. row' \in KeyRows
        BY <4>3, <4>4, <4>5, <4>6
      <4> QED
        BY <4>1, <4>2, <4>7 DEF KeyRows
    <3>2. /\ counts' \in Tallies
          /\ counts'.today = counts.today + 1 /\ counts'.ever = counts.ever + 1
      BY <1>1, <1>4, <2>1 DEF Succeed, Tallies
    <3> QED
      BY <1>0, <1>1, <1>4, <3>1, <3>2 DEF Succeed, KeysIInv
  <2>2. CASE row.state # "live"
    BY <1>0, <1>1, <1>4, <2>2 DEF Succeed, KeysIInv
  <2> QED
    BY <2>1, <2>2
<1>2. CASE Uncounted(p)
  BY <1>0, <1>2, <1>4 DEF Uncounted, KeysIInv
<1>3. ASSUME NEW secret \in Secrets, Authenticate(p, secret) PROVE KeysIInv'
  <2>1. row.daily \in Nat
    BY DEF KeysIInv, KeyRows
  <2> QED
    BY <1>0, <1>3, <1>4, <2>1 DEF Authenticate, KeysIInv
<1> QED
  BY <1>1, <1>2, <1>3 DEF ServeMedia, IncrementFails, FailUpstream

(* The administrator, the daily reset and a restart. *)
LEMMA RowChangesKeep ==
  ASSUME KeysIInv,
         \/ CreateKey \/ PatchRead \/ DeleteKey \/ ResetDailyUsage \/ KeysRestart
         \/ \E status \in {"active", "inactive"} : PatchSave(status)
         \/ \E secret \in Secrets : Regenerate(secret)
  PROVE  KeysIInv'
<1>0. /\ DailyLimit \in Nat /\ Cardinality(serving) \in Nat /\ Cardinality(Callers) \in Nat
      /\ Cardinality(serving) <= Cardinality(Callers) /\ Cardinality({}) = 0
      /\ counts.today \in Nat
  BY ServingFacts, CredentialsAssumption, FS_EmptySet DEF KeysIInv, Tallies
<1>1. CASE CreateKey \/ DeleteKey
  <2>1. row' \in KeyRows /\ row'.daily = row.daily /\ row'.total = row.total
    BY <1>1 DEF CreateKey, DeleteKey, KeysIInv, KeyRows
  <2> QED
    BY <1>1, <2>1 DEF CreateKey, DeleteKey, KeysIInv
<1>2. CASE PatchRead
  BY <1>2 DEF PatchRead, KeysIInv
<1>3. CASE ResetDailyUsage
  <2>1. row' \in KeyRows /\ row'.daily = 0 /\ row'.total = row.total
    BY <1>3 DEF ResetDailyUsage, KeysIInv, KeyRows
  <2>2. counts' \in Tallies /\ counts'.today = 0 /\ counts'.ever = counts.ever
    BY <1>3 DEF ResetDailyUsage, KeysIInv, Tallies
  <2> QED
    BY <1>0, <1>3, <2>1, <2>2 DEF ResetDailyUsage, KeysIInv
<1>4. CASE KeysRestart
  BY <1>0, <1>4 DEF KeysRestart, KeysIInv
<1>5. ASSUME NEW status \in {"active", "inactive"}, PatchSave(status) PROVE KeysIInv'
  <2>1. copy \in KeyRows
    BY <1>5 DEF PatchSave, KeysIInv
  <2>2. row' \in KeyRows /\ row'.daily = copy.daily /\ row'.total = copy.total
    BY <1>5, <2>1 DEF PatchSave, KeyRows
  <2>3. overwritten' \in BOOLEAN /\ (~overwritten' => ~overwritten /\ copy = row)
    BY <1>5 DEF PatchSave, KeysIInv
  <2> QED
    BY <1>5, <2>2, <2>3 DEF PatchSave, KeysIInv
<1>6. ASSUME NEW secret \in Secrets, Regenerate(secret) PROVE KeysIInv'
  <2>1. row' \in KeyRows /\ row'.daily = row.daily /\ row'.total = row.total
    BY <1>6 DEF Regenerate, KeysIInv, KeyRows
  <2> QED
    BY <1>6, <2>1 DEF Regenerate, KeysIInv
<1> QED
  BY <1>1, <1>2, <1>3, <1>4, <1>5, <1>6

(* Every step of the keys keeps it. *)
LEMMA KeysInductive ==
  ASSUME KeysIInv, [KeysNext]_credentialVars
  PROVE  KeysIInv'
<1>1. CASE UNCHANGED credentialVars
  BY <1>1 DEF credentialVars, keyVars, KeysIInv
<1> QED
  BY <1>1, CallersKeep, RowChangesKeep DEF KeysNext

(* The sessions start in their invariant. *)
LEMMA SessionsStart == CredentialsInit => SessionsIInv
BY CredentialsAssumption DEF CredentialsInit, SessionsIInv

(* Every step of the sessions keeps it: an expired session stays expired,  *)
(* and the purge forgets no other.                                         *)
LEMMA SessionsInductive ==
  ASSUME SessionsIInv, [SessionsNext]_credentialVars
  PROVE  SessionsIInv'
<1>0. TTL \in Nat /\ time \in Int /\ \A s \in issued : s[1] \in 1..time
  BY CredentialsAssumption DEF SessionsIInv
<1>1. CASE PassTime
  <2>1. time' = time + 1 /\ time' \in 1..MaxTime
    BY <1>0, <1>1, CredentialsAssumption DEF PassTime, SessionsIInv
  <2>2. issued' \subseteq (1..time') \X Secrets
    BY <1>0, <1>1, <2>1 DEF PassTime, SessionsIInv
  <2>3. \A s \in issued : Expired(s) => Expired(s)'
    BY <1>0, <2>1 DEF Expired
  <2> QED
    BY <1>1, <2>1, <2>2, <2>3 DEF PassTime, SessionsIInv
<1>2. CASE Login
  <2>1. SignedNow \in (1..time) \X Secrets
    BY <1>0 DEF SignedNow, SessionsIInv
  <2> QED
    BY <1>2, <2>1 DEF Login, SessionsIInv, Expired
<1>3. CASE Purge
  BY <1>3 DEF Purge, SessionsIInv, Expired
<1>4. CASE SessionsRestart
  BY <1>4 DEF SessionsRestart, SessionsIInv
<1>5. ASSUME NEW s \in issued, Logout(s) PROVE SessionsIInv'
  BY <1>5 DEF Logout, Revoke, SessionsIInv, Expired
<1>6. ASSUME NEW key \in Secrets, SetAppKey(key) PROVE SessionsIInv'
  BY <1>6 DEF SetAppKey, SessionsIInv, Expired
<1>7. CASE UNCHANGED credentialVars
  BY <1>7 DEF credentialVars, sessionVars, SessionsIInv, Expired
<1> QED
  BY <1>1, <1>2, <1>3, <1>4, <1>5, <1>6, <1>7 DEF SessionsNext

(* A session that is revoked or expired is refused. *)
LEMMA SessionsInvImplied == SessionsIInv => LoggedOutStaysOut
BY DEF SessionsIInv, LoggedOutStaysOut, LetsIn, Verifies

(* Both invariants imply the types. *)
LEMMA CredentialsTyped == KeysIInv /\ SessionsIInv => CredentialsTypeOK
BY DEF KeysIInv, KeyRows, SessionsIInv, CredentialsTypeOK

-----------------------------------------------------------------------------
(* What a row may hold: what a PUT may set, and the cookies of a refresh. *)
Storable(k) == IF k = "cookies" THEN {"put", "solved"} ELSE Settable[k]

(* Rows that PUTs and refreshes have saved. *)
Storables(rows) == DOMAIN rows \subseteq Keys /\ \A k \in DOMAIN rows : rows[k] \in Storable(k)

(* A PUT between its steps. *)
Snapshots == [pc : {"taken", "saved", "stored"}, snapshot : Configs,
              update : UNION {{Entry(k, v) : v \in Settable[k]} : k \in Keys}]

(* The types, with the values a row may hold. *)
ConfigTyped ==
  /\ phase \in {"running", "stopping", "down", "failed"}
  /\ runtime \in Configs /\ managed \in {1, 2} /\ bootKey \in {"none"} \cup Generated
  /\ Storables(kvs)
  /\ put \in [Admins -> {NoPut} \cup Snapshots]
  /\ cf \in {"select", "solving", "solved", "updated", "done"}
  /\ trigger \in BOOLEAN /\ recent \in BOOLEAN /\ diverged \in BOOLEAN

(* While no two writers overlap there is one between its steps, and what   *)
(* it has not done yet is all that keeps configuration, rows and copy      *)
(* apart.                                                                  *)
Agreement ==
  /\ \A a, b \in Writing : a = b
  /\ Writing # {} => cf \notin {"solved", "updated"}
  /\ (cf # "updated" /\ \A a \in Writing : put[a].pc = "taken")
       => runtime = Loaded /\ managed = runtime.threshold
  /\ cf = "updated" => /\ runtime = [Loaded EXCEPT !.cookies = "solved"]
                       /\ managed = runtime.threshold
  /\ \A a \in Writing :
       /\ put[a].pc = "taken" => \E k \in Keys : \E v \in Settable[k] :
                                   /\ put[a].update = Entry(k, v)
                                   /\ put[a].snapshot = [runtime EXCEPT ![k] = v]
       /\ put[a].pc = "saved" => put[a].snapshot = Loaded
       /\ put[a].pc = "stored" => put[a].snapshot = runtime /\ runtime = Loaded

(* What a process that is down leaves to the next one.                     *)
InStep == runtime = Loaded /\ managed = runtime.threshold

(* The inductive invariant; a process whose writers overlapped, or that    *)
(* ended in the middle of one, has nothing to agree on.                    *)
ConfigIInv ==
  /\ ConfigTyped
  /\ Alive /\ ~diverged => Agreement
  /\ phase = "down" /\ ~diverged => InStep

(* The configurations as functions on the keys, and the changes that lead  *)
(* to one.                                                                 *)
LEMMA ConfigFacts ==
  /\ \A c \in Configs : DOMAIN c = Keys
  /\ \A c \in Configs, k \in Keys : \A v \in Storable(k) : [c EXCEPT ![k] = v] \in Configs
  /\ \A c, d \in Configs : (\A k \in Keys : c[k] = d[k]) => c = d
  /\ \A c \in Configs : \A key \in {"none"} \cup Generated : WithAdminKey(c, key) \in Configs
  /\ \A k \in Keys : Settable[k] \subseteq Storable(k)
  /\ File \in Configs
<1>1. \A c \in Configs : DOMAIN c = Keys
  BY DEF Configs, Keys
<1>2. ASSUME NEW c \in Configs, NEW k \in Keys, NEW v \in Storable(k)
      PROVE  [c EXCEPT ![k] = v] \in Configs
  BY DEF Configs, Keys, Settable, Storable
<1>3. ASSUME NEW c \in Configs, NEW d \in Configs, \A k \in Keys : c[k] = d[k]
      PROVE  c = d
  BY <1>3 DEF Configs, Keys
<1>4. ASSUME NEW c \in Configs, NEW key \in {"none"} \cup Generated
      PROVE  WithAdminKey(c, key) \in Configs
  BY DEF Configs, WithAdminKey
<1>5. \A k \in Keys : Settable[k] \subseteq Storable(k)
  BY DEF Keys, Settable, Storable
<1>6. File \in Configs
  BY DEF File, Configs
<1> QED
  BY <1>1, <1>2, <1>3, <1>4, <1>5, <1>6

(* The rows over the file. *)
OverFile(rows)  == [k \in Keys |-> IF k \in DOMAIN rows THEN rows[k] ELSE File[k]]

(* What a start makes of the rows. *)
LEMMA LoadedFacts ==
  ASSUME NEW rows, Storables(rows), NEW key \in {"none"} \cup Generated
  PROVE  LET c == WithAdminKey(OverFile(rows), key) IN
         /\ c \in Configs
         /\ \A k \in Keys \ {"app_key"} : c[k] = IF k \in DOMAIN rows THEN rows[k] ELSE File[k]
         /\ c["app_key"] = IF "app_key" \in DOMAIN rows THEN rows["app_key"] ELSE key
<1> DEFINE o == OverFile(rows)
           c == WithAdminKey(o, key)
<1>1. o = [k \in Keys |-> o[k]] /\ \A k \in Keys : o[k] = IF k \in DOMAIN rows THEN rows[k] ELSE File[k]
  BY DEF OverFile
<1>2. o["app_key"] \in {"none", "own"} /\ o["window"] \in {0, 1} /\ o["threshold"] \in {1, 2}
      /\ o["cookies"] \in {"none", "put", "solved"} /\ o["enabled"] \in BOOLEAN
  BY <1>1 DEF Storables, Storable, Settable, File, Keys
<1>3. o \in Configs
  BY <1>1, <1>2 DEF Configs, Keys
<1> HIDE DEF o
<1>5. c \in Configs
  BY <1>3, ConfigFacts
<1>6. \A k \in Keys \ {"app_key"} : c[k] = o[k]
  BY <1>3 DEF WithAdminKey, Configs, Keys
<1>7. c["app_key"] = IF o["app_key"] = "none" THEN key ELSE o["app_key"]
  BY <1>3 DEF WithAdminKey, Configs
<1>8. o["app_key"] = IF "app_key" \in DOMAIN rows THEN rows["app_key"] ELSE "none"
  BY <1>1 DEF File, Keys
<1>9. "app_key" \in DOMAIN rows => rows["app_key"] = "own"
  BY DEF Storables, Storable, Settable
<1> QED
  BY <1>1, <1>5, <1>6, <1>7, <1>8, <1>9 DEF o

(* The configuration of a start depends on the rows and the drawn key.     *)
LEMMA LoadedIs ==
  /\ Loaded = WithAdminKey(OverFile(kvs), bootKey)
  /\ Loaded' = WithAdminKey(OverFile(kvs'), bootKey')
BY DEF Loaded, Overridden, OverFile, Value

(* A row that is saved is what the next start finds. *)
LEMMA LoadedAfterSave ==
  ASSUME Storables(kvs), NEW k \in Keys, NEW v \in Storable(k), SetMany(Entry(k, v)),
         bootKey \in {"none"} \cup Generated, bootKey' = bootKey
  PROVE  /\ Storables(kvs')
         /\ Loaded' = [Loaded EXCEPT ![k] = v]
<1>1. /\ DOMAIN kvs' = {k} \cup DOMAIN kvs
      /\ \A x \in DOMAIN kvs' : kvs'[x] = IF x = k THEN v ELSE kvs[x]
  BY DEF SetMany, Entry
<1>2. Storables(kvs')
  BY <1>1 DEF Storables
<1>3. /\ Loaded \in Configs
      /\ \A x \in Keys \ {"app_key"} : Loaded[x] = IF x \in DOMAIN kvs THEN kvs[x] ELSE File[x]
      /\ Loaded["app_key"] = IF "app_key" \in DOMAIN kvs THEN kvs["app_key"] ELSE bootKey
  BY LoadedFacts, LoadedIs
<1>4. /\ Loaded' \in Configs
      /\ \A x \in Keys \ {"app_key"} : Loaded'[x] = IF x \in DOMAIN kvs' THEN kvs'[x] ELSE File[x]
      /\ Loaded'["app_key"] = IF "app_key" \in DOMAIN kvs' THEN kvs'["app_key"] ELSE bootKey
  BY <1>2, LoadedFacts, LoadedIs
<1> DEFINE d == [Loaded EXCEPT ![k] = v]
<1>5. d \in Configs /\ \A x \in Keys : d[x] = IF x = k THEN v ELSE Loaded[x]
  BY <1>3, ConfigFacts
<1>6. ASSUME NEW x \in Keys PROVE Loaded'[x] = d[x]
  BY <1>1, <1>3, <1>4, <1>5
<1> QED
  BY <1>2, <1>4, <1>5, <1>6, ConfigFacts

(* What a PUT works with, and how it goes on. *)
LEMMA SnapshotFacts ==
  /\ \A s \in Snapshots : /\ s.pc \in {"taken", "saved", "stored"} /\ s.snapshot \in Configs
                          /\ \E k \in Keys : \E v \in Settable[k] : s.update = Entry(k, v)
  /\ \A s \in Snapshots, pc \in {"taken", "saved", "stored"} :
       /\ [s EXCEPT !.pc = pc] \in Snapshots
       /\ [s EXCEPT !.pc = pc].pc = pc
       /\ [s EXCEPT !.pc = pc].snapshot = s.snapshot
       /\ [s EXCEPT !.pc = pc].update = s.update
  /\ \A c \in Configs, k \in Keys : \A v \in Settable[k] :
       [pc |-> "taken", snapshot |-> c, update |-> Entry(k, v)] \in Snapshots
  /\ NoPut.pc = "idle"
<1> DEFINE U == UNION {{Entry(k, v) : v \in Settable[k]} : k \in Keys}
<1>1. \A u \in U : \E k \in Keys : \E v \in Settable[k] : u = Entry(k, v)
  OBVIOUS
<1>2. \A k \in Keys : \A v \in Settable[k] : Entry(k, v) \in U
  OBVIOUS
<1> HIDE DEF U
<1>3. Snapshots = [pc : {"taken", "saved", "stored"}, snapshot : Configs, update : U]
  BY DEF Snapshots, U
<1> QED
  BY <1>1, <1>2, <1>3 DEF NoPut

(* A PUT is idle or works with a snapshot. *)
LEMMA WriterFacts ==
  ASSUME ConfigTyped, NEW a \in Admins
  PROVE  \/ put[a].pc = "idle" /\ put[a] = NoPut
         \/ put[a].pc # "idle" /\ put[a] \in Snapshots
<1>1. put[a] = NoPut \/ put[a] \in Snapshots
  BY DEF ConfigTyped
<1>2. CASE put[a] = NoPut
  BY <1>2, SnapshotFacts
<1>3. CASE put[a] \in Snapshots
  <2>1. put[a].pc \in {"taken", "saved", "stored"}
    BY <1>3, SnapshotFacts
  <2> QED
    BY <1>3, <2>1
<1> QED
  BY <1>1, <1>2, <1>3

(* Every step keeps the types. *)
LEMMA ConfigTypedKept ==
  ASSUME ConfigTyped, ConfigNext
  PROVE  ConfigTyped'
<1> USE DEF ConfigTyped
<1>1. ASSUME NEW a \in Admins, NEW k \in Keys, NEW v \in Settable[k], PutTake(a, k, v)
      PROVE  ConfigTyped'
  <2>1. [runtime EXCEPT ![k] = v] \in Configs
    BY ConfigFacts
  <2> QED
    BY <1>1, <2>1, SnapshotFacts DEF PutTake, processVars, cfVars
<1>2. ASSUME NEW a \in Admins, PutSave(a) PROVE ConfigTyped'
  <2>1. put[a] \in Snapshots
    BY <1>2, WriterFacts DEF PutSave
  <2>2. PICK k \in Keys : \E v \in Settable[k] : put[a].update = Entry(k, v)
    BY <2>1, SnapshotFacts
  <2>3. PICK v \in Settable[k] : put[a].update = Entry(k, v)
    BY <2>2
  <2>4. v \in Storable(k)
    BY ConfigFacts
  <2>5. Storables(kvs')
    BY <1>2, <2>3, <2>4, LoadedAfterSave DEF PutSave
  <2>6. put' \in [Admins -> {NoPut} \cup Snapshots]
    BY <1>2, <2>1, SnapshotFacts DEF PutSave
  <2> QED
    BY <1>2, <2>5, <2>6 DEF PutSave, cfVars
<1>3. ASSUME NEW a \in Admins, PutSaveFails(a) PROVE ConfigTyped'
  BY <1>3 DEF PutSaveFails, processVars, cfVars
<1>4. ASSUME NEW a \in Admins, PutStore(a) PROVE ConfigTyped'
  <2>1. put[a] \in Snapshots
    BY <1>4, WriterFacts DEF PutStore
  <2>2. put' \in [Admins -> {NoPut} \cup Snapshots]
    BY <1>4, <2>1, SnapshotFacts DEF PutStore
  <2> QED
    BY <1>4, <2>1, <2>2, SnapshotFacts DEF PutStore, cfVars
<1>5. ASSUME NEW a \in Admins, PutSync(a) PROVE ConfigTyped'
  <2>1. put[a] \in Snapshots
    BY <1>5, WriterFacts DEF PutSync
  <2>2. put[a].snapshot.threshold \in {1, 2}
    BY <2>1, SnapshotFacts DEF Configs
  <2> QED
    BY <1>5, <2>2 DEF PutSync, cfVars
<1>6. CASE TriggerRefresh
  BY <1>6 DEF TriggerRefresh, processVars
<1>7. CASE CooldownEnds
  BY <1>7 DEF CooldownEnds, processVars
<1>8. CASE TakeTrigger
  BY <1>8 DEF TakeTrigger, RefreshIfEnabled, processVars
<1>9. CASE IntervalEnds
  BY <1>9 DEF IntervalEnds, RefreshIfEnabled, processVars
<1>10. CASE SolveCFChallenge
  BY <1>10 DEF SolveCFChallenge, processVars
<1>11. CASE SolveFails
  BY <1>11 DEF SolveFails, processVars
<1>12. CASE UpdateCookies
  <2>1. [runtime EXCEPT !.cookies = "solved"] \in Configs
    BY DEF Configs
  <2> QED
    BY <1>12, <2>1 DEF UpdateCookies
<1>13. CASE SaveCookies
  <2>1. Storables(kvs')
    <3>1. CASE SetMany(Entry("cookies", "solved"))
      BY <1>13, <3>1, LoadedAfterSave DEF SaveCookies, Keys, Storable
    <3> QED
      BY <1>13, <3>1 DEF SaveCookies
  <2> QED
    BY <1>13, <2>1 DEF SaveCookies
<1>14. CASE SchedulerStops
  BY <1>14 DEF SchedulerStops, processVars
<1>15. CASE Shutdown
  BY <1>15 DEF Shutdown, cfVars
<1>16. CASE Exit \/ Crash
  BY <1>16 DEF Exit, Crash, Down
<1>17. ASSUME NEW c \in Configs, Up(c), UNCHANGED kvs, diverged' \in BOOLEAN,
              bootKey' \in Generated
       PROVE  ConfigTyped'
  BY <1>17 DEF Up, Configs
<1>18. CASE Start
  <2>1. PICK key \in Generated : bootKey' = key /\ Up(WithAdminKey(Overridden(File), key))
    BY <1>18 DEF Start
  <2>2. WithAdminKey(Overridden(File), key) \in Configs
    BY LoadedFacts DEF Overridden, OverFile, Value
  <2> QED
    BY <1>17, <1>18, <2>1, <2>2 DEF Start
<1>19. CASE StartWithoutRows
  <2>1. PICK key \in Generated : bootKey' = key /\ Up(WithAdminKey(File, key))
    BY <1>19 DEF StartWithoutRows
  <2>2. WithAdminKey(File, key) \in Configs
    BY ConfigFacts
  <2> QED
    BY <1>17, <1>19, <2>1, <2>2 DEF StartWithoutRows
<1>20. CASE StartFails
  BY <1>20 DEF StartFails, cfVars
<1> QED
  BY <1>1, <1>2, <1>3, <1>4, <1>5, <1>6, <1>7, <1>8, <1>9, <1>10, <1>11, <1>12, <1>13, <1>14,
     <1>15, <1>16, <1>18, <1>19, <1>20 DEF ConfigNext

(* A PUT keeps the agreement. *)
LEMMA PutAgrees ==
  ASSUME ConfigTyped, ConfigTyped', Agreement, ~diverged', NEW a \in Admins,
         \/ \E k \in Keys : \E v \in Settable[k] : PutTake(a, k, v)
         \/ PutSave(a) \/ PutSaveFails(a) \/ PutStore(a) \/ PutSync(a)
  PROVE  Agreement'
<1>0. put \in [Admins -> {NoPut} \cup Snapshots]
  BY DEF ConfigTyped
<1>1. ASSUME NEW k \in Keys, NEW v \in Settable[k], PutTake(a, k, v)
      PROVE  Agreement'
  <2> DEFINE w == [pc |-> "taken", snapshot |-> [runtime EXCEPT ![k] = v], update |-> Entry(k, v)]
  <2>1. Writing = {} /\ cf \notin {"solved", "updated"}
    BY <1>1 DEF PutTake, Busy
  <2>2. /\ put' = [put EXCEPT ![a] = w] /\ Writing' = {a}
        /\ UNCHANGED <<runtime, managed, bootKey, kvs, cf>> /\ put'[a] = w
    BY <1>0, <1>1, <2>1 DEF PutTake, Writing, processVars, cfVars, NoPut
  <2>3. runtime = Loaded /\ managed = runtime.threshold
    BY <2>1 DEF Agreement
  <2>4. Loaded' = Loaded
    BY <2>2, LoadedIs
  <2>5. /\ put'[a].pc = "taken" /\ put'[a].update = Entry(k, v)
        /\ put'[a].snapshot = [runtime' EXCEPT ![k] = v]
    <3>1. put'[a] = w /\ runtime' = runtime
      BY <2>2
    <3>2. w.pc = "taken" /\ w.update = Entry(k, v) /\ w.snapshot = [runtime EXCEPT ![k] = v]
      OBVIOUS
    <3> HIDE DEF w
    <3> QED
      BY <3>1, <3>2
  <2> HIDE DEF w
  <2>6. runtime' = Loaded' /\ managed' = runtime'.threshold /\ cf' \notin {"solved", "updated"}
    BY <2>1, <2>2, <2>3, <2>4
  <2>7. Writing' = {a}
    BY <2>2
  <2> QED
    BY <2>5, <2>6, <2>7 DEF Agreement
<1>2. ASSUME put[a].pc # "idle"
      PROVE  /\ put[a] \in Snapshots /\ Writing = {a} /\ cf \notin {"solved", "updated"}
             /\ put' = [put EXCEPT ![a] = NoPut] => Writing' = {}
             /\ \A pc \in {"taken", "saved", "stored"} : put' = [put EXCEPT ![a].pc = pc] =>
                  /\ Writing' = {a} /\ put'[a].pc = pc /\ put'[a].snapshot = put[a].snapshot
  <2>1. Writing = {a} /\ cf \notin {"solved", "updated"}
    BY <1>2 DEF Agreement, Writing
  <2>2. \A b \in Admins : b # a => put[b].pc = "idle"
    BY <2>1 DEF Writing
  <2>3. put[a] \in Snapshots
    BY <1>2, WriterFacts
  <2>4. put' = [put EXCEPT ![a] = NoPut] => Writing' = {}
    BY <1>0, <2>2 DEF Writing, NoPut
  <2>5. ASSUME NEW pc \in {"taken", "saved", "stored"}, put' = [put EXCEPT ![a].pc = pc]
        PROVE  Writing' = {a} /\ put'[a].pc = pc /\ put'[a].snapshot = put[a].snapshot
    <3>1. put'[a] = [put[a] EXCEPT !.pc = pc] /\ \A b \in Admins : b # a => put'[b] = put[b]
      BY <1>0, <2>5
    <3>2. put'[a].pc = pc /\ put'[a].snapshot = put[a].snapshot
      BY <2>3, <3>1, SnapshotFacts
    <3>3. \A b \in Admins : put'[b].pc # "idle" <=> b = a
      BY <2>2, <2>5, <3>1, <3>2
    <3> QED
      BY <3>2, <3>3 DEF Writing
  <2> QED
    BY <2>1, <2>3, <2>4, <2>5
<1>3. CASE PutSave(a)
  <2>1. PICK k \in Keys : \E v \in Settable[k] : /\ put[a].update = Entry(k, v)
                                              /\ put[a].snapshot = [runtime EXCEPT ![k] = v]
    BY <1>2, <1>3 DEF PutSave, Agreement
  <2>2. PICK v \in Settable[k] : /\ put[a].update = Entry(k, v)
                                 /\ put[a].snapshot = [runtime EXCEPT ![k] = v]
    BY <2>1
  <2>3. Loaded' = [Loaded EXCEPT ![k] = v]
    BY <1>3, <2>2, ConfigFacts, LoadedAfterSave DEF PutSave, ConfigTyped
  <2>4. runtime = Loaded /\ managed = runtime.threshold
    BY <1>2, <1>3 DEF PutSave, Agreement
  <2>5. put[a].snapshot = Loaded'
    BY <2>2, <2>3, <2>4
  <2> QED
    BY <1>2, <1>3, <2>5 DEF PutSave, Agreement, cfVars
<1>4. CASE PutSaveFails(a)
  <2>1. runtime = Loaded /\ managed = runtime.threshold
    BY <1>2, <1>4 DEF PutSaveFails, Agreement
  <2>2. UNCHANGED <<runtime, managed, bootKey, kvs, cf>> /\ Writing' = {}
    BY <1>2, <1>4 DEF PutSaveFails, processVars, cfVars
  <2>3. Loaded' = Loaded
    BY <2>2, LoadedIs
  <2> QED
    BY <1>2, <1>4, <2>1, <2>2, <2>3 DEF PutSaveFails, Agreement
<1>5. CASE PutStore(a)
  <2>1. Loaded' = Loaded
    BY <1>5, LoadedIs DEF PutStore
  <2> QED
    BY <1>2, <1>5, <2>1 DEF PutStore, Agreement, cfVars
<1>6. CASE PutSync(a)
  <2>1. Loaded' = Loaded
    BY <1>6, LoadedIs DEF PutSync
  <2> QED
    BY <1>2, <1>6, <2>1 DEF PutSync, Agreement, cfVars
<1> QED
  BY <1>1, <1>3, <1>4, <1>5, <1>6

(* Whatever moves neither a PUT nor the configuration keeps it, unless the *)
(* refresh gets an answer.                                                 *)
LEMMA StillAgrees ==
  ASSUME Agreement, UNCHANGED <<runtime, managed, bootKey, kvs, put>>,
         cf \notin {"solved", "updated"}, cf' \notin {"solved", "updated"}
  PROVE  Agreement'
<1>1. Loaded' = Loaded /\ Writing' = Writing
  BY LoadedIs DEF Writing
<1>2. runtime' = runtime /\ managed' = managed /\ put' = put
  OBVIOUS
<1>3. /\ cf # "updated" /\ cf' # "updated"
      /\ Writing # {} => cf' \notin {"solved", "updated"}
  OBVIOUS
<1>4. (\A a, b \in Writing' : a = b) /\ (Writing' # {} => cf' \notin {"solved", "updated"})
  BY <1>1, <1>3 DEF Agreement
<1>5. (\A a \in Writing' : put'[a].pc = "taken") => runtime' = Loaded' /\ managed' = runtime'.threshold
  BY <1>1, <1>2, <1>3 DEF Agreement
<1>6. ASSUME NEW a \in Writing'
      PROVE  /\ put'[a].pc = "taken" => \E k \in Keys : \E v \in Settable[k] :
                                         /\ put'[a].update = Entry(k, v)
                                         /\ put'[a].snapshot = [runtime' EXCEPT ![k] = v]
             /\ put'[a].pc = "saved" => put'[a].snapshot = Loaded'
             /\ put'[a].pc = "stored" => put'[a].snapshot = runtime' /\ runtime' = Loaded'
  <2>1. a \in Writing
    BY <1>1
  <2>2. /\ put[a].pc = "taken" => \E k \in Keys : \E v \in Settable[k] :
                                    /\ put[a].update = Entry(k, v)
                                    /\ put[a].snapshot = [runtime EXCEPT ![k] = v]
        /\ put[a].pc = "saved" => put[a].snapshot = Loaded
        /\ put[a].pc = "stored" => put[a].snapshot = runtime /\ runtime = Loaded
    BY <2>1 DEF Agreement
  <2> QED
    BY <1>1, <1>2, <2>2
<1> QED
  BY <1>3, <1>4, <1>5, <1>6 DEF Agreement

(* The Cloudflare refresh keeps the agreement, and so does the signal to   *)
(* stop.                                                                   *)
LEMMA RefreshAgrees ==
  ASSUME ConfigTyped, ConfigTyped', Agreement, ~diverged',
         \/ TriggerRefresh \/ CooldownEnds \/ TakeTrigger \/ IntervalEnds
         \/ SolveCFChallenge \/ SolveFails \/ UpdateCookies \/ SaveCookies \/ SchedulerStops
         \/ Shutdown
  PROVE  Agreement'
<1>1. ASSUME UNCHANGED <<runtime, managed, bootKey, kvs, put>>, cf' = cf PROVE Agreement'
  <2>1. Loaded' = Loaded /\ Writing' = Writing
    BY <1>1, LoadedIs DEF Writing
  <2> QED
    BY <1>1, <2>1 DEF Agreement
<1>2. CASE TriggerRefresh \/ CooldownEnds \/ Shutdown
  BY <1>1, <1>2 DEF TriggerRefresh, CooldownEnds, Shutdown, processVars, cfVars
<1>3. CASE TakeTrigger \/ IntervalEnds \/ SolveFails \/ SchedulerStops
  BY <1>3, StillAgrees
     DEF TakeTrigger, IntervalEnds, SolveFails, SchedulerStops, RefreshIfEnabled, processVars
<1>4. CASE SolveCFChallenge
  <2>1. Writing = {} /\ cf = "solving"
    BY <1>4 DEF SolveCFChallenge, Busy
  <2>2. UNCHANGED <<runtime, managed, bootKey, kvs, put>> /\ cf' = "solved" /\ Writing' = {}
    BY <1>4, <2>1 DEF SolveCFChallenge, processVars, Writing
  <2>3. Loaded' = Loaded
    BY <2>2, LoadedIs
  <2> QED
    BY <2>1, <2>2, <2>3 DEF Agreement
<1>5. CASE UpdateCookies
  <2>1. Writing = {} /\ runtime = Loaded /\ managed = runtime.threshold
    BY <1>5 DEF UpdateCookies, Agreement
  <2>2. /\ UNCHANGED <<managed, bootKey, kvs, put>> /\ cf' = "updated" /\ Writing' = {}
        /\ runtime' = [runtime EXCEPT !.cookies = "solved"]
    BY <1>5, <2>1 DEF UpdateCookies, Writing
  <2>3. Loaded' = Loaded
    BY <2>2, LoadedIs
  <2>4. runtime'.threshold = runtime.threshold
    BY <2>2 DEF ConfigTyped, Configs
  <2> QED
    BY <2>1, <2>2, <2>3, <2>4 DEF Agreement
<1>6. CASE SaveCookies
  <2>1. /\ Writing = {} /\ runtime = [Loaded EXCEPT !.cookies = "solved"]
        /\ managed = runtime.threshold
    BY <1>6 DEF SaveCookies, Agreement
  <2>2. /\ UNCHANGED <<runtime, managed, bootKey, put>> /\ cf' = "select" /\ Writing' = {}
        /\ SetMany(Entry("cookies", "solved"))
    BY <1>6, <2>1 DEF SaveCookies, Writing
  <2>3. Loaded' = [Loaded EXCEPT !["cookies"] = "solved"]
    BY <2>2, LoadedAfterSave DEF ConfigTyped, Keys, Storable
  <2>4. runtime' = Loaded'
    BY <2>1, <2>2, <2>3
  <2> QED
    BY <2>1, <2>2, <2>4 DEF Agreement
<1> QED
  BY <1>2, <1>3, <1>4, <1>5, <1>6

(* A start reads the rows. *)
LEMMA StartAgrees ==
  ASSUME Start
  PROVE  Agreement'
<1>1. PICK key \in Generated : bootKey' = key /\ Up(WithAdminKey(Overridden(File), key))
  BY DEF Start
<1>2. Loaded' = WithAdminKey(Overridden(File), key)
  BY <1>1, LoadedIs DEF Start, Overridden, OverFile, Value
<1>3. /\ runtime' = Loaded' /\ managed' = runtime'.threshold
      /\ Writing' = {} /\ cf' \notin {"solved", "updated"}
  BY <1>1, <1>2 DEF Up, Writing, NoPut
<1> QED
  BY <1>3 DEF Agreement

(* The configuration starts in the invariant. *)
LEMMA ConfigStarts ==
  ConfigInit => ConfigIInv
<1> SUFFICES ASSUME ConfigInit PROVE ConfigIInv
  OBVIOUS
<1>1. Storables(kvs)
  BY DEF ConfigInit, Storables
<1>2. runtime \in Configs /\ managed \in {1, 2}
  BY ConfigFacts DEF ConfigInit, File
<1>3. put \in [Admins -> {NoPut} \cup Snapshots]
  BY DEF ConfigInit
<1>4. InStep
  <2>1. Loaded = WithAdminKey(File, "none") /\ runtime = File /\ managed = File.threshold
    BY DEF ConfigInit, Loaded, Overridden, Value, File, Keys
  <2> QED
    BY <2>1 DEF InStep, WithAdminKey, File
<1> QED
  BY <1>1, <1>2, <1>3, <1>4 DEF ConfigInit, ConfigIInv, ConfigTyped, Alive

(* Only a stop or a crash takes a process down.                            *)
LEMMA DownOnlyByEnding ==
  ASSUME ConfigTyped, ConfigNext, phase' = "down"
  PROVE  Alive /\ Down
<1>1. Exit \/ Crash
  <2>1. ASSUME NEW a \in Admins,
               \/ \E k \in Keys : \E v \in Settable[k] : PutTake(a, k, v)
               \/ PutSave(a) \/ PutSaveFails(a) \/ PutStore(a) \/ PutSync(a)
        PROVE  FALSE
    BY <2>1 DEF PutTake, PutSave, PutSaveFails, PutStore, PutSync, Alive, processVars
  <2>2. ~(TriggerRefresh \/ CooldownEnds \/ TakeTrigger \/ IntervalEnds)
    BY DEF TriggerRefresh, CooldownEnds, TakeTrigger, IntervalEnds, Alive, processVars
  <2>3. ~(SolveCFChallenge \/ SolveFails \/ UpdateCookies \/ SaveCookies \/ SchedulerStops)
    BY DEF SolveCFChallenge, SolveFails, UpdateCookies, SaveCookies, SchedulerStops, Alive,
           processVars
  <2>4. ~(Shutdown \/ Start \/ StartWithoutRows \/ StartFails)
    BY DEF Shutdown, Start, StartWithoutRows, StartFails, Up
  <2> QED
    BY <2>1, <2>2, <2>3, <2>4 DEF ConfigNext
<1> QED
  BY <1>1 DEF Exit, Crash, Alive

(* Every step of the configuration and of the process keeps it. *)
LEMMA ConfigInductive ==
  ASSUME ConfigIInv, [ConfigNext]_configVars
  PROVE  ConfigIInv'
<1>1. CASE ConfigNext
  <2>1. ConfigTyped /\ ConfigTyped'
    BY <1>1, ConfigTypedKept DEF ConfigIInv
  <2>2. ASSUME Alive', ~diverged' PROVE Agreement'
    <3>1. CASE Exit \/ Crash \/ StartWithoutRows \/ StartFails
      BY <2>2, <3>1 DEF Exit, Crash, Down, StartWithoutRows, StartFails, Alive
    <3>2. CASE Start
      BY <3>2, StartAgrees
    <3>3. ASSUME NEW a \in Admins,
                 \/ \E k \in Keys : \E v \in Settable[k] : PutTake(a, k, v)
                 \/ PutSave(a) \/ PutSaveFails(a) \/ PutStore(a) \/ PutSync(a)
          PROVE  Agreement'
      <4>1. Alive /\ ~diverged
        BY <2>1, <2>2, <3>3 DEF ConfigTyped, PutTake, PutSave, PutSaveFails, PutStore, PutSync
      <4> QED
        BY <2>1, <2>2, <3>3, <4>1, PutAgrees DEF ConfigIInv
    <3>4. CASE \/ TriggerRefresh \/ CooldownEnds \/ TakeTrigger \/ IntervalEnds
               \/ SolveCFChallenge \/ SolveFails \/ UpdateCookies \/ SaveCookies
               \/ SchedulerStops \/ Shutdown
      <4>1. Alive /\ ~diverged
        BY <2>1, <2>2, <3>4
           DEF ConfigTyped, TriggerRefresh, CooldownEnds, TakeTrigger, IntervalEnds, SolveCFChallenge, SolveFails,
               UpdateCookies, SaveCookies, SchedulerStops, Shutdown, Alive
      <4> QED
        BY <2>1, <2>2, <3>4, <4>1, RefreshAgrees DEF ConfigIInv
    <3> QED
      BY <1>1, <3>1, <3>2, <3>3, <3>4 DEF ConfigNext
  <2>3. ASSUME phase' = "down", ~diverged' PROVE InStep'
    <3>1. Alive /\ Down
      BY <1>1, <2>1, <2>3, DownOnlyByEnding
    <3>2. UNCHANGED <<runtime, managed, bootKey, kvs>> /\ ~diverged /\ ~Halfway
      BY <2>1, <2>3, <3>1 DEF Down, ConfigTyped
    <3>3. Loaded' = Loaded
      BY <3>2, LoadedIs
    <3>4. cf # "updated" /\ \A a \in Writing : put[a].pc = "taken"
      BY <3>2 DEF Halfway
    <3>5. runtime = Loaded /\ managed = runtime.threshold
      BY <3>1, <3>2, <3>4 DEF ConfigIInv, Agreement
    <3> QED
      BY <3>2, <3>3, <3>5 DEF InStep
  <2> QED
    BY <2>1, <2>2, <2>3 DEF ConfigIInv
<1>2. CASE UNCHANGED configVars
  <2>1. UNCHANGED <<phase, runtime, managed, bootKey, kvs, put, cf, trigger, recent, diverged>>
    BY <1>2 DEF configVars, processVars, cfVars
  <2>2. Loaded' = Loaded /\ Writing' = Writing /\ Alive' = Alive
    BY <2>1, LoadedIs DEF Writing, Alive
  <2> QED
    BY <2>1, <2>2 DEF ConfigIInv, ConfigTyped, Agreement, InStep
<1> QED
  BY <1>1, <1>2

(* It implies the types and that no generated key is saved.                *)
LEMMA ConfigIInvImplied ==
  ASSUME ConfigIInv
  PROVE  ConfigTypeOK /\ BootstrapStaysInMemory
<1>1. ConfigTypeOK
  <2>1. \A a \in Admins : put[a].pc \in {"idle", "taken", "saved", "stored"}
    BY WriterFacts, SnapshotFacts DEF ConfigIInv
  <2> QED
    BY <2>1 DEF ConfigIInv, ConfigTyped, ConfigTypeOK, Storables
<1>2. BootstrapStaysInMemory
  BY RuntimeConfigAssumption
     DEF ConfigIInv, ConfigTyped, Storables, Storable, Settable, BootstrapStaysInMemory
<1> QED
  BY <1>1, <1>2

(* What a start may change, as a relation of two states.                   *)
SettingsKept ==
  phase = "down" /\ phase' # "down" /\ ~diverged /\ ~diverged' =>
    IF runtime.window = 0
    THEN phase' = "failed"
    ELSE /\ phase' = "running" /\ managed' = managed
         /\ \A k \in Keys \ {"app_key"} : runtime'[k] = runtime[k]
         /\ KeyAfterRestart(runtime.app_key, runtime'.app_key)

(* A process that is down can only be started.                             *)
LEMMA OnlyStarts ==
  ASSUME ConfigTyped, ConfigNext, phase = "down", ~diverged'
  PROVE  Start \/ StartFails
<1>1. ~Alive
  BY DEF Alive
<1>2. ASSUME NEW a \in Admins,
             \/ \E k \in Keys : \E v \in Settable[k] : PutTake(a, k, v)
             \/ PutSave(a) \/ PutSaveFails(a) \/ PutStore(a) \/ PutSync(a)
      PROVE  FALSE
  BY <1>1, <1>2 DEF PutTake, PutSave, PutSaveFails, PutStore, PutSync
<1>3. ~(TriggerRefresh \/ CooldownEnds \/ TakeTrigger \/ IntervalEnds)
  BY <1>1 DEF TriggerRefresh, CooldownEnds, TakeTrigger, IntervalEnds
<1>4. ~(SolveCFChallenge \/ SolveFails \/ UpdateCookies \/ SaveCookies \/ SchedulerStops)
  BY <1>1 DEF SolveCFChallenge, SolveFails, UpdateCookies, SaveCookies, SchedulerStops
<1>5. ~(Shutdown \/ Exit \/ Crash \/ StartWithoutRows)
  BY <1>1 DEF Shutdown, Exit, Crash, StartWithoutRows
<1> QED
  BY <1>2, <1>3, <1>4, <1>5 DEF ConfigNext

(* The rows decide alone whether a process starts, and with what.          *)
LEMMA StartKeepsSettings ==
  ASSUME ConfigIInv, ConfigNext
  PROVE  SettingsKept
<1> SUFFICES ASSUME phase = "down", phase' # "down", ~diverged, ~diverged'
             PROVE  IF runtime.window = 0
                    THEN phase' = "failed"
                    ELSE /\ phase' = "running" /\ managed' = managed
                         /\ \A k \in Keys \ {"app_key"} : runtime'[k] = runtime[k]
                         /\ KeyAfterRestart(runtime.app_key, runtime'.app_key)
  BY DEF SettingsKept
<1>1. /\ Storables(kvs) /\ bootKey \in {"none"} \cup Generated
      /\ runtime = WithAdminKey(OverFile(kvs), bootKey) /\ managed = runtime.threshold
      /\ runtime \in Configs
  BY LoadedIs DEF ConfigIInv, ConfigTyped, InStep
<1>2. /\ \A k \in Keys \ {"app_key"} : runtime[k] = IF k \in DOMAIN kvs THEN kvs[k] ELSE File[k]
      /\ runtime["app_key"] = IF "app_key" \in DOMAIN kvs THEN kvs["app_key"] ELSE bootKey
  BY <1>1, LoadedFacts
<1>3. Valid <=> runtime.window # 0
  <2>1. "window" \in Keys \ {"app_key"} /\ File["window"] = 1
    BY DEF Keys, File
  <2>2. "window" \in DOMAIN kvs => kvs["window"] \in {0, 1}
    BY <1>1 DEF Storables, Storable, Settable
  <2> QED
    BY <1>2, <2>1, <2>2 DEF Valid
<1>4. Start \/ StartFails
  BY OnlyStarts DEF ConfigIInv
<1>5. CASE StartFails
  BY <1>3, <1>5 DEF StartFails
<1>6. CASE Start
  <2>1. PICK key \in Generated \ {bootKey} :
          bootKey' = key /\ Up(WithAdminKey(Overridden(File), key))
    BY <1>6 DEF Start
  <2>0. key \in {"none"} \cup Generated
    BY <2>1
  <2> DEFINE c == WithAdminKey(OverFile(kvs), key)
  <2>2. phase' = "running" /\ runtime' = c /\ managed' = c.threshold
    BY <2>1 DEF Up, Overridden, OverFile, Value
  <2>3. /\ \A k \in Keys \ {"app_key"} : c[k] = IF k \in DOMAIN kvs THEN kvs[k] ELSE File[k]
        /\ c["app_key"] = IF "app_key" \in DOMAIN kvs THEN kvs["app_key"] ELSE key
    BY <1>1, <2>0, LoadedFacts
  <2> HIDE DEF c
  <2>4. \A k \in Keys \ {"app_key"} : runtime'[k] = runtime[k]
    BY <1>2, <2>2, <2>3
  <2>5. managed' = managed
    BY <1>1, <2>2, <2>4 DEF Keys
  <2>6. KeyAfterRestart(runtime["app_key"], runtime'["app_key"])
    <3>1. CASE "app_key" \in DOMAIN kvs
      <4>1. kvs["app_key"] = "own"
        BY <1>1, <3>1 DEF Storables, Storable, Settable
      <4> QED
        BY <1>2, <2>2, <2>3, <3>1, <4>1, RuntimeConfigAssumption DEF KeyAfterRestart
    <3>2. CASE "app_key" \notin DOMAIN kvs
      <4>1. runtime["app_key"] = bootKey /\ runtime'["app_key"] = key
        BY <1>2, <2>2, <2>3, <3>2
      <4> QED
        BY <1>1, <2>1, <4>1, RuntimeConfigAssumption DEF KeyAfterRestart
    <3> QED
      BY <3>1, <3>2
  <2> QED
    BY <1>3, <1>6, <2>2, <2>4, <2>5, <2>6 DEF Start
<1> QED
  BY <1>4, <1>5, <1>6

-----------------------------------------------------------------------------
(* The parts of the server together. *)
ServerIInv == LimitIInv /\ KeysIInv /\ SessionsIInv /\ ConfigIInv /\ UsageIInv

(* The keys do not look at the sessions. *)
LEMMA KeysStay ==
  ASSUME KeysIInv, UNCHANGED keyVars
  PROVE  KeysIInv'
BY DEF keyVars, KeysIInv

(* The sessions do not look at the keys. *)
LEMMA SessionsStay ==
  ASSUME SessionsIInv, UNCHANGED sessionVars
  PROVE  SessionsIInv'
BY DEF sessionVars, SessionsIInv, Expired

(* Every step of either keeps both invariants. *)
LEMMA CredentialsInductive ==
  ASSUME KeysIInv, SessionsIInv, KeysNext \/ SessionsNext \/ UNCHANGED credentialVars
  PROVE  KeysIInv' /\ SessionsIInv'
<1>1. CASE KeysNext
  <2>1. UNCHANGED sessionVars
    BY <1>1 DEF KeysNext, CreateKey, PatchRead, DeleteKey, ResetDailyUsage, KeysRestart, PatchSave,
       Regenerate, ServeMedia, IncrementFails, FailUpstream, Uncounted, Succeed, Authenticate
  <2> QED
    BY <1>1, <2>1, KeysInductive, SessionsStay
<1>2. CASE SessionsNext
  <2>1. UNCHANGED keyVars
    BY <1>2 DEF SessionsNext, PassTime, Login, Purge, SessionsRestart, Logout, Revoke, SetAppKey
  <2> QED
    BY <1>2, <2>1, SessionsInductive, KeysStay
<1>3. CASE UNCHANGED credentialVars
  BY <1>3, KeysInductive, SessionsInductive
<1> QED
  BY <1>1, <1>2, <1>3

(* Every part starts in its invariant. *)
LEMMA ServerStarts == Init => ServerIInv
BY LimitStarts, KeysStart, SessionsStart, ConfigStarts, UsageStarts DEF Init, ServerIInv

(* A step of one part keeps the invariants of all. *)
LEMMA ServerInductive ==
  ASSUME ServerIInv, [Next]_serverVars
  PROVE  ServerIInv'
<1>1. [LimitNext]_limitVars
  BY DEF Next, serverVars
<1>2. KeysNext \/ SessionsNext \/ UNCHANGED credentialVars
  BY DEF Next, serverVars
<1>3. [ConfigNext]_configVars
  BY DEF Next, serverVars
<1>4. [UsageNext]_usageVars
  BY DEF Next, serverVars
<1> QED
  BY <1>1, <1>2, <1>3, <1>4, LimitInductive, CredentialsInductive, ConfigInductive, UsageInductive
     DEF ServerIInv

(* The inductive invariant of the server always holds. *)
LEMMA ServerAlways == Spec => []ServerIInv
BY ServerStarts, ServerInductive, PTL DEF Spec

(* Types, a bootstrap key that is never saved (admin_bootstrap.go), a      *)
(* usage log in the order of its requests, and sessions that stay logged   *)
(* out (admin_session.go), for every number of requests, callers, keys and *)
(* settings.                                                               *)
THEOREM ServerInvariant == Spec => []ServerInv
<1>1. ServerIInv => ServerInv
  BY LimitIInvImplied, CredentialsTyped, ConfigIInvImplied, UsageInvImplied, SessionsInvImplied
     DEF ServerIInv, ServerInv
<1> QED
  BY <1>1, ServerAlways, PTL

(* The limits of middleware.go hold in every window up to the requests in  *)
(* progress, for every limit, window and number of requests, as long as no *)
(* clearing or removal of an entry comes under a request that loaded it.   *)
THEOREM WindowAlwaysHolds == Spec => []WindowHolds
<1>1. ServerIInv => WindowHolds
  BY LimitIInvImplied DEF ServerIInv
<1> QED
  BY <1>1, ServerAlways, PTL

(* APIKeyAuth refuses a key early only between the begin of a window and   *)
(* the clearing of its count.                                              *)
THEOREM NeverRefusedEarly == Spec => NoEarlyRefusal
<1>1. ServerIInv /\ [Next]_serverVars
        => [\A p \in Requests :
              (slot[p].pc = "add" /\ slot'[p].pc = "idle" /\ gate = "apikey" /\ entry' # << >>)
                => \/ admitted[slot[p].ent] >= RateLimit
                   \/ \E q \in Requests : slot[q].pc = "reset" /\ slot[q].ent = slot[p].ent]_limitVars
  <2> SUFFICES ASSUME ServerIInv, [Next]_serverVars, NEW p \in Requests,
                      slot[p].pc = "add", slot'[p].pc = "idle", gate = "apikey", entry' # << >>
               PROVE  \/ admitted[slot[p].ent] >= RateLimit
                      \/ \E q \in Requests : slot[q].pc = "reset" /\ slot[q].ent = slot[p].ent
    OBVIOUS
  <2>1. [LimitNext]_limitVars
    BY DEF Next, serverVars
  <2> QED
    BY <2>1, RefusedInTime DEF ServerIInv
<1> QED
  BY <1>1, ServerAlways, PTL DEF Spec, NoEarlyRefusal

(* No use that IncrementUsage counted is lost to a daily reset, a new      *)
(* secret, a deletion or a restart, and a day's counted uses go over the   *)
(* daily limit by the requests in progress at most, for every limit and    *)
(* number of callers, unless a PATCH saves a row that has changed.         *)
THEOREM CountedUsesAlwaysStay == Spec => []CountedUsesStay
<1>1. ServerIInv => CountedUsesStay
  BY KeysInvImplied DEF ServerIInv
<1> QED
  BY <1>1, ServerAlways, PTL

(* A process that ended between no two steps of a writer comes up with the *)
(* settings that were in use, and a new generated key if it needs one, or  *)
(* not at all if the window in use was 0, for every number of PUTs and     *)
(* administrators.                                                         *)
THEOREM RestartAlwaysKeeps == Spec => RestartKeepsSettings
<1>1. ServerIInv /\ [Next]_serverVars => [SettingsKept]_configVars
  <2> SUFFICES ASSUME ServerIInv, [Next]_serverVars PROVE [SettingsKept]_configVars
    OBVIOUS
  <2>1. [ConfigNext]_configVars
    BY DEF Next, serverVars
  <2> QED
    BY <2>1, StartKeepsSettings DEF ServerIInv
<1>2. Spec => [][SettingsKept]_configVars
  BY <1>1, ServerAlways, PTL DEF Spec
<1> QED
  BY <1>2 DEF RestartKeepsSettings, SettingsKept

(* The usage buffer gives up a record only when it is full, and never one  *)
(* that is newer than one it keeps.                                        *)
THEOREM DropsOnlyOldest == Spec => OnlyOldestDropped
<1>1. ServerIInv /\ [Next]_serverVars
        => [\A r \in Elements(Everywhere) \ Elements(Everywhere') :
              Len(buf') = MaxUsageBuffer /\ \A i \in DOMAIN buf' : buf'[i] > r]_usageVars
  <2> SUFFICES ASSUME ServerIInv, [Next]_serverVars, ~UNCHANGED usageVars,
                      NEW r \in Elements(Everywhere) \ Elements(Everywhere')
               PROVE  Len(buf') = MaxUsageBuffer /\ \A i \in DOMAIN buf' : buf'[i] > r
    OBVIOUS
  <2>1. UsageNext
    BY DEF Next, serverVars
  <2> QED
    BY <2>1, DropsOldest DEF ServerIInv
<1> QED
  BY <1>1, ServerAlways, PTL DEF Spec, OnlyOldestDropped
=============================================================================
