-------------------------- MODULE CycleDeliveryProofs --------------------------
(***************************************************************************)
(* Proofs about CycleDelivery, for every bound and every buffer size:      *)
(* a cycle is filed at most once and travels unmarked once per life, and an*)
(* answer puts the counter right, whatever happens to messages and files;  *)
(* while the files work nothing is lost, live cycles are in order, and     *)
(* CycleLedger is implemented.                                             *)
(***************************************************************************)
EXTENDS CycleDelivery, FiniteSetTheorems, NaturalsInduction, WellFoundedInduction, TLAPS

(* Every copy of a cycle, wherever it is. *)
Copies == buf \cup disk.cycles \cup UNION {b.cycles : b \in flying}

(* No two copies of one cycle in one place. *)
OneCopy(cycles) == \A c, d \in cycles : c.id = d.id => c = d

KnownCopies == \A c \in Copies : c.id \in 1..made /\ (c.id \in Filed => c.seq <= srvAck)
AgreedSeqs  == \A c, d \in Copies : c.id = d.id => c.seq = d.seq
Placed      == OneCopy(buf) /\ OneCopy(disk.cycles) /\ \A b \in flying : OneCopy(b.cycles)
Ahead       == /\ \A c \in buf : c.seq < nextSeq
               /\ \A c \in disk.cycles : c.seq < disk.next
HasNewest   == \A b \in flying : \E o \in b.cycles : \A c \in b.cycles : c.seq <= o.seq

(* The inductive invariant: FiledOnce alone is not, for it does not say that a *)
(* cycle with a seq above last_ack_seq was not filed.                          *)
IInv == /\ TypeOK
        /\ KnownCopies /\ AgreedSeqs /\ Placed /\ Ahead /\ HasNewest
        /\ Filed \subseteq 1..made
        /\ FiledOnce

-----------------------------------------------------------------------------
(* Every non-empty set of naturals has a least element. *)
LEMMA LeastNatural ==
    ASSUME NEW T \in SUBSET Nat, T # {}
    PROVE  \E x \in T : \A y \in T : x <= y
<1>1. PICK x \in T : \A y \in T : <<y, x>> \notin OpToRel(<, Nat)
  BY NatLessThanWellFounded, WFMin
<1>2. \A y \in T : ~(y < x)
  BY <1>1, Zenon DEF OpToRel
<1> QED BY <1>2

(* Trim keeps the cycle that was just added: it is never the oldest of two. *)
LEMMA TrimKeepsNew ==
    ASSUME NEW cycles \in SUBSET Cycle, NEW new \in Cycle,
           \A c \in cycles : c.id < new.id
    PROVE  /\ new \in Trim(cycles \cup {new})
           /\ Trim(cycles \cup {new}) \subseteq cycles \cup {new}
<1> DEFINE all == cycles \cup {new}
<1>1. CASE Cardinality(all) > MaxCycles
  <2>1. PICK d \in cycles : TRUE
    <3>1. SUFFICES ASSUME cycles = {} PROVE FALSE
      OBVIOUS
    <3>2. all = {new}
      BY <3>1
    <3>3. Cardinality(all) = 1
      BY <3>2, FS_Singleton
    <3> QED BY <1>1, <3>3, DeliveryAssumption
  <2>2. \E o \in all : \A c \in all : o.id <= c.id
    <3>1. {c.id : c \in all} \in SUBSET Nat /\ {c.id : c \in all} # {}
      BY DEF Cycle
    <3>2. PICK i \in {c.id : c \in all} : \A j \in {c.id : c \in all} : i <= j
      BY <3>1, LeastNatural
    <3> QED BY <3>2
  <2>3. Oldest(all) \in all /\ \A c \in all : Oldest(all).id <= c.id
    BY <2>2 DEF Oldest
  <2>4. Oldest(all).id <= d.id /\ d.id < new.id /\ d.id \in Nat /\ new.id \in Nat
        /\ Oldest(all).id \in Nat
    BY <2>1, <2>3 DEF Cycle
  <2>5. Oldest(all) # new
    BY <2>4
  <2> QED BY <1>1, <2>5 DEF Trim
<1>2. CASE ~(Cardinality(all) > MaxCycles)
  BY <1>2 DEF Trim
<1> QED BY <1>1, <1>2

(* Every non-empty set of naturals with a bound has a greatest element. *)
LEMMA GreatestNatural ==
    ASSUME NEW T \in SUBSET Nat, T # {}, NEW n \in Nat, \A y \in T : y <= n
    PROVE  \E x \in T : \A y \in T : y <= x
<1> DEFINE Bounds == {u \in Nat : \A y \in T : y <= u}
<1>1. Bounds \in SUBSET Nat /\ Bounds # {}
  OBVIOUS
<1>2. PICK u \in Bounds : \A v \in Bounds : u <= v
  BY <1>1, LeastNatural
<1>3. SUFFICES ASSUME u \notin T PROVE FALSE
  BY <1>2
<1>4. \A y \in T : y <= u - 1
  BY <1>2, <1>3
<1>5. PICK y \in T : TRUE
  OBVIOUS
<1>6. u - 1 \in Nat /\ u - 1 < u
  BY <1>4, <1>5
<1>7. u - 1 \in Bounds
  BY <1>4, <1>6
<1> QED BY <1>2, <1>6, <1>7

(* A beat's newest seq is at least every seq in it. *)
LEMMA NewestSeqIsNewest ==
    ASSUME NEW cycles \in SUBSET Cycle, \E o \in cycles : \A c \in cycles : c.seq <= o.seq
    PROVE  NewestSeq(cycles) \in Nat /\ \A c \in cycles : c.seq <= NewestSeq(cycles)
BY DEF NewestSeq, Cycle

LEMMA LargerBounds ==
    ASSUME NEW a \in Nat, NEW b \in Nat
    PROVE  Larger(a, b) \in Nat /\ a <= Larger(a, b) /\ b <= Larger(a, b)
BY DEF Larger

(* The counter read from a file that is ahead of its cycles is taken as it is. *)
LEMMA ReopenedIsNext ==
    ASSUME NEW file \in [next : Nat, cycles : SUBSET Cycle],
           \A c \in file.cycles : c.seq < file.next
    PROVE  Reopened(file) = file.next
<1>1. {c \in file.cycles : c.seq >= file.next} = {}
  BY DEF Cycle
<1> QED BY <1>1 DEF Reopened

(* A step that makes no cycle and files none: the copies it leaves were there. *)
LEMMA NothingNew ==
    ASSUME IInv, UNCHANGED <<server, made>>,
           \A c \in Copies' : \E d \in Copies : d.id = c.id /\ d.seq = c.seq
    PROVE  (KnownCopies /\ AgreedSeqs /\ Filed \subseteq 1..made /\ FiledOnce)'
<1>1. KnownCopies' /\ (Filed \subseteq 1..made)' /\ FiledOnce'
  BY DEF IInv, KnownCopies, Filed, FiledOnce, server
<1>2. AgreedSeqs'
  <2>1. SUFFICES ASSUME NEW c \in Copies', NEW d \in Copies', c.id = d.id
                 PROVE  c.seq = d.seq
    BY DEF AgreedSeqs
  <2>2. PICK c0 \in Copies : c0.id = c.id /\ c0.seq = c.seq
    OBVIOUS
  <2>3. PICK d0 \in Copies : d0.id = d.id /\ d0.seq = d.seq
    OBVIOUS
  <2> QED BY <2>1, <2>2, <2>3 DEF IInv, AgreedSeqs
<1> QED BY <1>1, <1>2

-----------------------------------------------------------------------------
(* Each action keeps the invariant. *)

LEMMA InitKeeps == Init => IInv
<1> SUFFICES ASSUME Init PROVE IInv
  OBVIOUS
<1>1. TypeOK
  BY DEF Init, TypeOK, Cycle, Beat, NoAnswer
<1>2. Copies = {}
  BY DEF Init, Copies
<1> QED BY <1>1, <1>2 DEF Init, IInv, KnownCopies, AgreedSeqs, Placed, OneCopy, Ahead,
      HasNewest, Filed, FiledOnce

LEMMA ProbeKeeps == IInv /\ Probe => IInv'
<1> SUFFICES ASSUME IInv, Probe PROVE IInv'
  OBVIOUS
<1> DEFINE new  == [id |-> made + 1, seq |-> nextSeq, unv |-> FALSE]
           kept == Trim(buf \cup {new})
           beat == [own |-> new.id, life |-> restarts, cycles |-> kept]
<1>1. new \in Cycle /\ new.id = made + 1 /\ new.seq = nextSeq
  BY DEF IInv, TypeOK, Cycle
<1>2. \A c \in buf : c.id < new.id /\ c.seq < new.seq
  BY <1>1 DEF IInv, TypeOK, KnownCopies, Copies, Ahead, Cycle
<1>3. new \in kept /\ kept \subseteq buf \cup {new} /\ kept \subseteq Cycle
  <2>1. buf \in SUBSET Cycle /\ \A c \in buf : c.id < new.id
    BY <1>2 DEF IInv, TypeOK
  <2> HIDE DEF new
  <2>2. new \in kept /\ kept \subseteq buf \cup {new}
    BY <1>1, <2>1, TrimKeepsNew
  <2> QED BY <1>1, <2>1, <2>2
<1> HIDE DEF new, kept
<1>4. /\ made' = made + 1 /\ nextSeq' = nextSeq + 1 /\ buf' = kept
      /\ disk' = [next |-> nextSeq + 1, cycles |-> kept] \/ disk' = disk
      /\ flying' = flying \cup {beat}
      /\ phase' = "sent" /\ evicted' = evicted \cup (Ids(buf \cup {new}) \ Ids(kept))
      /\ UNCHANGED <<lastAck, diskAck, restarts, heard, answer, server>>
  BY DEF Probe, Save, new, kept
<1>5. beat.cycles = kept
  OBVIOUS
<1>6. Copies' \subseteq Copies \cup {new}
  BY <1>3, <1>4 DEF Copies
<1>7. TypeOK'
  <2>1. beat \in Beat
    BY <1>1, <1>3 DEF Beat, IInv, TypeOK
  <2>2. evicted' \subseteq Nat
    BY <1>1, <1>4 DEF IInv, TypeOK, Ids, Cycle
  <2>3. buf' \subseteq Cycle /\ disk' \in [next : Nat, cycles : SUBSET Cycle] /\ flying' \subseteq Beat
    BY <1>3, <1>4, <2>1 DEF IInv, TypeOK
  <2>4. phase' = "sent" /\ nextSeq' \in Nat /\ made' \in Nat
    BY <1>4 DEF IInv, TypeOK, Probe
  <2> QED BY <1>4, <2>2, <2>3, <2>4 DEF IInv, TypeOK, server
<1>8. Filed' = Filed /\ srvAck' = srvAck /\ made \in Nat /\ made' = made + 1
  BY <1>4 DEF Filed, server, IInv, TypeOK
<1>9. new.id \notin Filed /\ \A c \in Copies : c.id # new.id
  BY <1>1, <1>8 DEF IInv, KnownCopies
<1>10. KnownCopies'
  BY <1>1, <1>6, <1>8, <1>9 DEF IInv, KnownCopies
<1>11. AgreedSeqs'
  BY <1>6, <1>9 DEF IInv, AgreedSeqs
<1>12. OneCopy(kept)
  BY <1>2, <1>3, <1>9 DEF IInv, Placed, OneCopy, Copies
<1>13. Placed'
  BY <1>4, <1>5, <1>12 DEF IInv, Placed
<1>14. \A c \in kept : c.seq <= new.seq /\ c.seq < nextSeq + 1
  BY <1>1, <1>2, <1>3 DEF Cycle
<1>15. Ahead'
  BY <1>4, <1>14 DEF IInv, Ahead
<1>16. HasNewest'
  BY <1>3, <1>4, <1>5, <1>14 DEF IInv, HasNewest
<1>17. (Filed \subseteq 1..made)' /\ FiledOnce'
  BY <1>4, <1>8 DEF IInv, FiledOnce, server
<1> QED BY <1>7, <1>10, <1>11, <1>13, <1>15, <1>16, <1>17 DEF IInv

LEMMA GiveUpKeeps == IInv /\ GiveUp => IInv'
<1> SUFFICES ASSUME IInv, GiveUp PROVE IInv'
  OBVIOUS
<1> DEFINE Mark(c) == [c EXCEPT !.unv = TRUE]
           marked  == {Mark(c) : c \in buf}
<1>1. \A c \in Cycle : Mark(c) \in Cycle /\ Mark(c).id = c.id /\ Mark(c).seq = c.seq
                       /\ Mark(c).unv = TRUE
  BY DEF Cycle
<1>2. \A c, d \in Cycle : Mark(c).id = Mark(d).id /\ c.seq = d.seq => Mark(c) = Mark(d)
  BY DEF Cycle
<1>3. /\ buf' = marked
      /\ disk' = [next |-> nextSeq, cycles |-> marked] \/ disk' = disk
      /\ phase' = "idle" /\ answer' = NoAnswer /\ heard' \in {"no", heard}
      /\ UNCHANGED <<nextSeq, lastAck, diskAck, restarts, flying, server, made, evicted>>
  BY DEF GiveUp, Save, Marked
<1> HIDE DEF Mark
<1>4. marked \subseteq Cycle
  BY <1>1 DEF IInv, TypeOK
<1>5. \A c \in marked : \E d \in buf : d.id = c.id /\ d.seq = c.seq
  BY <1>1 DEF IInv, TypeOK
<1>6. OneCopy(marked)
  BY <1>1, <1>2 DEF IInv, TypeOK, Placed, OneCopy
<1> HIDE DEF marked
<1>7. TypeOK'
  BY <1>3, <1>4 DEF IInv, TypeOK, server
<1>8. \A c \in Copies' : \E d \in Copies : d.id = c.id /\ d.seq = c.seq
  BY <1>3, <1>5 DEF Copies
<1>9. Placed'
  BY <1>3, <1>6 DEF IInv, Placed
<1>10. Ahead'
  BY <1>3, <1>5 DEF IInv, Ahead
<1>11. HasNewest'
  BY <1>3 DEF IInv, HasNewest
<1>12. (KnownCopies /\ AgreedSeqs /\ Filed \subseteq 1..made /\ FiledOnce)'
  BY <1>3, <1>8, NothingNew
<1> QED BY <1>7, <1>9, <1>10, <1>11, <1>12 DEF IInv

LEMMA AckedKeeps == IInv /\ Acked => IInv'
<1> SUFFICES ASSUME IInv, Acked PROVE IInv'
  OBVIOUS
<1> DEFINE kept == {c \in buf : c.seq > answer}
           next == ContinueAfter(nextSeq, answer)
<1>1. kept \subseteq buf /\ next \in Nat /\ next >= nextSeq
  BY DEF IInv, TypeOK, Acked, ContinueAfter, Larger
<1>2. /\ buf' = kept /\ nextSeq' = next
      /\ disk' = [next |-> next, cycles |-> kept] \/ disk' = disk
      /\ phase' = "acked" /\ answer # NoAnswer /\ heard' \in {"yes", heard}
      /\ UNCHANGED <<lastAck, diskAck, restarts, flying, answer, server, made, evicted>>
  BY DEF Acked, Save
<1> HIDE DEF kept, next
<1>3. TypeOK'
  BY <1>1, <1>2 DEF IInv, TypeOK, server
<1>4. \A c \in Copies' : \E d \in Copies : d.id = c.id /\ d.seq = c.seq
  BY <1>1, <1>2 DEF Copies
<1>5. Placed'
  BY <1>1, <1>2 DEF IInv, Placed, OneCopy
<1>6. \A c \in kept : c.seq < next
  BY <1>1 DEF IInv, TypeOK, Ahead, Cycle
<1>7. Ahead'
  BY <1>2, <1>6 DEF IInv, Ahead
<1>8. HasNewest'
  BY <1>2 DEF IInv, HasNewest
<1>9. (KnownCopies /\ AgreedSeqs /\ Filed \subseteq 1..made /\ FiledOnce)'
  BY <1>2, <1>4, NothingNew
<1> QED BY <1>3, <1>5, <1>7, <1>8, <1>9 DEF IInv

LEMMA RememberAckKeeps == IInv /\ RememberAck => IInv'
<1> SUFFICES ASSUME IInv, RememberAck PROVE IInv'
  OBVIOUS
<1>1. /\ phase' = "idle" /\ answer' = NoAnswer
      /\ lastAck' \in Nat /\ diskAck' \in Nat
      /\ UNCHANGED <<buf, nextSeq, disk, restarts, heard, flying, server, made, evicted>>
  BY DEF IInv, TypeOK, RememberAck, NoAnswer
<1>2. TypeOK'
  BY <1>1 DEF IInv, TypeOK, server
<1>3. Copies' = Copies
  BY <1>1 DEF Copies
<1>4. (KnownCopies /\ AgreedSeqs /\ Filed \subseteq 1..made /\ FiledOnce)'
  BY <1>1, <1>3, NothingNew
<1> QED BY <1>1, <1>2, <1>4 DEF IInv, Placed, Ahead, HasNewest

LEMMA RestartKeeps == IInv /\ Restart => IInv'
<1> SUFFICES ASSUME IInv, Restart PROVE IInv'
  OBVIOUS
<1>1. /\ disk' = disk \/ disk' = [next |-> 1, cycles |-> {}]
      /\ phase' = "idle" /\ answer' = NoAnswer /\ heard' = "no"
      /\ restarts' = restarts + 1 /\ buf' = disk'.cycles /\ lastAck' = diskAck
      /\ nextSeq' = ContinueAfter(Reopened(disk'), diskAck)
      /\ UNCHANGED <<diskAck, flying, server, made, evicted>>
  BY DEF Restart
<1>2. /\ disk' \in [next : Nat, cycles : SUBSET Cycle]
      /\ \A c \in disk'.cycles : c.seq < disk'.next
      /\ disk'.cycles \subseteq disk.cycles
  BY <1>1 DEF IInv, TypeOK, Ahead
<1>3. Reopened(disk') = disk'.next
  BY <1>2, ReopenedIsNext
<1>4. nextSeq' \in Nat /\ nextSeq' >= disk'.next
  BY <1>1, <1>2, <1>3 DEF ContinueAfter, Larger, IInv, TypeOK
<1>5. TypeOK'
  BY <1>1, <1>2, <1>4 DEF IInv, TypeOK, server
<1>6. Copies' \subseteq Copies
  BY <1>1, <1>2 DEF Copies
<1>7. Placed'
  BY <1>1, <1>2 DEF IInv, Placed, OneCopy
<1>8. Ahead'
  BY <1>1, <1>2, <1>4 DEF Ahead, Cycle
<1>9. HasNewest'
  BY <1>1 DEF IInv, HasNewest
<1>10. (KnownCopies /\ AgreedSeqs /\ Filed \subseteq 1..made /\ FiledOnce)'
  BY <1>1, <1>6, NothingNew
<1> QED BY <1>5, <1>7, <1>8, <1>9, <1>10 DEF IInv

LEMMA LoseKeeps ==
    ASSUME NEW beat \in flying, IInv, Lose(beat)
    PROVE  IInv'
<1>1. /\ flying' \subseteq flying
      /\ UNCHANGED <<client, files, restarts, heard, answer, server, made, evicted>>
  BY DEF Lose
<1>2. TypeOK'
  BY <1>1 DEF IInv, TypeOK, client, files, server
<1>3. Copies' \subseteq Copies
  BY <1>1 DEF Copies, client, files
<1>4. (KnownCopies /\ AgreedSeqs /\ Filed \subseteq 1..made /\ FiledOnce)'
  BY <1>1, <1>3, NothingNew
<1>5. (Placed /\ Ahead /\ HasNewest)'
  BY <1>1 DEF IInv, Placed, Ahead, HasNewest, client, files
<1> QED BY <1>2, <1>4, <1>5 DEF IInv

LEMMA ReceiveKeeps ==
    ASSUME NEW beat \in flying, IInv, Receive(beat)
    PROVE  IInv'
<1> DEFINE ack      == Larger(srvAck, NewestSeq(beat.cycles))
           new      == {c \in beat.cycles : c.seq > srvAck}
           verified == {c \in new : ~c.unv}
           seqs     == {c.seq : c \in verified}
<1>1. beat \in Beat /\ beat.cycles \subseteq Cycle /\ beat.cycles \subseteq Copies
  BY DEF IInv, TypeOK, Beat, Copies
<1>2. ack \in Nat /\ srvAck <= ack /\ \A c \in beat.cycles : c.seq <= ack
  <2>1. /\ NewestSeq(beat.cycles) \in Nat
        /\ \A c \in beat.cycles : c.seq <= NewestSeq(beat.cycles)
    BY <1>1, NewestSeqIsNewest DEF IInv, HasNewest
  <2>2. srvAck \in Nat
    BY DEF IInv, TypeOK
  <2>3. ack \in Nat /\ srvAck <= ack /\ NewestSeq(beat.cycles) <= ack
    BY <2>1, <2>2, LargerBounds
  <2>4. ASSUME NEW c \in beat.cycles PROVE c.seq <= ack
    <3>1. c.seq \in Nat /\ c.seq <= NewestSeq(beat.cycles)
      BY <1>1, <2>1 DEF Cycle
    <3> HIDE DEF ack
    <3> QED BY <2>1, <2>3, <3>1
  <2> QED BY <2>3, <2>4
<1>3. verified = {} \/ \E v \in verified : \A d \in verified : d.seq <= v.seq
  <2>1. SUFFICES ASSUME verified # {} PROVE \E v \in verified : \A d \in verified : d.seq <= v.seq
    OBVIOUS
  <2>2. seqs \in SUBSET Nat /\ seqs # {} /\ \A s \in seqs : s <= ack
    BY <1>1, <1>2, <2>1 DEF Cycle
  <2>3. PICK s \in seqs : \A t \in seqs : t <= s
    BY <1>2, <2>2, GreatestNatural
  <2> QED BY <2>3
<1>4. /\ flying' = flying \ {beat} /\ srvAck' = ack
      /\ full' = full \cup Ids(verified) /\ part' = part \cup Ids(new \ verified)
      /\ twice' = twice \cup (Ids(new) \cap Filed)
      /\ answer' \in {answer, ack} /\ heard' \in {"no", "coming", heard}
      /\ UNCHANGED <<client, files, restarts, made, evicted>>
  BY DEF Receive
<1>5. live' \in Nat
  BY <1>1, <1>3 DEF Receive, LiveCycle, IInv, TypeOK, Cycle
<1>6. /\ new \subseteq Copies /\ new \subseteq Cycle /\ verified \subseteq new
      /\ \A c \in new : c.seq > srvAck /\ c.seq <= ack
  BY <1>1, <1>2
<1>7. OneCopy(new)
  BY DEF IInv, Placed, OneCopy
<1>8. \A c \in verified : \A d \in new \ verified : c # d
  OBVIOUS
<1> HIDE DEF ack, new, verified
<1>9. Ids(new) \subseteq 1..made /\ Ids(new) \cap Filed = {}
  BY <1>6 DEF Ids, IInv, TypeOK, KnownCopies, Cycle
<1>10. Ids(verified) \cap Ids(new \ verified) = {}
  BY <1>6, <1>7, <1>8 DEF Ids, OneCopy
<1>11. Ids(verified) \cup Ids(new \ verified) = Ids(new)
  BY <1>6 DEF Ids
<1>12. Filed' = Filed \cup Ids(new) /\ made' = made
  BY <1>4, <1>11 DEF Filed
<1>20. phase' = phase /\ (answer # NoAnswer => answer' # NoAnswer)
  BY <1>2, <1>4 DEF client, NoAnswer, IInv, TypeOK
<1>13. TypeOK'
  <2>1. Ids(verified) \subseteq Nat /\ Ids(new \ verified) \subseteq Nat /\ Ids(new) \subseteq Nat
    BY <1>9, <1>11 DEF IInv, TypeOK
  <2>2. full' \subseteq Nat /\ part' \subseteq Nat /\ twice' \subseteq Nat
    BY <1>4, <2>1 DEF IInv, TypeOK
  <2>3. flying' \subseteq Beat /\ answer' \in Nat \cup {NoAnswer} /\ srvAck' \in Nat
    BY <1>2, <1>4 DEF IInv, TypeOK
  <2> QED BY <1>4, <1>5, <1>20, <2>2, <2>3 DEF IInv, TypeOK, client, files
<1>14. Copies' \subseteq Copies
  BY <1>4 DEF Copies, client, files
<1>15. KnownCopies'
  <2>1. SUFFICES ASSUME NEW c \in Copies' PROVE c.id \in 1..made /\ (c.id \in Filed' => c.seq <= ack)
    BY <1>4, <1>12 DEF KnownCopies
  <2>2. c \in Copies /\ c \in Cycle
    BY <1>14 DEF IInv, TypeOK, Copies, Beat
  <2>3. CASE c.id \in Filed
    BY <1>2, <2>2, <2>3 DEF IInv, TypeOK, KnownCopies, Cycle
  <2>4. CASE c.id \in Ids(new)
    <3>1. PICK d \in new : d.id = c.id
      BY <2>4 DEF Ids
    <3> QED BY <1>6, <2>2, <3>1 DEF IInv, AgreedSeqs, KnownCopies
  <2> QED BY <1>12, <2>2, <2>3, <2>4 DEF IInv, KnownCopies
<1>16. AgreedSeqs'
  BY <1>14 DEF IInv, AgreedSeqs
<1>17. (Placed /\ Ahead /\ HasNewest)'
  BY <1>4 DEF IInv, Placed, Ahead, HasNewest, client, files
<1>18. (Filed \subseteq 1..made)'
  BY <1>9, <1>12 DEF IInv
<1>19. FiledOnce'
  BY <1>4, <1>9, <1>10, <1>11 DEF IInv, FiledOnce, Filed
<1> QED BY <1>13, <1>15, <1>16, <1>17, <1>18, <1>19 DEF IInv

LEMMA StutterKeeps == IInv /\ UNCHANGED vars => IInv'
BY DEF IInv, TypeOK, KnownCopies, AgreedSeqs, Copies, Placed, Ahead, HasNewest, Filed,
       FiledOnce, vars, client, files, server

LEMMA Inductive == IInv /\ [Next]_vars => IInv'
BY ProbeKeeps, GiveUpKeeps, AckedKeeps, RememberAckKeeps, RestartKeeps, LoseKeeps,
   ReceiveKeeps, StutterKeeps DEF Next, Spent

(* The variables keep their types, with every bound and any failing disk. *)
THEOREM TypeCorrect == Spec => []TypeOK
<1>1. IInv => TypeOK
  BY DEF IInv
<1> QED BY <1>1, InitKeeps, Inductive, PTL DEF Spec

(* mon-server files no cycle twice, for every buffer size, number of restarts  *)
(* and of heartbeats in flight, and whatever fails (Engine.Heartbeat's filter, *)
(* Buffer's seq counter).                                                      *)
THEOREM NoCycleTwice == Spec => []FiledOnce
<1>1. IInv => FiledOnce
  BY DEF IInv
<1> QED BY <1>1, InitKeeps, Inductive, PTL DEF Spec

-----------------------------------------------------------------------------
(* What an answer tells: HeardIsFresh and UnmarkedOncePerLife *)

Lives      == \A b \in flying : b.life <= restarts /\ b.own <= made
LifeBehind == \A b \in flying : b.life = restarts => \A c \in b.cycles : c.seq < nextSeq

(* The heartbeat the mon-client waits for carries the newest seq. *)
AwaitedIsNewest ==
    phase = "sent" => \A b \in flying :
        b.own = made /\ b.life = restarts => \E c \in b.cycles : c.seq = nextSeq - 1

(* An answer on its way covers what this life may still say. *)
ComingCovers ==
    heard = "coming" =>
        /\ phase = "sent" /\ answer # NoAnswer /\ srvAck <= answer
        /\ \A b \in flying : b.life = restarts => \A c \in b.cycles : c.seq <= answer

(* An answer acknowledges all that is held. *)
AnswersAll ==
    /\ phase = "idle" => answer = NoAnswer
    /\ phase = "sent" /\ answer # NoAnswer => answer >= nextSeq - 1
    /\ phase = "acked" => buf = {}

(* What is held between two rounds and has travelled in this life is marked. *)
Remarked ==
    phase = "idle" => \A b \in flying : b.life = restarts =>
        \A c \in buf, d \in b.cycles : c.id = d.id => c.unv

FInv == /\ Lives /\ LifeBehind /\ AwaitedIsNewest /\ ComingCovers /\ AnswersAll /\ Remarked
        /\ HeardIsFresh /\ UnmarkedOncePerLife

LEMMA InitFresh == Init => FInv
BY DEF Init, FInv, Lives, LifeBehind, AwaitedIsNewest, ComingCovers, AnswersAll, Remarked,
       HeardIsFresh, UnmarkedOncePerLife, NoAnswer

LEMMA ProbeFresh == IInv /\ FInv /\ Probe => FInv'
<1> SUFFICES ASSUME IInv, FInv, Probe PROVE FInv'
  OBVIOUS
<1> DEFINE new  == [id |-> made + 1, seq |-> nextSeq, unv |-> FALSE]
           kept == Trim(buf \cup {new})
           beat == [own |-> new.id, life |-> restarts, cycles |-> kept]
<1>1. new \in Cycle /\ new.id = made + 1 /\ new.seq = nextSeq
  BY DEF IInv, TypeOK, Cycle
<1>2. /\ made \in Nat /\ nextSeq \in Nat /\ restarts \in Nat /\ srvAck \in Nat
      /\ \A b \in flying : b \in Beat /\ b.cycles \subseteq Cycle /\ b.cycles \subseteq Copies
      /\ \A c \in Copies : c.id <= made /\ c.id \in Nat
      /\ \A c \in buf : c \in Cycle /\ c.seq < nextSeq /\ c \in Copies
  BY DEF IInv, TypeOK, KnownCopies, Copies, Ahead, Beat
<1>3. new \in kept /\ kept \subseteq buf \cup {new}
  <2>1. buf \in SUBSET Cycle /\ \A c \in buf : c.id < new.id
    BY <1>1, <1>2
  <2> HIDE DEF new
  <2> QED BY <1>1, <2>1, TrimKeepsNew
<1>4. beat.own = made + 1 /\ beat.life = restarts /\ beat.cycles = kept
  OBVIOUS
<1> HIDE DEF new, kept, beat
<1>5. /\ phase = "idle" /\ phase' = "sent" /\ made' = made + 1 /\ nextSeq' = nextSeq + 1
      /\ flying' = flying \cup {beat}
      /\ UNCHANGED <<restarts, heard, answer, srvAck>>
  BY DEF Probe, server, new, kept, beat
<1>6. \A c \in kept : c.seq < nextSeq + 1
  BY <1>1, <1>2, <1>3 DEF Cycle
<1>7. heard # "coming"
  BY <1>5 DEF FInv, ComingCovers
<1>8. Lives' /\ LifeBehind'
  <2>1. Lives'
    BY <1>2, <1>4, <1>5 DEF FInv, Lives, Beat
  <2>2. ASSUME NEW b \in flying', b.life = restarts, NEW c \in b.cycles PROVE c.seq < nextSeq + 1
    <3>1. CASE b = beat
      BY <1>4, <1>6, <2>2, <3>1
    <3>2. CASE b \in flying
      BY <1>2, <2>2, <3>2 DEF FInv, LifeBehind, Cycle
    <3> QED BY <1>5, <2>2, <3>1, <3>2
  <2> QED BY <1>5, <2>1, <2>2 DEF LifeBehind
<1>9. AwaitedIsNewest'
  <2>2. SUFFICES ASSUME NEW b \in flying', b.own = made + 1, b.life = restarts
                 PROVE  \E c \in b.cycles : c.seq = nextSeq
    BY <1>2, <1>5 DEF AwaitedIsNewest
  <2>3. CASE b = beat
    BY <1>1, <1>3, <1>4, <2>3
  <2>4. b \notin flying
    BY <1>2, <2>2 DEF FInv, Lives, Beat
  <2> QED BY <1>5, <2>3, <2>4
<1>10. ComingCovers' /\ HeardIsFresh'
  BY <1>2, <1>5, <1>7 DEF ComingCovers, FInv, HeardIsFresh
<1>11. AnswersAll'
  BY <1>5 DEF AnswersAll, FInv
<1>12. Remarked'
  BY <1>5 DEF Remarked
<1>13. UnmarkedOncePerLife'
  <2>1. ASSUME NEW b \in flying, b.life = restarts, NEW c \in kept, NEW d \in b.cycles, c.id = d.id
        PROVE  c.unv
    <3>1. c # new
      BY <1>1, <1>2, <2>1
    <3> QED BY <1>3, <1>5, <2>1, <3>1 DEF FInv, Remarked
  <2> QED BY <1>4, <1>5, <2>1 DEF FInv, UnmarkedOncePerLife
<1> QED BY <1>8, <1>9, <1>10, <1>11, <1>12, <1>13 DEF FInv

LEMMA GiveUpFresh == IInv /\ FInv /\ GiveUp => FInv'
<1> SUFFICES ASSUME IInv, FInv, GiveUp PROVE FInv'
  OBVIOUS
<1>1. /\ buf' = Marked(buf) /\ phase' = "idle" /\ answer' = NoAnswer
      /\ heard' \in {"no", heard} /\ heard' # "coming"
      /\ UNCHANGED <<nextSeq, restarts, flying, srvAck, made>>
  BY DEF GiveUp, server
<1>2. \A c \in Marked(buf) : c.unv
  <2>1. \A c \in Cycle : [c EXCEPT !.unv = TRUE].unv
    BY DEF Cycle
  <2> QED BY <2>1 DEF Marked, IInv, TypeOK
<1>3. Remarked'
  BY <1>1, <1>2 DEF Remarked
<1> QED BY <1>1, <1>3 DEF FInv, Lives, LifeBehind, AwaitedIsNewest, ComingCovers, AnswersAll,
     HeardIsFresh, UnmarkedOncePerLife

LEMMA AckedFresh == IInv /\ FInv /\ Acked => FInv'
<1> SUFFICES ASSUME IInv, FInv, Acked PROVE FInv'
  OBVIOUS
<1>1. /\ phase = "sent" /\ answer # NoAnswer /\ phase' = "acked"
      /\ buf' = {c \in buf : c.seq > answer}
      /\ nextSeq' = ContinueAfter(nextSeq, answer)
      /\ heard' = IF heard = "coming" THEN "yes" ELSE heard
      /\ UNCHANGED <<restarts, flying, answer, srvAck, made>>
  BY DEF Acked, server
<1>2. /\ nextSeq \in Nat /\ answer \in Nat /\ srvAck \in Nat
      /\ \A c \in buf : c.seq \in Nat /\ c.seq < nextSeq
      /\ \A b \in flying : \A c \in b.cycles : c.seq \in Nat
  BY <1>1 DEF IInv, TypeOK, Ahead, Cycle, Beat
<1>3. nextSeq' \in Nat /\ nextSeq <= nextSeq' /\ answer < nextSeq'
  BY <1>1, <1>2 DEF ContinueAfter, Larger
<1>4. answer >= nextSeq - 1
  BY <1>1 DEF FInv, AnswersAll
<1>5. buf' = {}
  BY <1>1, <1>2, <1>4
<1>6. AnswersAll' /\ Remarked' /\ AwaitedIsNewest' /\ Lives' /\ UnmarkedOncePerLife'
  BY <1>1, <1>5 DEF FInv, AnswersAll, Remarked, AwaitedIsNewest, Lives, UnmarkedOncePerLife
<1>7. LifeBehind'
  BY <1>1, <1>2, <1>3 DEF FInv, LifeBehind
<1>8. ComingCovers'
  BY <1>1 DEF ComingCovers
<1>9. HeardIsFresh'
  BY <1>1, <1>2, <1>3 DEF FInv, ComingCovers, HeardIsFresh
<1> QED BY <1>6, <1>7, <1>8, <1>9 DEF FInv

LEMMA RememberAckFresh == IInv /\ FInv /\ RememberAck => FInv'
<1> SUFFICES ASSUME IInv, FInv, RememberAck PROVE FInv'
  OBVIOUS
<1>1. /\ phase = "acked" /\ phase' = "idle" /\ answer' = NoAnswer
      /\ UNCHANGED <<buf, nextSeq, restarts, heard, flying, srvAck, made>>
  BY DEF RememberAck, server
<1>2. buf' = {}
  BY <1>1 DEF FInv, AnswersAll
<1> QED BY <1>1, <1>2 DEF FInv, Lives, LifeBehind, AwaitedIsNewest, ComingCovers, AnswersAll,
     Remarked, HeardIsFresh, UnmarkedOncePerLife

LEMMA RestartFresh == IInv /\ FInv /\ Restart => FInv'
<1> SUFFICES ASSUME IInv, FInv, Restart PROVE FInv'
  OBVIOUS
<1>1. /\ phase' = "idle" /\ answer' = NoAnswer /\ heard' = "no" /\ restarts' = restarts + 1
      /\ UNCHANGED <<flying, srvAck, made>>
  BY DEF Restart, server
<1>2. Lives' /\ \A b \in flying : b.life # restarts'
  BY <1>1 DEF FInv, Lives, IInv, TypeOK, Beat
<1> QED BY <1>1, <1>2 DEF FInv, LifeBehind, AwaitedIsNewest, ComingCovers, AnswersAll,
     Remarked, HeardIsFresh, UnmarkedOncePerLife

LEMMA LoseFresh ==
    ASSUME NEW beat \in flying, IInv, FInv, Lose(beat)
    PROVE  FInv'
<1>1. /\ flying' \subseteq flying
      /\ UNCHANGED <<phase, buf, nextSeq, restarts, heard, answer, srvAck, made>>
  BY DEF Lose, client, server
<1> QED BY <1>1 DEF FInv, Lives, LifeBehind, AwaitedIsNewest, ComingCovers, AnswersAll,
     Remarked, HeardIsFresh, UnmarkedOncePerLife

LEMMA ReceiveFresh ==
    ASSUME NEW beat \in flying, IInv, FInv, Receive(beat)
    PROVE  FInv'
<1> DEFINE newest  == NewestSeq(beat.cycles)
           ack     == Larger(srvAck, newest)
           awaited == phase = "sent" /\ beat.own = made /\ beat.life = restarts
<1>1. /\ flying' = flying \ {beat} /\ srvAck' = ack
      /\ answer' = IF awaited THEN ack ELSE answer
      /\ heard' = IF beat.life # restarts THEN "no"
                  ELSE IF awaited /\ heard = "no" THEN "coming" ELSE heard
      /\ UNCHANGED <<phase, buf, nextSeq, restarts, made>>
  BY DEF Receive, client
<1>2. /\ nextSeq \in Nat /\ srvAck \in Nat /\ answer \in Nat \cup {NoAnswer}
      /\ heard \in {"no", "coming", "yes"}
      /\ beat.cycles \subseteq Cycle
      /\ \A b \in flying : \A c \in b.cycles : c.seq \in Nat
  BY DEF IInv, TypeOK, Beat, Cycle
<1>3. /\ newest \in Nat /\ \A c \in beat.cycles : c.seq <= newest
      /\ \E c \in beat.cycles : c.seq = newest
  <2>1. \E o \in beat.cycles : \A c \in beat.cycles : c.seq <= o.seq
    BY DEF IInv, HasNewest
  <2>2. newest \in Nat /\ \A c \in beat.cycles : c.seq <= newest
    BY <1>2, <2>1, NewestSeqIsNewest
  <2>3. newest \in {c.seq : c \in beat.cycles}
    BY <2>1 DEF NewestSeq
  <2> QED BY <2>2, <2>3
<1> HIDE DEF newest
<1>4. ack \in {srvAck, newest} /\ ack \in Nat /\ srvAck <= ack /\ newest <= ack
  BY <1>2, <1>3 DEF Larger
<1>5. beat.life = restarts => newest < nextSeq
  BY <1>3 DEF FInv, LifeBehind
<1>6. awaited => newest = nextSeq - 1
  BY <1>2, <1>3, <1>5 DEF FInv, AwaitedIsNewest
<1> HIDE DEF ack
<1>7. \A b \in flying : b.life = restarts => \A c \in b.cycles : c.seq < nextSeq
  BY DEF FInv, LifeBehind
<1>8. Lives' /\ LifeBehind' /\ AwaitedIsNewest' /\ Remarked' /\ UnmarkedOncePerLife'
  BY <1>1 DEF FInv, Lives, LifeBehind, AwaitedIsNewest, Remarked, UnmarkedOncePerLife
<1>9. AnswersAll'
  BY <1>1, <1>2, <1>4, <1>6, <1>3 DEF FInv, AnswersAll
<1>10. ComingCovers'
  <2>1. SUFFICES ASSUME heard' = "coming"
                 PROVE  /\ phase = "sent" /\ answer' # NoAnswer /\ ack <= answer'
                        /\ \A b \in flying : b.life = restarts => \A c \in b.cycles : c.seq <= answer'
    BY <1>1 DEF ComingCovers
  <2>2. beat.life = restarts /\ (awaited \/ heard = "coming")
    BY <1>1, <2>1
  <2>3. CASE awaited
    <3>1. answer' = ack /\ ack >= nextSeq - 1
      BY <1>1, <1>2, <1>3, <1>4, <1>6, <2>3
    <3> QED BY <1>2, <1>4, <1>7, <2>3, <3>1 DEF NoAnswer
  <2>4. CASE ~awaited
    <3>1. heard = "coming" /\ answer' = answer
      BY <1>1, <2>2, <2>4
    <3>2. /\ phase = "sent" /\ answer # NoAnswer /\ srvAck <= answer
          /\ \A b \in flying : b.life = restarts => \A c \in b.cycles : c.seq <= answer
      BY <3>1 DEF FInv, ComingCovers
    <3>3. newest <= answer
      BY <1>3, <2>2, <3>2
    <3> QED BY <1>4, <3>1, <3>2, <3>3
  <2> QED BY <2>3, <2>4
<1>11. HeardIsFresh'
  <2>1. SUFFICES ASSUME heard' = "yes" PROVE nextSeq > ack
    BY <1>1 DEF HeardIsFresh
  <2>2. beat.life = restarts /\ heard = "yes"
    BY <1>1, <2>1
  <2> QED BY <1>2, <1>3, <1>4, <1>5, <2>2 DEF FInv, HeardIsFresh
<1> QED BY <1>8, <1>9, <1>10, <1>11 DEF FInv

LEMMA StutterFresh == FInv /\ UNCHANGED vars => FInv'
BY DEF FInv, Lives, LifeBehind, AwaitedIsNewest, ComingCovers, AnswersAll, Remarked,
       HeardIsFresh, UnmarkedOncePerLife, vars, client, files, server

LEMMA FreshIsInductive == IInv /\ FInv /\ [Next]_vars => FInv'
BY ProbeFresh, GiveUpFresh, AckedFresh, RememberAckFresh, RestartFresh, LoseFresh,
   ReceiveFresh, StutterFresh DEF Next, Spent

LEMMA BothHold == Spec => [](IInv /\ FInv)
BY InitKeeps, InitFresh, Inductive, FreshIsInductive, PTL DEF Spec

(* After an answer no new cycle of a mon-client starts at or below             *)
(* last_ack_seq, also when both of its files are lost, unless a heartbeat of   *)
(* an earlier life is handled later.  (Buffer.Ack, Engine.Heartbeat)           *)
THEOREM AnswerFreshens == Spec => []HeardIsFresh
<1>1. FInv => HeardIsFresh
  BY DEF FInv
<1> QED BY <1>1, BothHold, PTL

(* A cycle travels unmarked in at most one heartbeat of each life of the       *)
(* mon-client, for any buffer and whatever fails.  (Buffer.MarkUnverified      *)
(* before the next Add)                                                        *)
THEOREM UnmarkedOnce == Spec => []UnmarkedOncePerLife
<1>1. FInv => UnmarkedOncePerLife
  BY DEF FInv
<1> QED BY <1>1, BothHold, PTL

-----------------------------------------------------------------------------
(* While the files work: nothing is lost, and the ledger is implemented *)

(* The files are what the process holds, and a seq is the number of a making. *)
InStep ==
    /\ disk = [next |-> nextSeq, cycles |-> buf] /\ nextSeq = made + 1
    /\ \A c \in Copies : c.seq = c.id
    /\ diskAck <= srvAck /\ answer <= srvAck /\ srvAck <= made /\ live <= srvAck

(* A heartbeat carries everything held up to its newest cycle. *)
Covers == \A b \in flying : \A c \in buf, o \in b.cycles : c.seq <= o.seq => c.id \in Ids(b.cycles)

(* What is acknowledged and held is filed. *)
AckIsFiled == \A c \in buf : c.seq <= srvAck => c.id \in Filed

SInv == /\ InStep /\ Covers /\ AckIsFiled
        /\ IsFiniteSet(buf) /\ NothingLost

(* Ids are a copy's own in a place that holds no cycle twice. *)
LEMMA IdsWithout ==
    ASSUME NEW cycles, OneCopy(cycles), NEW gone \in SUBSET cycles
    PROVE  Ids(cycles \ gone) = Ids(cycles) \ Ids(gone)
BY DEF OneCopy, Ids

(* Trim gives up the oldest cycle, and only for MaxCycles newer ones. *)
GivesUpOldest(cycles, n) ==
    /\ IsFiniteSet(Trim(cycles)) /\ Cardinality(Trim(cycles)) <= MaxCycles
    /\ \/ Trim(cycles) = cycles
       \/ \E o \in cycles : /\ Trim(cycles) = cycles \ {o}
                            /\ \A c \in cycles \ {o} : o.id < c.id
                            /\ n - o.id >= MaxCycles

LEMMA TrimGivesUpOldest ==
    ASSUME NEW cycles \in SUBSET Cycle, IsFiniteSet(cycles), OneCopy(cycles), NEW n \in Nat,
           \A c \in cycles : c.id <= n, Cardinality(cycles) <= MaxCycles + 1
    PROVE  GivesUpOldest(cycles, n)
<1>1. MaxCycles \in Nat /\ MaxCycles > 0 /\ Cardinality(cycles) \in Nat
  BY DeliveryAssumption, FS_CardinalityType
<1>2. CASE ~(Cardinality(cycles) > MaxCycles)
  BY <1>1, <1>2 DEF Trim, GivesUpOldest
<1>3. CASE Cardinality(cycles) > MaxCycles
  <2> DEFINE T == {c.id : c \in cycles}
  <2>1. cycles # {}
    BY <1>1, <1>3, FS_EmptySet
  <2>2. T \in SUBSET Nat /\ T # {}
    BY <2>1 DEF Cycle
  <2>3. PICK i \in T : \A j \in T : i <= j
    <3> HIDE DEF T
    <3> QED BY <2>2, LeastNatural
  <2>4. \E o \in cycles : \A d \in cycles : o.id <= d.id
    BY <2>3
  <2>5. PICK o \in cycles : o = Oldest(cycles) /\ \A d \in cycles : o.id <= d.id
    BY <2>4 DEF Oldest
  <2> DEFINE rest == cycles \ {o}
             num  == [c \in rest |-> c.id]
             over == o.id + 1 .. n
  <2>6. Trim(cycles) = rest
    BY <1>3, <2>5 DEF Trim
  <2>7. \A c \in rest : c.id \in Nat /\ o.id \in Nat /\ o.id < c.id /\ c.id <= n
    BY <2>5 DEF OneCopy, Cycle
  <2>8. IsFiniteSet(rest) /\ Cardinality(rest) = Cardinality(cycles) - 1
    BY <2>5, FS_RemoveElement
  <2>9. o.id \in Nat /\ o.id <= n
    BY DEF Cycle
  <2>10. IsFiniteSet(over) /\ Cardinality(over) = n - o.id
    <3>1. o.id + 1 \in Int /\ n \in Int
      BY <2>9
    <3>2. IsFiniteSet(over) /\ Cardinality(over) = IF o.id + 1 > n THEN 0 ELSE n - (o.id + 1) + 1
      BY <3>1, FS_Interval
    <3> HIDE DEF over
    <3> QED BY <2>9, <3>2
  <2>11. num \in Injection(rest, over)
    <3>1. num \in [rest -> over]
      BY <2>7, <2>9
    <3>2. \A a, b \in rest : num[a] = num[b] => a = b
      BY DEF OneCopy
    <3> HIDE DEF num, rest, over
    <3> QED BY <3>1, <3>2 DEF Injection, IsInjective
  <2> HIDE DEF num, over
  <2>12. Cardinality(rest) <= n - o.id
    <3> HIDE DEF rest
    <3> QED BY <2>10, <2>11, FS_Injection
  <2>13. Cardinality(rest) = MaxCycles
    <3> HIDE DEF rest
    <3> QED BY <1>1, <1>3, <2>8
  <2>14. n - o.id >= MaxCycles
    <3> HIDE DEF rest
    <3> QED BY <1>1, <2>9, <2>12, <2>13
  <2>15. Cardinality(rest) <= MaxCycles
    <3> HIDE DEF rest
    <3> QED BY <1>1, <2>13
  <2> QED BY <2>6, <2>7, <2>8, <2>14, <2>15 DEF GivesUpOldest
<1> QED BY <1>2, <1>3

LEMMA InitSound == Init => SInv
<1> SUFFICES ASSUME Init PROVE SInv
  OBVIOUS
<1>1. Copies = {} /\ buf = {}
  BY DEF Init, Copies
<1>2. IsFiniteSet(buf) /\ Cardinality(buf) = 0 /\ MaxCycles \in Nat
  BY <1>1, FS_EmptySet, DeliveryAssumption
<1>3. NothingLost
  BY <1>2 DEF Init, NothingLost
<1> QED BY <1>1, <1>2, <1>3 DEF Init, SInv, InStep, Covers, AckIsFiled, NoAnswer

(* What Probe does, for the invariant and for the ledger. *)
LEMMA ProbeAdds ==
    ASSUME IInv, SInv, ~DiskFaults, Probe
    PROVE  \E new \in Cycle, gone \in SUBSET Cycle :
             /\ new.id = made + 1 /\ new.seq = made + 1
             /\ made' = made + 1 /\ nextSeq' = nextSeq + 1
             /\ buf' = (buf \cup {new}) \ gone /\ new \notin gone /\ gone \subseteq buf \cup {new}
             /\ OneCopy(buf \cup {new})
             /\ \A e \in gone, h \in (buf \cup {new}) \ gone : e.id < h.id
             /\ \A e \in gone : e.id \in evicted' /\ made + 1 - e.id >= MaxCycles
             /\ IsFiniteSet(buf') /\ Cardinality(buf') <= MaxCycles
             /\ evicted \subseteq evicted'
             /\ disk' = [next |-> nextSeq + 1, cycles |-> buf']
             /\ flying' = flying \cup {[own |-> new.id, life |-> restarts, cycles |-> buf']}
             /\ UNCHANGED <<diskAck, answer, srvAck, live, full, part>>
<1> DEFINE new  == [id |-> made + 1, seq |-> nextSeq, unv |-> FALSE]
           all  == buf \cup {new}
           kept == Trim(all)
<1>1. /\ new \in Cycle /\ new.id = made + 1 /\ new.seq = made + 1
      /\ made \in Nat /\ nextSeq \in Nat
      /\ buf \in SUBSET Cycle /\ \A c \in buf : c.id \in 1..made
  BY DEF IInv, TypeOK, Cycle, SInv, InStep, KnownCopies, Copies
<1>2. /\ made' = made + 1 /\ nextSeq' = nextSeq + 1 /\ buf' = kept
      /\ disk' = [next |-> nextSeq + 1, cycles |-> kept]
      /\ flying' = flying \cup {[own |-> new.id, life |-> restarts, cycles |-> kept]}
      /\ evicted' = evicted \cup (Ids(all) \ Ids(kept))
      /\ UNCHANGED <<diskAck, answer, srvAck, live, full, part>>
  BY DEF Probe, Save, server
<1> HIDE DEF new
<1>3. all \in SUBSET Cycle /\ \A c \in all : c.id <= made + 1
  BY <1>1
<1>4. OneCopy(all)
  BY <1>1 DEF IInv, Placed, OneCopy
<1>5. IsFiniteSet(all) /\ Cardinality(all) <= MaxCycles + 1
  <2>1. /\ IsFiniteSet(buf) /\ Cardinality(buf) \in Nat /\ Cardinality(buf) <= MaxCycles
        /\ MaxCycles \in Nat
    BY FS_CardinalityType, DeliveryAssumption DEF SInv, NothingLost
  <2>2. IsFiniteSet(all) /\ Cardinality(all) \in {Cardinality(buf), Cardinality(buf) + 1}
    BY <2>1, FS_AddElement
  <2> HIDE DEF all
  <2> QED BY <2>1, <2>2
<1>6. new \in kept /\ kept \subseteq all
  BY <1>1, TrimKeepsNew
<1>7. /\ IsFiniteSet(kept) /\ Cardinality(kept) <= MaxCycles
      /\ \/ kept = all
         \/ \E o \in all : /\ kept = all \ {o}
                           /\ \A c \in all \ {o} : o.id < c.id
                           /\ made + 1 - o.id >= MaxCycles
  <2>1. PICK n \in Nat : n = made + 1
    BY <1>1
  <2>2. \A c \in all : c.id <= n
    BY <1>3, <2>1
  <2> HIDE DEF all
  <2>3. /\ IsFiniteSet(kept) /\ Cardinality(kept) <= MaxCycles
        /\ \/ kept = all
           \/ \E o \in all : /\ kept = all \ {o}
                             /\ \A c \in all \ {o} : o.id < c.id
                             /\ n - o.id >= MaxCycles
    <3>1. GivesUpOldest(all, n)
      BY <1>3, <1>4, <1>5, <2>2, TrimGivesUpOldest
    <3> QED BY <3>1 DEF GivesUpOldest
  <2>4. \A o \in all : o.id \in Nat
    BY <1>3 DEF Cycle
  <2> QED BY <1>1, <2>1, <2>3, <2>4
<1> DEFINE gone == all \ kept
<1> HIDE DEF kept
<1>8. gone \in SUBSET Cycle /\ kept = all \ gone /\ new \notin gone /\ gone \subseteq all
  BY <1>3, <1>6
<1>9. /\ \A e \in gone, h \in all \ gone : e.id < h.id
      /\ \A e \in gone : made + 1 - e.id >= MaxCycles
  BY <1>7, <1>8
<1>10. \A e \in gone : e.id \in evicted'
  <2>1. Ids(kept) = Ids(all) \ Ids(gone)
    BY <1>4, <1>8, IdsWithout
  <2>2. \A e \in gone : e.id \in Ids(all) /\ e.id \in Ids(gone)
    BY <1>8 DEF Ids
  <2> QED BY <1>2, <2>1, <2>2
<1> HIDE DEF gone
<1> QED BY <1>1, <1>2, <1>4, <1>7, <1>8, <1>9, <1>10

(* The step of the ledger, and of the state machine, an action is. *)
Promised == [Ledger!Next]_(Ledger!vars) /\ live' >= live

LEMMA Unpromised ==
    ASSUME IInv, UNCHANGED <<made, full, part, live>>, Ids(buf)' = Ids(buf)
    PROVE  Promised
BY DEF Promised, Ledger!vars, IInv, TypeOK

LEMMA ProbeSound ==
    ASSUME IInv, SInv, ~DiskFaults, Probe
    PROVE  SInv' /\ Promised
<1>1. PICK new \in Cycle, gone \in SUBSET Cycle :
             /\ new.id = made + 1 /\ new.seq = made + 1
             /\ made' = made + 1 /\ nextSeq' = nextSeq + 1
             /\ buf' = (buf \cup {new}) \ gone /\ new \notin gone /\ gone \subseteq buf \cup {new}
             /\ OneCopy(buf \cup {new})
             /\ \A e \in gone, h \in (buf \cup {new}) \ gone : e.id < h.id
             /\ \A e \in gone : e.id \in evicted' /\ made + 1 - e.id >= MaxCycles
             /\ IsFiniteSet(buf') /\ Cardinality(buf') <= MaxCycles
             /\ evicted \subseteq evicted'
             /\ disk' = [next |-> nextSeq + 1, cycles |-> buf']
             /\ flying' = flying \cup {[own |-> new.id, life |-> restarts, cycles |-> buf']}
             /\ UNCHANGED <<diskAck, answer, srvAck, live, full, part>>
  BY ProbeAdds
<1> DEFINE all  == buf \cup {new}
           beat == [own |-> new.id, life |-> restarts, cycles |-> buf']
<1>2. /\ made \in Nat /\ nextSeq \in Nat /\ srvAck \in Nat /\ live \in Nat /\ MaxCycles \in Nat
      /\ nextSeq = made + 1 /\ diskAck \in Nat /\ answer \in Nat \cup {NoAnswer}
      /\ \A c \in Copies : c.seq = c.id /\ c.id \in 1..made
      /\ srvAck <= made /\ diskAck <= srvAck /\ answer <= srvAck /\ live <= srvAck
      /\ buf \subseteq Cycle /\ buf \subseteq Copies
  BY DeliveryAssumption DEF IInv, TypeOK, SInv, InStep, KnownCopies, Copies
<1>3. beat.cycles = buf'
  OBVIOUS
<1>4. /\ Ids(all) = Ids(buf) \cup {made + 1}
      /\ Ids(buf') = Ids(all) \ Ids(gone)
      /\ Ids(buf)' = Ids(buf')
  <2>1. \A i : i \in Ids(all) <=> i \in Ids(buf) \/ i = new.id
    BY DEF Ids
  <2>2. Ids(all \ gone) = Ids(all) \ Ids(gone)
    BY <1>1, IdsWithout
  <2>3. buf' = all \ gone /\ new.id = made + 1
    BY <1>1
  <2>4. Ids(buf)' = Ids(buf')
    BY DEF Ids
  <2> HIDE DEF all
  <2> QED BY <2>1, <2>2, <2>3, <2>4
<1>5. Filed' = Filed
  BY <1>1 DEF Filed
<1>6. InStep'
  <2>1. \A c \in Copies' : c.seq = c.id
    <3>1. Copies' \subseteq Copies \cup {new}
      BY <1>1, <1>3 DEF Copies
    <3> QED BY <1>1, <1>2, <3>1
  <2>2. disk' = [next |-> nextSeq', cycles |-> buf'] /\ nextSeq' = made' + 1
    BY <1>1, <1>2
  <2>3. diskAck' <= srvAck' /\ answer' <= srvAck' /\ srvAck' <= made' /\ live' <= srvAck'
    BY <1>1, <1>2
  <2> QED BY <2>1, <2>2, <2>3 DEF InStep
<1>7. Covers'
  <2>1. SUFFICES ASSUME NEW b \in flying', NEW c \in buf', NEW o \in b.cycles, c.seq <= o.seq
                 PROVE  c.id \in Ids(b.cycles)
    BY DEF Covers, Ids
  <2>2. CASE b = beat
    BY <1>3, <2>2 DEF Ids
  <2>3. CASE b \in flying
    <3>1. o \in Copies /\ o.seq \in 1..made
      BY <1>2, <2>3 DEF Copies
    <3>2. c \in buf
      BY <1>1, <1>2, <2>1, <3>1
    <3> QED BY <2>1, <2>3, <3>2 DEF SInv, Covers
  <2> QED BY <1>1, <2>2, <2>3
<1>8. AckIsFiled'
  <2>1. SUFFICES ASSUME NEW c \in buf', c.seq <= srvAck PROVE c.id \in Filed
    BY <1>1, <1>5 DEF AckIsFiled
  <2>2. c \in buf
    BY <1>1, <1>2, <2>1
  <2> QED BY <2>1, <2>2 DEF SInv, AckIsFiled
<1>9. NothingLost'
  <2>1. SUFFICES ASSUME NEW i \in 1..made + 1
                 PROVE  \/ i \in Filed \/ i \in Ids(buf')
                        \/ i \in evicted' /\ made + 1 - i >= MaxCycles
    <3>1. Cardinality(buf)' = Cardinality(buf')
      OBVIOUS
    <3>2. made' = made + 1 /\ Filed' = Filed /\ Ids(buf)' = Ids(buf') /\ Cardinality(buf') <= MaxCycles
      BY <1>1, <1>4, <1>5
    <3> QED BY <1>2, <3>1, <3>2 DEF NothingLost
  <2>2. CASE i \in Ids(gone)
    BY <1>1, <2>2 DEF Ids
  <2>3. CASE i \in Ids(all) /\ i \notin Ids(gone)
    BY <1>4, <2>3
  <2>4. CASE i \in 1..made /\ i \notin Ids(buf)
    <3>1. i \in Filed \/ (i \in evicted /\ made - i >= MaxCycles)
      BY <2>4 DEF SInv, NothingLost
    <3>2. made - i >= MaxCycles => made + 1 - i >= MaxCycles
      BY <1>2
    <3> QED BY <1>1, <3>1, <3>2
  <2> QED BY <1>2, <1>4, <2>2, <2>3, <2>4
<1>10. Ledger!Make(Ids(gone)) /\ Ids(gone) \in SUBSET (Ids(buf) \cup {made + 1})
  <2>1. Ids(gone) \subseteq Ids(all)
    BY <1>1 DEF Ids
  <2>2. \A e \in Ids(gone), h \in Ids(all) \ Ids(gone) : e < h
    BY <1>1 DEF Ids
  <2> QED BY <1>1, <1>4, <2>1, <2>2 DEF Ledger!Make
<1>11. Promised
  BY <1>1, <1>2, <1>10 DEF Promised, Ledger!Next
<1> QED BY <1>1, <1>6, <1>7, <1>8, <1>9, <1>11 DEF SInv

(* The buffer keeps what it holds, and the server what it has. *)
LEMMA HoldsSound ==
    ASSUME IInv, SInv, UNCHANGED <<server, made, evicted, nextSeq>>, flying' \subseteq flying,
           buf' \subseteq Cycle, \A c \in buf' : \E d \in buf : d.id = c.id /\ d.seq = c.seq,
           \A d \in buf : \E c \in buf' : d.id = c.id,
           IsFiniteSet(buf'), Cardinality(buf') <= Cardinality(buf),
           disk' = [next |-> nextSeq, cycles |-> buf'], diskAck' <= srvAck, answer' <= srvAck
    PROVE  SInv' /\ Promised
<1>1. UNCHANGED <<srvAck, live, full, part>> /\ Filed' = Filed
  BY DEF server, Filed
<1>2. Ids(buf)' = Ids(buf)
  BY DEF Ids
<1>3. InStep'
  <2>1. \A c \in Copies' : c.seq = c.id
    <3>1. \A c \in Copies' : \E d \in Copies : d.id = c.id /\ d.seq = c.seq
      BY DEF Copies
    <3> QED BY <3>1 DEF SInv, InStep
  <2> QED BY <1>1, <2>1 DEF SInv, InStep
<1>4. Covers'
  <2>1. SUFFICES ASSUME NEW b \in flying', NEW c \in buf', NEW o \in b.cycles, c.seq <= o.seq
                 PROVE  c.id \in Ids(b.cycles)
    BY DEF Covers, Ids
  <2>2. PICK d \in buf : d.id = c.id /\ d.seq = c.seq
    OBVIOUS
  <2> QED BY <2>1, <2>2 DEF SInv, Covers
<1>5. AckIsFiled'
  BY <1>1 DEF SInv, AckIsFiled
<1>6. NothingLost'
  <2>1. /\ Cardinality(buf') \in Nat /\ Cardinality(buf) \in Nat /\ Cardinality(buf) <= MaxCycles
        /\ MaxCycles \in Nat
    BY FS_CardinalityType, DeliveryAssumption DEF SInv, NothingLost
  <2>2. Cardinality(buf') <= MaxCycles
    BY <2>1
  <2>3. /\ made' = made /\ evicted' = evicted /\ Filed' = Filed /\ Ids(buf)' = Ids(buf)
    BY <1>1, <1>2
  <2> QED BY <2>2, <2>3 DEF SInv, NothingLost
<1>7. Promised
  BY <1>1, <1>2, Unpromised
<1> QED BY <1>3, <1>4, <1>5, <1>6, <1>7 DEF SInv

LEMMA GiveUpSound ==
    ASSUME IInv, SInv, ~DiskFaults, GiveUp
    PROVE  SInv' /\ Promised
<1> DEFINE mark == [c \in buf |-> [c EXCEPT !.unv = TRUE]]
<1>1. /\ buf' = Marked(buf) /\ disk' = [next |-> nextSeq, cycles |-> Marked(buf)]
      /\ answer' = NoAnswer
      /\ UNCHANGED <<nextSeq, diskAck, flying, server, made, evicted>>
  BY DEF GiveUp, Save
<1>2. \A c \in Cycle : /\ [c EXCEPT !.unv = TRUE] \in Cycle
                       /\ [c EXCEPT !.unv = TRUE].id = c.id /\ [c EXCEPT !.unv = TRUE].seq = c.seq
  BY DEF Cycle
<1>3. buf \subseteq Cycle /\ IsFiniteSet(buf) /\ srvAck \in Nat
  BY DEF IInv, TypeOK, SInv
<1>4. /\ buf' \subseteq Cycle
      /\ \A c \in buf' : \E d \in buf : d.id = c.id /\ d.seq = c.seq
      /\ \A d \in buf : \E c \in buf' : d.id = c.id
  <2>1. \A c \in buf' : \E d \in buf : c = [d EXCEPT !.unv = TRUE]
    BY <1>1 DEF Marked
  <2>2. \A d \in buf : [d EXCEPT !.unv = TRUE] \in buf'
    BY <1>1 DEF Marked
  <2>3. \A d \in buf : \E c \in buf' : d.id = c.id
    <3>1. SUFFICES ASSUME NEW d \in buf PROVE \E c \in buf' : d.id = c.id
      OBVIOUS
    <3>2. [d EXCEPT !.unv = TRUE].id = d.id
      BY <1>2, <1>3
    <3> QED BY <2>2, <3>2, Zenon
  <2>4. ASSUME NEW c \in buf'
        PROVE  c \in Cycle /\ \E d \in buf : d.id = c.id /\ d.seq = c.seq
    <3>1. PICK d \in buf : c = [d EXCEPT !.unv = TRUE]
      BY <2>1
    <3>2. d \in Cycle
      BY <1>3
    <3> QED BY <1>2, <3>1, <3>2
  <2> QED BY <2>3, <2>4
<1>5. mark \in Surjection(buf, buf')
  <2>1. \A c \in buf : mark[c] \in buf'
    BY <1>1 DEF Marked
  <2>2. \A d \in buf' : \E c \in buf : mark[c] = d
    BY <1>1 DEF Marked
  <2>3. mark \in [buf -> buf']
    BY <2>1
  <2> HIDE DEF mark
  <2> QED BY <2>2, <2>3 DEF Surjection
<1> HIDE DEF mark
<1>6. IsFiniteSet(buf') /\ Cardinality(buf') <= Cardinality(buf)
  BY <1>3, <1>5, FS_Surjection
<1>7. diskAck' <= srvAck /\ answer' <= srvAck
  BY <1>1, <1>3 DEF SInv, InStep, NoAnswer
<1>8. flying' \subseteq flying /\ disk' = [next |-> nextSeq, cycles |-> buf']
  BY <1>1
<1> QED BY <1>1, <1>4, <1>6, <1>7, <1>8, HoldsSound

LEMMA RememberAckSound ==
    ASSUME IInv, SInv, ~DiskFaults, RememberAck
    PROVE  SInv' /\ Promised
<1>1. /\ answer' = NoAnswer /\ diskAck' \in {diskAck, answer}
      /\ UNCHANGED <<buf, nextSeq, disk, flying, server, made, evicted>>
  BY DEF RememberAck
<1>2. /\ buf' \subseteq Cycle /\ IsFiniteSet(buf') /\ Cardinality(buf') <= Cardinality(buf)
      /\ srvAck \in Nat /\ disk' = [next |-> nextSeq, cycles |-> buf']
  BY <1>1, FS_CardinalityType DEF IInv, TypeOK, SInv, InStep
<1>3. diskAck' <= srvAck /\ answer' <= srvAck
  BY <1>1, <1>2 DEF SInv, InStep, NoAnswer
<1> QED BY <1>1, <1>2, <1>3, HoldsSound

LEMMA RestartSound ==
    ASSUME IInv, SInv, ~DiskFaults, Restart
    PROVE  SInv' /\ Promised
<1>1. /\ answer' = NoAnswer /\ buf' = disk.cycles
      /\ nextSeq' = ContinueAfter(Reopened(disk), diskAck)
      /\ UNCHANGED <<disk, diskAck, flying, server, made, evicted>>
  BY DEF Restart
<1>2. Reopened(disk) = disk.next
  BY ReopenedIsNext DEF IInv, TypeOK, Ahead
<1>3. /\ disk.cycles = buf /\ disk.next = nextSeq /\ diskAck < nextSeq
      /\ diskAck \in Nat /\ nextSeq \in Nat /\ srvAck \in Nat
  BY DEF SInv, InStep, IInv, TypeOK
<1>4. nextSeq' = nextSeq /\ buf' = buf
  BY <1>1, <1>2, <1>3 DEF ContinueAfter, Larger
<1>5. /\ buf' \subseteq Cycle /\ IsFiniteSet(buf') /\ Cardinality(buf') <= Cardinality(buf)
      /\ disk' = [next |-> nextSeq, cycles |-> buf']
  BY <1>1, <1>4, FS_CardinalityType DEF IInv, TypeOK, SInv, InStep
<1>6. diskAck' <= srvAck /\ answer' <= srvAck
  BY <1>1, <1>3 DEF SInv, InStep, NoAnswer
<1> QED BY <1>1, <1>4, <1>5, <1>6, HoldsSound

LEMMA LoseSound ==
    ASSUME NEW beat \in flying, IInv, SInv, Lose(beat)
    PROVE  SInv' /\ Promised
<1>1. /\ flying' \subseteq flying
      /\ UNCHANGED <<buf, nextSeq, disk, diskAck, answer, server, made, evicted>>
  BY DEF Lose, client, files
<1>2. /\ buf' \subseteq Cycle /\ IsFiniteSet(buf') /\ Cardinality(buf') <= Cardinality(buf)
      /\ disk' = [next |-> nextSeq, cycles |-> buf']
      /\ diskAck' <= srvAck /\ answer' <= srvAck
  BY <1>1, FS_CardinalityType DEF IInv, TypeOK, SInv, InStep
<1> QED BY <1>1, <1>2, HoldsSound

LEMMA AckedSound ==
    ASSUME IInv, SInv, ~DiskFaults, Acked
    PROVE  SInv' /\ Promised
<1> DEFINE kept == {c \in buf : c.seq > answer}
           gone == buf \ kept
<1>1. /\ answer # NoAnswer /\ buf' = kept
      /\ nextSeq' = ContinueAfter(nextSeq, answer)
      /\ disk' = [next |-> nextSeq', cycles |-> kept]
      /\ UNCHANGED <<diskAck, flying, answer, server, made, evicted>>
  BY DEF Acked, Save
<1>2. /\ answer \in Nat /\ srvAck \in Nat /\ nextSeq \in Nat /\ made \in Nat /\ live \in Nat
      /\ answer <= srvAck /\ answer < nextSeq /\ MaxCycles \in Nat
      /\ \A c \in buf : c \in Cycle /\ c \in Copies /\ c.seq \in Nat
  BY <1>1, DeliveryAssumption DEF SInv, InStep, IInv, TypeOK, Copies, Cycle
<1>3. nextSeq' = nextSeq
  BY <1>1, <1>2 DEF ContinueAfter, Larger
<1>4. UNCHANGED <<srvAck, live, full, part>> /\ Filed' = Filed
  BY <1>1 DEF server, Filed
<1>5. kept \subseteq buf /\ gone \in SUBSET buf /\ kept = buf \ gone
  OBVIOUS
<1>6. \A c \in gone : c.id \in Filed
  BY <1>2 DEF SInv, AckIsFiled
<1> HIDE DEF kept, gone
<1>7. Ids(buf)' = Ids(buf) \ Ids(gone) /\ Ids(gone) \subseteq Ids(buf) \cap Filed
  <2>1. Ids(kept) = Ids(buf) \ Ids(gone)
    BY <1>5, IdsWithout DEF IInv, Placed
  <2>2. Ids(gone) \subseteq Ids(buf) \cap Filed
    BY <1>5, <1>6 DEF Ids
  <2>3. Ids(buf)' = Ids(kept)
    BY <1>1 DEF Ids
  <2> QED BY <2>1, <2>2, <2>3
<1>8. InStep'
  <2>1. \A c \in Copies' : c.seq = c.id
    <3>1. Copies' \subseteq Copies
      BY <1>1, <1>5 DEF Copies
    <3> QED BY <3>1 DEF SInv, InStep
  <2> QED BY <1>1, <1>3, <1>4, <2>1 DEF SInv, InStep
<1>9. Covers' /\ AckIsFiled'
  BY <1>1, <1>4, <1>5 DEF SInv, Covers, AckIsFiled, Ids
<1>10. IsFiniteSet(buf') /\ NothingLost'
  <2>1. IsFiniteSet(buf') /\ Cardinality(buf') <= Cardinality(buf) /\ Cardinality(buf') \in Nat
        /\ Cardinality(buf) \in Nat /\ Cardinality(buf) <= MaxCycles
    BY <1>1, <1>5, FS_Subset, FS_CardinalityType DEF SInv, NothingLost
  <2>2. Cardinality(buf') <= MaxCycles
    BY <1>2, <2>1
  <2>3. 1..made \subseteq Filed \cup Ids(buf)' \cup {id \in evicted : made - id >= MaxCycles}
    BY <1>7 DEF SInv, NothingLost
  <2>4. /\ made' = made /\ evicted' = evicted /\ Filed' = Filed
    BY <1>1, <1>4
  <2> QED BY <2>1, <2>2, <2>3, <2>4 DEF NothingLost
<1>11. Promised
  <2>1. Ledger!Release(Ids(gone)) /\ Ids(gone) \in SUBSET Ids(buf)
    BY <1>1, <1>4, <1>7 DEF Ledger!Release, Filed
  <2> QED BY <1>2, <1>4, <2>1 DEF Promised, Ledger!Next
<1> QED BY <1>8, <1>9, <1>10, <1>11 DEF SInv

(* What mon-server files of a heartbeat is new. *)
LEMMA ReceiveFiles ==
    ASSUME NEW beat \in flying, IInv, Receive(beat)
    PROVE  LET new      == {c \in beat.cycles : c.seq > srvAck}
               verified == {c \in new : ~c.unv}
           IN  /\ Ids(new) \subseteq 1..made /\ Ids(new) \cap Filed = {}
               /\ Ids(verified) \cap Ids(new \ verified) = {}
               /\ Ids(verified) \cup Ids(new \ verified) = Ids(new)
<1> DEFINE new      == {c \in beat.cycles : c.seq > srvAck}
           verified == {c \in new : ~c.unv}
<1>1. /\ new \subseteq Copies /\ new \subseteq Cycle /\ verified \subseteq new /\ OneCopy(new)
      /\ \A c \in new : c.seq > srvAck
      /\ \A c \in verified : \A d \in new \ verified : c # d
  BY DEF IInv, TypeOK, Beat, Copies, Placed, OneCopy
<1> HIDE DEF new, verified
<1>2. Ids(new) \subseteq 1..made /\ Ids(new) \cap Filed = {}
  BY <1>1 DEF Ids, IInv, TypeOK, KnownCopies, Cycle
<1>3. Ids(verified) \cap Ids(new \ verified) = {}
  BY <1>1 DEF Ids, OneCopy
<1>4. Ids(verified) \cup Ids(new \ verified) = Ids(new)
  BY <1>1 DEF Ids
<1> QED BY <1>2, <1>3, <1>4 DEF new, verified

LEMMA ReceiveSound ==
    ASSUME NEW beat \in flying, IInv, SInv, ~DiskFaults, Receive(beat)
    PROVE  SInv' /\ Promised
<1> DEFINE newest   == NewestSeq(beat.cycles)
           ack      == Larger(srvAck, newest)
           new      == {c \in beat.cycles : c.seq > srvAck}
           verified == {c \in new : ~c.unv}
<1>1. /\ flying' = flying \ {beat} /\ srvAck' = ack
      /\ full' = full \cup Ids(verified) /\ part' = part \cup Ids(new \ verified)
      /\ live' = IF verified = {} THEN live ELSE LiveCycle(verified).id
      /\ answer' \in {answer, ack}
      /\ UNCHANGED <<buf, nextSeq, disk, diskAck, made, evicted>>
  BY DEF Receive, client, files
<1>2. /\ beat.cycles \subseteq Cycle /\ beat.cycles \subseteq Copies
      /\ srvAck \in Nat /\ made \in Nat /\ live \in Nat /\ answer \in Nat \cup {NoAnswer}
      /\ srvAck <= made /\ live <= srvAck /\ diskAck <= srvAck /\ diskAck \in Nat /\ answer <= srvAck
      /\ \A c \in Copies : c.seq = c.id /\ c.id \in 1..made
  BY DEF IInv, TypeOK, Beat, Copies, SInv, InStep, KnownCopies
<1>3. /\ newest \in 1..made /\ \A c \in beat.cycles : c.seq <= newest
      /\ \E c \in beat.cycles : c.seq = newest
  <2>1. \E o \in beat.cycles : \A c \in beat.cycles : c.seq <= o.seq
    BY DEF IInv, HasNewest
  <2>2. newest \in Nat /\ \A c \in beat.cycles : c.seq <= newest
    BY <1>2, <2>1, NewestSeqIsNewest
  <2>3. newest \in {c.seq : c \in beat.cycles}
    BY <2>1 DEF NewestSeq
  <2> HIDE DEF newest
  <2> QED BY <1>2, <2>2, <2>3
<1> HIDE DEF newest
<1>4. ack \in {srvAck, newest} /\ ack \in Nat /\ srvAck <= ack /\ newest <= ack /\ ack <= made
  BY <1>2, <1>3 DEF Larger
<1>5. /\ Ids(new) \subseteq 1..made /\ Ids(new) \cap Filed = {}
      /\ Ids(verified) \cap Ids(new \ verified) = {}
      /\ Ids(verified) \cup Ids(new \ verified) = Ids(new)
  BY ReceiveFiles
<1>6. live' >= live /\ live' <= ack
  <2>1. CASE verified = {}
    BY <1>1, <1>2, <1>4, <2>1
  <2>2. CASE verified # {}
    <3> DEFINE seqs == {c.seq : c \in verified}
    <3>1. seqs \in SUBSET Nat /\ seqs # {} /\ \A s \in seqs : s <= made
      BY <1>2, <2>2 DEF Cycle
    <3>2. PICK s \in seqs : \A t \in seqs : t <= s
      <4> HIDE DEF seqs
      <4> QED BY <1>2, <3>1, GreatestNatural
    <3>3. \E v \in verified : \A d \in verified : d.seq <= v.seq
      BY <3>2
    <3>4. LiveCycle(verified) \in verified
      BY <3>3 DEF LiveCycle
    <3>5. PICK v \in verified : v = LiveCycle(verified)
      BY <3>4
    <3>6. v.seq > srvAck /\ v.seq <= newest /\ v.id = v.seq /\ v.seq \in Nat
      BY <1>2, <1>3
    <3>7. live' = v.id
      BY <1>1, <2>2, <3>5
    <3> QED BY <1>2, <1>3, <1>4, <3>6, <3>7
  <2> QED BY <2>1, <2>2
<1>7. \A c \in beat.cycles : c.seq <= srvAck \/ c.id \in Ids(new)
  BY <1>2 DEF Ids, Cycle
<1> HIDE DEF ack, new, verified
<1>8. Filed' = Filed \cup Ids(new)
  BY <1>1, <1>5 DEF Filed
<1>9. InStep'
  <2>1. \A c \in Copies' : c.seq = c.id
    <3>1. Copies' \subseteq Copies
      BY <1>1 DEF Copies
    <3> QED BY <1>2, <3>1
  <2>2. diskAck' <= ack /\ answer' <= ack /\ ack <= made
    BY <1>1, <1>2, <1>4 DEF NoAnswer
  <2>3. disk = [next |-> nextSeq, cycles |-> buf] /\ nextSeq = made + 1
    BY DEF SInv, InStep
  <2> QED BY <1>1, <1>6, <2>1, <2>2, <2>3 DEF InStep
<1>10. Covers'
  BY <1>1 DEF SInv, Covers, Ids
<1>11. AckIsFiled'
  <2>1. SUFFICES ASSUME NEW c \in buf, c.seq <= ack PROVE c.id \in Filed'
    BY <1>1 DEF AckIsFiled
  <2>2. c \in Copies /\ c.seq \in Nat /\ c.id \in 1..made
    BY <1>2 DEF Copies
  <2>3. CASE c.seq <= srvAck
    BY <1>8, <2>3 DEF SInv, AckIsFiled
  <2>4. CASE c.seq > srvAck
    <3>1. c.seq <= newest
      BY <1>2, <1>3, <1>4, <2>1, <2>2, <2>4
    <3>2. c.id \in Ids(beat.cycles)
      BY <1>3, <3>1 DEF SInv, Covers
    <3>3. PICK d \in beat.cycles : d.id = c.id
      BY <3>2 DEF Ids
    <3>4. d.seq > srvAck
      BY <1>2, <2>2, <2>4, <3>3
    <3> QED BY <1>2, <1>7, <1>8, <3>3, <3>4
  <2> QED BY <1>2, <2>2, <2>3, <2>4
<1>12. NothingLost'
  <2>1. Ids(buf)' = Ids(buf) /\ Cardinality(buf)' = Cardinality(buf)
    BY <1>1 DEF Ids
  <2> QED BY <1>1, <1>8, <2>1 DEF SInv, NothingLost
<1>13. Promised
  <2>1. Ids(buf)' = Ids(buf)
    BY <1>1 DEF Ids
  <2>2. Ledger!File(Ids(verified), Ids(new \ verified))
    BY <1>1, <1>5, <2>1 DEF Ledger!File, Filed
  <2>3. Ids(verified) \in SUBSET (1..made) /\ Ids(new \ verified) \in SUBSET (1..made)
    BY <1>5
  <2>4. Ledger!Next
    BY <2>2, <2>3 DEF Ledger!Next
  <2> QED BY <1>6, <2>4 DEF Promised
<1>14. IsFiniteSet(buf')
  BY <1>1 DEF SInv
<1> QED BY <1>9, <1>10, <1>11, <1>12, <1>13, <1>14 DEF SInv

LEMMA StutterSound == ASSUME IInv, SInv, UNCHANGED vars PROVE SInv' /\ Promised
<1>1. UNCHANGED <<buf, nextSeq, disk, diskAck, flying, answer, server, made, evicted>>
  BY DEF vars, client, files
<1>2. /\ buf' \subseteq Cycle /\ IsFiniteSet(buf') /\ Cardinality(buf') <= Cardinality(buf)
      /\ disk' = [next |-> nextSeq, cycles |-> buf']
      /\ diskAck' <= srvAck /\ answer' <= srvAck
  BY <1>1, FS_CardinalityType DEF IInv, TypeOK, SInv, InStep
<1> QED BY <1>1, <1>2, HoldsSound

LEMMA SoundIsInductive ==
    ASSUME ~DiskFaults
    PROVE  IInv /\ SInv /\ [Next]_vars => SInv' /\ Promised
BY ProbeSound, GiveUpSound, AckedSound, RememberAckSound, RestartSound, LoseSound,
   ReceiveSound, StutterSound DEF Next, Spent

LEMMA SoundHolds ==
    ASSUME ~DiskFaults
    PROVE  Spec => [](IInv /\ SInv) /\ [][Promised]_vars
BY InitKeeps, InitSound, Inductive, SoundIsInductive, PTL DEF Spec

(* While its files work, the mon-client lets go of a cycle only when           *)
(* mon-server has it or the full buffer evicted it, MaxCycles newer ones being *)
(* there, for every size of the buffer and whatever becomes of the messages.   *)
(* (Buffer.Add, Buffer.Ack, Engine.Heartbeat)                                  *)
THEOREM NoCycleLost ==
    ASSUME ~DiskFaults
    PROVE  Spec => []NothingLost
<1>1. SInv => NothingLost
  BY DEF SInv
<1> QED BY <1>1, SoundHolds, PTL

(* The state machine never sees a cycle older than one it has seen.            *)
(* (liveCycle)                                                                 *)
THEOREM LiveNeverGoesBack ==
    ASSUME ~DiskFaults
    PROVE  Spec => LiveInOrder
<1>1. IInv /\ SInv /\ [Next]_vars => [live' >= live]_vars
  BY SoundIsInductive DEF Promised
<1> QED BY <1>1, SoundHolds, PTL DEF Spec, LiveInOrder

(* The protocol implements the ledger of CycleLedger: what goes over lossy     *)
(* links, retries and restarts is filed once and released when it is filed.    *)
THEOREM ImplementsLedger ==
    ASSUME ~DiskFaults
    PROVE  Spec => LedgerSpec
<1>1. Init => Ledger!Init
  BY DEF Init, Ledger!Init, Ids
<1>2. IInv /\ SInv /\ [Next]_vars => [Ledger!Next]_(Ledger!vars)
  BY SoundIsInductive DEF Promised
<1> QED BY <1>1, <1>2, SoundHolds, PTL DEF Spec, LedgerSpec, Ledger!Spec
==============================================================================
