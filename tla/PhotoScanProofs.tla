--------------------------- MODULE PhotoScanProofs ---------------------------
(****************************************************************************)
(* Proofs about PhotoScan, for any folders with their photos, any number of *)
(* readers, any size of a batch and any number of runs.                     *)
(*                                                                          *)
(* The argument: a result of a run is on the server, or is held by the      *)
(* writer of the run, in one of three places: the records that wait for a   *)
(* timer, the batches that wait for the one before them, or the tail of     *)
(* what is on its way. Every helper moves records along these places and    *)
(* drops none, of the writers it does not name it changes nothing, and only *)
(* a write that ends takes records from the tail, which it gives to the     *)
(* server unless it fails, and a failed writer says so.                     *)
(****************************************************************************)
EXTENDS PhotoScan, SequenceTheorems, TLAPS

(* The state of the writers.                                                 *)
Disk == [writers : [Runs -> Writer], tail : Seq(Record)]
(* A batch of this run is on its way,                                        *)
SentIn(d, r) == \E n \in DOMAIN d.tail : d.tail[n].run = r
(* and every batch goes to the folder of its writer.                         *)
TailFolders(d) == \A n \in DOMAIN d.tail : d.tail[n].folder = d.writers[d.tail[n].run].folder
(* From d to e only the writer of run r has moved, within its folder, and    *)
(* behind the batches that are on their way.                                 *)
Moves(d, e, r) ==
    /\ e \in Disk
    /\ \A q \in Runs \ {r} : /\ e.writers[q] = d.writers[q]
                             /\ SentIn(e, q) <=> SentIn(d, q)
                             /\ OnTheirWay(e, q) = OnTheirWay(d, q)
    /\ e.writers[r].folder = d.writers[r].folder
    /\ e.writers[r].failed = d.writers[r].failed
    /\ Len(d.tail) <= Len(e.tail)
    /\ TailFolders(d) => TailFolders(e)
(* The writer does not stand still: fewer records than a batch wait, for a   *)
(* timer, and batches wait only behind one on its way.                       *)
Moving(e, r) ==
    /\ Len(e.writers[r].pending) < Batch
    /\ e.writers[r].pending # <<>> => e.writers[r].timer
    /\ e.writers[r].batches # <<>> => SentIn(e, r)

-----------------------------------------------------------------------------
(* What Append does to the elements,                                         *)
LEMMA ScanAppend ==
    ASSUME NEW S, NEW s \in Seq(S), NEW e \in S
    PROVE  /\ Append(s, e) \in Seq(S) /\ Len(Append(s, e)) = Len(s) + 1
           /\ Append(s, e) # <<>>
           /\ ToSet(Append(s, e)) = ToSet(s) \cup {e}
<1>1. Append(s, e) \in Seq(S) /\ Len(Append(s, e)) = Len(s) + 1
  OBVIOUS
<1>2. DOMAIN Append(s, e) = 1 .. Len(s) + 1 /\ DOMAIN s = 1 .. Len(s) /\ Len(s) \in Nat
  BY <1>1
<1>3. \A i \in 1 .. Len(s) : Append(s, e)[i] = s[i]
  BY <1>2
<1>4. Append(s, e)[Len(s) + 1] = e
  OBVIOUS
<1>5. ToSet(Append(s, e)) \subseteq ToSet(s) \cup {e}
  <2> SUFFICES ASSUME NEW i \in 1 .. Len(s) + 1
               PROVE  Append(s, e)[i] \in ToSet(s) \cup {e}
    BY <1>2 DEF ToSet
  <2>1. CASE i = Len(s) + 1
    BY <2>1, <1>4
  <2>2. CASE i # Len(s) + 1
    BY <2>2, <1>2, <1>3 DEF ToSet
  <2> QED
    BY <2>1, <2>2
<1>6. ToSet(s) \cup {e} \subseteq ToSet(Append(s, e))
  <2>1. \A i \in 1 .. Len(s) : s[i] \in ToSet(Append(s, e))
    BY <1>2, <1>3 DEF ToSet
  <2>2. e \in ToSet(Append(s, e))
    BY <1>2, <1>4 DEF ToSet
  <2> QED
    BY <2>1, <2>2, <1>2 DEF ToSet
<1> QED
  BY <1>1, <1>2, <1>5, <1>6

(* what there is in the empty sequence,                                      *)
LEMMA ScanEmpty == ToSet(<<>>) = {}
  BY DEF ToSet

(* what Head and Tail do to the elements,                                    *)
LEMMA ScanTail ==
    ASSUME NEW S, NEW s \in Seq(S), s # <<>>
    PROVE  /\ Head(s) \in S /\ Tail(s) \in Seq(S) /\ Len(Tail(s)) = Len(s) - 1
           /\ Len(s) \in Nat \ {0}
           /\ \A i \in 1 .. Len(s) - 1 : Tail(s)[i] = s[i + 1]
           /\ ToSet(s) = {Head(s)} \cup ToSet(Tail(s))
<1>1. /\ Tail(s) \in Seq(S) /\ Len(Tail(s)) = Len(s) - 1 /\ Len(s) \in Nat \ {0}
      /\ Head(s) = s[1] /\ Head(s) \in S
  OBVIOUS
<1>2. DOMAIN s = 1 .. Len(s) /\ DOMAIN Tail(s) = 1 .. Len(s) - 1
  BY <1>1
<1>3. \A i \in 1 .. Len(s) - 1 : Tail(s)[i] = s[i + 1]
  BY <1>1
<1>4. ToSet(s) \subseteq {Head(s)} \cup ToSet(Tail(s))
  <2> SUFFICES ASSUME NEW i \in 1 .. Len(s)
               PROVE  s[i] \in {Head(s)} \cup ToSet(Tail(s))
    BY <1>2 DEF ToSet
  <2>1. CASE i = 1
    BY <2>1, <1>1
  <2>2. CASE i # 1
    <3>1. i - 1 \in 1 .. Len(s) - 1 /\ (i - 1) + 1 = i
      BY <2>2, <1>1
    <3> QED
      BY <3>1, <1>2, <1>3 DEF ToSet
  <2> QED
    BY <2>1, <2>2
<1>5. {Head(s)} \cup ToSet(Tail(s)) \subseteq ToSet(s)
  <2>1. \A i \in 1 .. Len(s) - 1 : i + 1 \in 1 .. Len(s)
    BY <1>1
  <2>2. 1 \in 1 .. Len(s)
    BY <1>1
  <2> QED
    BY <2>1, <2>2, <1>1, <1>2, <1>3 DEF ToSet
<1> QED
  BY <1>1, <1>3, <1>4, <1>5

(* and what a cut after the first n does.                                    *)
LEMMA ScanSplit ==
    ASSUME NEW S, NEW s \in Seq(S), NEW n \in 0 .. Len(s)
    PROVE  /\ SubSeq(s, 1, n) \in Seq(S) /\ SubSeq(s, n + 1, Len(s)) \in Seq(S)
           /\ Len(SubSeq(s, n + 1, Len(s))) = Len(s) - n
           /\ ToSet(SubSeq(s, 1, n)) \cup ToSet(SubSeq(s, n + 1, Len(s))) = ToSet(s)
           /\ n = Len(s) => SubSeq(s, n + 1, Len(s)) = <<>>
           /\ n = 0 => ToSet(SubSeq(s, 1, n)) = {}
<1> DEFINE a == SubSeq(s, 1, n)
           b == SubSeq(s, n + 1, Len(s))
<1>1. Len(s) \in Nat /\ DOMAIN s = 1 .. Len(s) /\ \A i \in 1 .. Len(s) : s[i] \in S
  OBVIOUS
<1>2. /\ a \in Seq(S) /\ Len(a) = n /\ DOMAIN a = 1 .. n
      /\ \A i \in 1 .. n : a[i] = s[i]
  BY <1>1
<1>3. /\ b \in Seq(S) /\ Len(b) = Len(s) - n /\ DOMAIN b = 1 .. Len(s) - n
      /\ \A i \in 1 .. Len(s) - n : b[i] = s[i + n]
  <2>1. n \in Nat /\ n + 1 \in Nat /\ n <= Len(s)
    BY <1>1
  <2>2. \A i \in n + 1 .. Len(s) : s[i] \in S
    BY <1>1, <2>1
  <2>3. b \in Seq(S)
    BY <1>1, <2>1, <2>2
  <2>4. Len(b) = Len(s) - n
    <3>1. Len(b) = IF n + 1 <= Len(s) THEN Len(s) - (n + 1) + 1 ELSE 0
      BY <1>1, <2>1, <2>2, SubSeqProperties
    <3> HIDE DEF b
    <3>2. CASE n + 1 <= Len(s)
      BY <3>1, <3>2, <1>1, <2>1
    <3>3. CASE ~(n + 1 <= Len(s))
      <4>1. n = Len(s) /\ Len(s) - n = 0
        <5>1. \A k, j \in Nat : k <= j /\ ~(k + 1 <= j) => k = j /\ j - k = 0
          OBVIOUS
        <5> QED
          BY <3>3, <1>1, <2>1, <5>1
      <4> QED
        BY <3>1, <3>3, <4>1
    <3> QED
      BY <3>2, <3>3
  <2>5. \A i \in 1 .. Len(s) - n : b[i] = s[i + n]
    <3>1. \A i \in 1 .. Len(s) - (n + 1) + 1 : b[i] = s[(n + 1) + i - 1]
      BY <1>1, <2>1, <2>2, SubSeqProperties
    <3>2. Len(s) - (n + 1) + 1 = Len(s) - n
      BY <1>1, <2>1
    <3>3. \A i \in 1 .. Len(s) - n : (n + 1) + i - 1 = i + n
      BY <1>1, <2>1
    <3> QED
      BY <3>1, <3>2, <3>3
  <2>6. DOMAIN b = 1 .. Len(s) - n
    BY <2>3, <2>4
  <2> QED
    BY <2>3, <2>4, <2>5, <2>6
<1>4. ToSet(a) \cup ToSet(b) \subseteq ToSet(s)
  <2>1. \A i \in 1 .. n : a[i] \in ToSet(s)
    BY <1>1, <1>2 DEF ToSet
  <2>2. \A i \in 1 .. Len(s) - n : i + n \in 1 .. Len(s)
    BY <1>1
  <2>3. \A i \in 1 .. Len(s) - n : b[i] \in ToSet(s)
    BY <2>2, <1>1, <1>3 DEF ToSet
  <2> HIDE DEF a, b
  <2> QED
    BY <2>1, <2>3, <1>2, <1>3 DEF ToSet
<1>5. ToSet(s) \subseteq ToSet(a) \cup ToSet(b)
  <2> SUFFICES ASSUME NEW i \in 1 .. Len(s)
               PROVE  s[i] \in ToSet(a) \cup ToSet(b)
    BY <1>1 DEF ToSet
  <2> HIDE DEF a, b
  <2>1. CASE i <= n
    <3>1. i \in 1 .. n
      BY <2>1
    <3> QED
      BY <3>1, <1>2 DEF ToSet
  <2>2. CASE ~(i <= n)
    <3>1. i - n \in 1 .. Len(s) - n /\ (i - n) + n = i
      BY <2>2, <1>1
    <3> QED
      BY <3>1, <1>3 DEF ToSet
  <2> QED
    BY <2>1, <2>2
<1>6. n = Len(s) => b = <<>>
  BY <1>3, <1>1
<1>7. n = 0 => ToSet(a) = {}
  <2> HIDE DEF a, b
  <2> QED
    BY <1>2 DEF ToSet
<1> QED
  BY <1>2, <1>3, <1>4, <1>5, <1>6, <1>7

-----------------------------------------------------------------------------
(* The types of a writer and its records.                                    *)
LEMMA ScanDisk ==
    ASSUME NEW d \in Disk, NEW r \in Runs
    PROVE  /\ d = [writers |-> d.writers, tail |-> d.tail]
           /\ d.writers \in [Runs -> Writer] /\ d.writers[r] \in Writer /\ d.tail \in Seq(Record)
           /\ DOMAIN d.tail = 1 .. Len(d.tail) /\ Len(d.tail) \in Nat
           /\ d.writers[r] = [folder |-> d.writers[r].folder, pending |-> d.writers[r].pending,
                              timer |-> d.writers[r].timer, batches |-> d.writers[r].batches,
                              failed |-> d.writers[r].failed]
           /\ d.writers[r].pending \in Seq(Items) /\ d.writers[r].batches \in Seq(SUBSET Items)
           /\ d.writers[r].timer \in BOOLEAN /\ d.writers[r].failed \in BOOLEAN
           /\ Len(d.writers[r].pending) \in Nat
<1>1. d \in [writers : [Runs -> Writer], tail : Seq(Record)]
  BY DEF Disk
<1>2. /\ d = [writers |-> d.writers, tail |-> d.tail]
      /\ d.writers \in [Runs -> Writer] /\ d.writers[r] \in Writer /\ d.tail \in Seq(Record)
  BY <1>1
<1>3. d.writers[r] \in [folder : Folders \cup {"none"}, pending : Seq(Items), timer : BOOLEAN,
                        batches : Seq(SUBSET Items), failed : BOOLEAN]
  BY <1>2 DEF Writer
<1> QED
  BY <1>2, <1>3

(* Chained sends the next batch unless one is on its way: nothing is lost    *)
(* and no batch is left behind.                                              *)
LEMMA ScanChained ==
    ASSUME NEW d \in Disk, NEW r \in Runs, NEW c, c = Chained(d, r),
           d.writers[r].folder \in Folders
    PROVE  /\ Moves(d, c, r)
           /\ Held(c, r) = Held(d, r)
           /\ c.writers[r].pending = d.writers[r].pending
           /\ c.writers[r].timer = d.writers[r].timer
           /\ c.writers[r].batches # <<>> => SentIn(c, r)
           /\ SentIn(d, r) => SentIn(c, r)
<1>1. CASE d.writers[r].batches = <<>> \/ SentIn(d, r)
  <2>1. c = d
    BY <1>1 DEF Chained, SentIn
  <2>2. Len(d.tail) <= Len(d.tail)
    BY ScanDisk
  <2> QED
    BY <2>1, <2>2, <1>1 DEF Moves
<1>2. CASE d.writers[r].batches # <<>> /\ ~SentIn(d, r)
  <2> DEFINE w == d.writers[r]
             b == [run |-> r, folder |-> w.folder, items |-> Head(w.batches)]
             v == [w EXCEPT !.batches = Tail(w.batches)]
  <2>1. /\ Head(w.batches) \in SUBSET Items /\ Tail(w.batches) \in Seq(SUBSET Items)
        /\ ToSet(w.batches) = {Head(w.batches)} \cup ToSet(Tail(w.batches))
    <3>1. w.batches \in Seq(SUBSET Items)
      BY ScanDisk
    <3> QED
      BY <3>1, <1>2, ScanTail
  <2>2. b \in Record
    BY <2>1 DEF Record
  <2>3. /\ v \in Writer /\ v.batches = Tail(w.batches)
        /\ v.folder = w.folder /\ v.pending = w.pending /\ v.timer = w.timer /\ v.failed = w.failed
    <3>1. w \in Writer
      BY ScanDisk
    <3> HIDE DEF w
    <3> QED
      BY <2>1, <3>1 DEF Writer
  <2>4. /\ c = [writers |-> [d.writers EXCEPT ![r].batches = Tail(w.batches)],
                tail |-> Append(d.tail, b)]
    BY <1>2, ScanDisk DEF Chained, SentIn
  <2>5. [d.writers EXCEPT ![r].batches = Tail(w.batches)] = [d.writers EXCEPT ![r] = v]
    OBVIOUS
  <2>6. /\ c.writers = [d.writers EXCEPT ![r] = v] /\ c.tail = Append(d.tail, b)
        /\ c = [writers |-> c.writers, tail |-> c.tail]
    BY <2>4, <2>5
  <2>7. c.writers \in [Runs -> Writer] /\ c.writers[r] = v
        /\ \A q \in Runs \ {r} : c.writers[q] = d.writers[q]
    <3> HIDE DEF v
    <3> QED
      BY <2>6, <2>3, ScanDisk
  <2>8. /\ c.tail \in Seq(Record) /\ Len(c.tail) = Len(d.tail) + 1
        /\ DOMAIN c.tail = 1 .. Len(d.tail) + 1
        /\ \A n \in 1 .. Len(d.tail) : c.tail[n] = d.tail[n]
        /\ c.tail[Len(d.tail) + 1] = b
    <3>1. d.tail \in Seq(Record)
      BY ScanDisk
    <3> HIDE DEF b
    <3> QED
      BY <2>6, <2>2, <3>1, AppendProperties
  <2>9. c \in Disk
    BY <2>6, <2>7, <2>8 DEF Disk
  <2>10. DOMAIN d.tail = 1 .. Len(d.tail) /\ Len(d.tail) \in Nat
    BY ScanDisk
  <2>11. \A q \in Runs : {n \in DOMAIN c.tail : c.tail[n].run = q}
                           = {n \in DOMAIN d.tail : d.tail[n].run = q}
                              \cup IF q = r THEN {Len(d.tail) + 1} ELSE {}
    <3>1. b.run = r
      OBVIOUS
    <3> HIDE DEF b
    <3> QED
      BY <3>1, <2>8, <2>10
  <2>12. \A q \in Runs \ {r} : /\ SentIn(c, q) <=> SentIn(d, q)
                               /\ OnTheirWay(c, q) = OnTheirWay(d, q)
    <3> SUFFICES ASSUME NEW q \in Runs \ {r}
                 PROVE  /\ SentIn(c, q) <=> SentIn(d, q)
                        /\ OnTheirWay(c, q) = OnTheirWay(d, q)
      OBVIOUS
    <3>1. {n \in DOMAIN c.tail : c.tail[n].run = q} = {n \in DOMAIN d.tail : d.tail[n].run = q}
      BY <2>11
    <3>2. \A n \in {m \in DOMAIN d.tail : d.tail[m].run = q} : c.tail[n] = d.tail[n]
      BY <2>8, <2>10
    <3>3. SentIn(c, q) <=> SentIn(d, q)
      BY <3>1 DEF SentIn
    <3> QED
      BY <3>1, <3>2, <3>3 DEF OnTheirWay
  <2>13. SentIn(c, r)
    BY <2>11, <2>8 DEF SentIn
  <2>14. OnTheirWay(c, r) = Head(w.batches)
    <3>1. {n \in DOMAIN c.tail : c.tail[n].run = r} = {Len(d.tail) + 1}
      BY <2>11, <1>2 DEF SentIn
    <3>2. c.tail[Len(d.tail) + 1].items = Head(w.batches)
      BY <2>8
    <3> QED
      BY <3>1, <3>2 DEF OnTheirWay
  <2>15. OnTheirWay(d, r) = {}
    BY <1>2 DEF OnTheirWay, SentIn
  <2>16. Held(c, r) = Held(d, r)
    <3>1. UNION ToSet(w.batches) = Head(w.batches) \cup UNION ToSet(Tail(w.batches))
      BY <2>1
    <3>2. c.writers[r].pending = w.pending /\ c.writers[r].batches = Tail(w.batches)
      BY <2>3, <2>7
    <3> HIDE DEF v, w
    <3>3. Held(c, r) = ToSet(w.pending) \cup (UNION ToSet(Tail(w.batches))) \cup Head(w.batches)
      BY <3>2, <2>14 DEF Held
    <3>4. Held(d, r) = ToSet(w.pending) \cup (UNION ToSet(w.batches))
      BY <2>15 DEF Held, w
    <3> QED
      BY <3>1, <3>3, <3>4
  <2>17. TailFolders(d) => TailFolders(c)
    <3> SUFFICES ASSUME TailFolders(d), NEW n \in DOMAIN c.tail
                 PROVE  c.tail[n].folder = c.writers[c.tail[n].run].folder
      BY DEF TailFolders
    <3>1. CASE n = Len(d.tail) + 1
      <4>1. c.tail[n].folder = w.folder /\ c.tail[n].run = r
        BY <3>1, <2>8
      <4> QED
        BY <4>1, <2>3, <2>7
    <3>2. CASE n # Len(d.tail) + 1
      <4>1. n \in DOMAIN d.tail /\ c.tail[n] = d.tail[n]
        BY <3>2, <2>8, <2>10
      <4>2. d.tail[n] \in Record
        <5>1. d.tail \in Seq(Record)
          BY ScanDisk
        <5> QED
          BY <5>1, <4>1
      <4>3. d.tail[n].run \in Runs
        BY <4>2 DEF Record
      <4>4. c.writers[d.tail[n].run].folder = d.writers[d.tail[n].run].folder
        BY <4>3, <2>3, <2>7
      <4> QED
        BY <4>1, <4>4 DEF TailFolders
    <3> QED
      BY <3>1, <3>2
  <2>18. Len(d.tail) <= Len(c.tail)
    BY <2>8, <2>10
  <2>19. Moves(d, c, r)
    BY <2>3, <2>7, <2>9, <2>12, <2>17, <2>18 DEF Moves
  <2> QED
    BY <2>7, <2>13, <2>16, <2>19
<1> QED
  BY <1>1, <1>2

(* Two moves of a writer are one.                                            *)
LEMMA ScanMovesOn ==
    ASSUME NEW d, NEW e, NEW f, NEW r, Moves(d, e, r), Moves(e, f, r),
           Len(d.tail) \in Int, Len(e.tail) \in Int, Len(f.tail) \in Int
    PROVE  Moves(d, f, r)
<1>1. Len(d.tail) <= Len(f.tail)
  BY DEF Moves
<1> QED
  BY <1>1 DEF Moves

(* A writer is given other records.                                          *)
LEMMA ScanReplace ==
    ASSUME NEW d \in Disk, NEW r \in Runs, NEW v \in Writer, NEW e \in Disk,
           e.tail = d.tail, e.writers[r] = v, \A q \in Runs \ {r} : e.writers[q] = d.writers[q],
           v.folder = d.writers[r].folder, v.failed = d.writers[r].failed
    PROVE  /\ Moves(d, e, r)
           /\ e.writers[r] = v
           /\ SentIn(e, r) <=> SentIn(d, r)
           /\ OnTheirWay(e, r) = OnTheirWay(d, r)
<1>1. d \in [writers : [Runs -> Writer], tail : Seq(Record)]
  BY DEF Disk
<1>3. e.tail = d.tail
  OBVIOUS
<1>4. \A q \in Runs : /\ SentIn(e, q) <=> SentIn(d, q)
                      /\ OnTheirWay(e, q) = OnTheirWay(d, q)
  BY <1>3 DEF SentIn, OnTheirWay
<1>5. e.writers[r] = v /\ \A q \in Runs \ {r} : e.writers[q] = d.writers[q]
  OBVIOUS
<1>6. \A q \in Runs : e.writers[q].folder = d.writers[q].folder
  BY <1>5
<1>7. \A n \in DOMAIN d.tail : d.tail[n].run \in Runs
  <2>1. \A n \in DOMAIN d.tail : d.tail[n] \in Record
    BY <1>1
  <2> QED
    BY <2>1 DEF Record
<1>8. TailFolders(d) => TailFolders(e)
  BY <1>3, <1>6, <1>7 DEF TailFolders
<1>9. Len(d.tail) <= Len(e.tail)
  BY <1>3, ScanDisk
<1> QED
  BY <1>4, <1>5, <1>8, <1>9 DEF Moves

(* FlushNow makes a batch of what waits and has it sent,                     *)
LEMMA ScanFlush ==
    ASSUME NEW d \in Disk, NEW r \in Runs, NEW f, f = FlushNow(d, r),
           d.writers[r].folder \in Folders, Batch \in Nat \ {0}
    PROVE  /\ Moves(d, f, r)
           /\ Held(f, r) = Held(d, r)
           /\ Len(f.writers[r].pending) <= Len(d.writers[r].pending)
           /\ Len(d.writers[r].pending) <= Batch => f.writers[r].pending = <<>>
           /\ f.writers[r].batches # <<>> => SentIn(f, r)
           /\ SentIn(d, r) => SentIn(f, r)
<1> DEFINE w == d.writers[r]
           n == IF Len(w.pending) < Batch THEN Len(w.pending) ELSE Batch
           p == SubSeq(w.pending, n + 1, Len(w.pending))
           x == ToSet(SubSeq(w.pending, 1, n))
           b == IF n = 0 THEN w.batches ELSE Append(w.batches, x)
           v == [w EXCEPT !.timer = FALSE, !.pending = p, !.batches = b]
           e == [d EXCEPT !.writers[r] = v]
<1>1. /\ w \in Writer /\ w.pending \in Seq(Items) /\ w.batches \in Seq(SUBSET Items)
      /\ Len(w.pending) \in Nat
  BY ScanDisk
<1>2. n \in 0 .. Len(w.pending) /\ n <= Batch
  BY <1>1
<1>3. /\ p \in Seq(Items) /\ Len(p) = Len(w.pending) - n
      /\ x \cup ToSet(p) = ToSet(w.pending)
      /\ n = Len(w.pending) => p = <<>>
      /\ n = 0 => x = {}
  <2> HIDE DEF n
  <2> QED
    BY <1>1, <1>2, ScanSplit
<1>4. x \subseteq Items
  <2>1. ToSet(w.pending) \subseteq Items
    BY <1>1 DEF ToSet
  <2> HIDE DEF x, p
  <2> QED
    BY <2>1, <1>3
<1>5. /\ b \in Seq(SUBSET Items)
      /\ (UNION ToSet(b)) = (UNION ToSet(w.batches)) \cup x
  <2> HIDE DEF n, x
  <2>1. CASE n = 0
    BY <2>1, <1>1, <1>3
  <2>2. CASE n # 0
    <3>1. b = Append(w.batches, x)
      BY <2>2
    <3>2. b \in Seq(SUBSET Items) /\ ToSet(b) = ToSet(w.batches) \cup {x}
      BY <3>1, <1>1, <1>4, ScanAppend
    <3> HIDE DEF b
    <3> QED
      BY <3>2
  <2> QED
    BY <2>1, <2>2
<1>6. /\ v \in Writer /\ v.pending = p /\ v.batches = b /\ v.timer = FALSE
      /\ v.folder = w.folder /\ v.failed = w.failed
  <2> HIDE DEF w, p, b
  <2> QED
    BY <1>1, <1>3, <1>5 DEF Writer
<1>7. f = Chained(e, r)
  BY DEF FlushNow
<1>8. /\ Moves(d, e, r) /\ e.writers[r] = v
      /\ SentIn(e, r) <=> SentIn(d, r)
      /\ OnTheirWay(e, r) = OnTheirWay(d, r)
  <2>1. v.folder = d.writers[r].folder /\ v.failed = d.writers[r].failed
    BY <1>6
  <2>2. /\ e.tail = d.tail /\ e.writers[r] = v /\ \A q \in Runs \ {r} : e.writers[q] = d.writers[q]
        /\ e \in Disk /\ v \in Writer
    <3>1. d \in [writers : [Runs -> Writer], tail : Seq(Record)] /\ v \in Writer
      BY <1>6 DEF Disk
    <3> HIDE DEF v
    <3> QED
      BY <3>1 DEF Disk
  <2> HIDE DEF e, v, w
  <2> QED
    BY <2>1, <2>2, ScanReplace
<1> HIDE DEF e, v, b, x, p, n
<1>9. e \in Disk /\ e.writers[r].folder \in Folders
  BY <1>6, <1>8 DEF Moves
<1>10. /\ Moves(e, f, r)
       /\ Held(f, r) = Held(e, r)
       /\ f.writers[r].pending = e.writers[r].pending
       /\ f.writers[r].batches # <<>> => SentIn(f, r)
       /\ SentIn(e, r) => SentIn(f, r)
  BY <1>7, <1>9, ScanChained
<1>11. Moves(d, f, r)
  <2>1. f \in Disk
    BY <1>10 DEF Moves
  <2>2. Len(d.tail) \in Int /\ Len(e.tail) \in Int /\ Len(f.tail) \in Int
    BY <2>1, <1>9, ScanDisk
  <2> QED
    BY <2>2, <1>8, <1>10, ScanMovesOn
<1>12. Held(e, r) = Held(d, r)
  <2>1. Held(e, r) = ToSet(p) \cup (UNION ToSet(b)) \cup OnTheirWay(d, r)
    BY <1>6, <1>8 DEF Held
  <2>2. Held(d, r) = ToSet(w.pending) \cup (UNION ToSet(w.batches)) \cup OnTheirWay(d, r)
    BY DEF Held
  <2> QED
    BY <2>1, <2>2, <1>3, <1>5
<1>13. Len(p) <= Len(w.pending)
  BY <1>1, <1>2, <1>3
<1>14. Len(w.pending) <= Batch => p = <<>>
  <2> SUFFICES ASSUME Len(w.pending) <= Batch
               PROVE  n = Len(w.pending)
    BY <1>3
  <2> QED
    BY <1>1 DEF n
<1> QED
  BY <1>6, <1>8, <1>10, <1>11, <1>12, <1>13, <1>14

(* and Enqueue adds a record and sees to its timer, or its flush.            *)
LEMMA ScanEnqueue ==
    ASSUME NEW d \in Disk, NEW r \in Runs, NEW i \in Items, NEW f, f = Enqueue(d, r, i),
           d.writers[r].folder \in Folders, Batch \in Nat \ {0}, Moving(d, r)
    PROVE  /\ Moves(d, f, r)
           /\ Held(f, r) = Held(d, r) \cup {i}
           /\ Moving(f, r)
<1> DEFINE w == d.writers[r]
           p == Append(w.pending, i)
           v == [w EXCEPT !.pending = p]
           u == [v EXCEPT !.timer = TRUE]
           e == [d EXCEPT !.writers[r] = v]
           t == [e EXCEPT !.writers[r] = u]
<1>1. /\ w \in Writer /\ w.pending \in Seq(Items) /\ w.batches \in Seq(SUBSET Items)
      /\ Len(w.pending) \in Nat
  BY ScanDisk
<1>2. /\ p \in Seq(Items) /\ Len(p) = Len(w.pending) + 1
      /\ ToSet(p) = ToSet(w.pending) \cup {i}
  BY <1>1, ScanAppend
<1>3. Len(w.pending) < Batch
  BY DEF Moving
<1>4. /\ v \in Writer /\ v.pending = p /\ v.batches = w.batches /\ v.timer = w.timer
      /\ v.folder = w.folder /\ v.failed = w.failed
  <2> HIDE DEF w, p
  <2> QED
    BY <1>1, <1>2 DEF Writer
<1>5. /\ u \in Writer /\ u.pending = p /\ u.batches = w.batches /\ u.timer
      /\ u.folder = w.folder /\ u.failed = w.failed
  <2> HIDE DEF v
  <2> QED
    BY <1>4 DEF Writer
<1>6. /\ Moves(d, e, r) /\ e.writers[r] = v
      /\ SentIn(e, r) <=> SentIn(d, r)
      /\ OnTheirWay(e, r) = OnTheirWay(d, r)
  <2>1. v.folder = d.writers[r].folder /\ v.failed = d.writers[r].failed
    BY <1>4
  <2>2. /\ e.tail = d.tail /\ e.writers[r] = v /\ \A q \in Runs \ {r} : e.writers[q] = d.writers[q]
        /\ e \in Disk /\ v \in Writer
    <3>1. d \in [writers : [Runs -> Writer], tail : Seq(Record)] /\ v \in Writer
      BY <1>4 DEF Disk
    <3> HIDE DEF v
    <3> QED
      BY <3>1 DEF Disk
  <2> HIDE DEF e, v, w
  <2> QED
    BY <2>1, <2>2, ScanReplace
<1>7. f = IF Len(p) >= Batch THEN FlushNow(e, r) ELSE [e EXCEPT !.writers[r].timer = TRUE]
  BY DEF Enqueue
<1>8. [e EXCEPT !.writers[r].timer = TRUE] = t
  BY <1>6
<1> HIDE DEF t, e, u, v, p
<1>9. e \in Disk /\ e.writers[r].folder \in Folders /\ Len(e.tail) \in Int /\ Len(d.tail) \in Int
  BY <1>4, <1>6, ScanDisk DEF Moves
<1>10. Held(e, r) = Held(d, r) \cup {i}
  <2>1. Held(e, r) = ToSet(p) \cup (UNION ToSet(w.batches)) \cup OnTheirWay(d, r)
    BY <1>4, <1>6 DEF Held
  <2>2. Held(d, r) = ToSet(w.pending) \cup (UNION ToSet(w.batches)) \cup OnTheirWay(d, r)
    BY DEF Held
  <2> QED
    BY <2>1, <2>2, <1>2
<1>11. w.batches # <<>> => SentIn(e, r)
  BY <1>6 DEF Moving
<1>12. CASE Len(p) >= Batch
  <2>1. Len(p) <= Batch
    BY <1>1, <1>2, <1>3
  <2>2. f = FlushNow(e, r)
    BY <1>12, <1>7
  <2>3. /\ Moves(e, f, r)
        /\ Held(f, r) = Held(e, r)
        /\ Len(e.writers[r].pending) <= Batch => f.writers[r].pending = <<>>
        /\ f.writers[r].batches # <<>> => SentIn(f, r)
    BY <2>2, <1>9, ScanFlush
  <2>4. f.writers[r].pending = <<>>
    BY <2>1, <2>3, <1>4, <1>6
  <2>5. f \in Disk /\ Len(f.tail) \in Int
    BY <2>3, ScanDisk DEF Moves
  <2>6. Moves(d, f, r)
    BY <2>3, <2>5, <1>6, <1>9, ScanMovesOn
  <2>7. Moving(f, r)
    BY <2>3, <2>4 DEF Moving
  <2> QED
    BY <2>3, <2>6, <2>7, <1>10
<1>13. CASE ~(Len(p) >= Batch)
  <2>1. f = t
    BY <1>13, <1>7, <1>8
  <2>2. /\ Moves(e, f, r) /\ f.writers[r] = u
        /\ SentIn(f, r) <=> SentIn(e, r)
        /\ OnTheirWay(f, r) = OnTheirWay(e, r)
    <3>1. u \in Writer /\ u.folder = e.writers[r].folder /\ u.failed = e.writers[r].failed
      BY <1>4, <1>5, <1>6
    <3>2. e \in [writers : [Runs -> Writer], tail : Seq(Record)]
      BY <1>9 DEF Disk
    <3>3. /\ f \in Disk /\ f.tail = e.tail /\ f.writers[r] = u
          /\ \A q \in Runs \ {r} : f.writers[q] = e.writers[q]
      <4>1. f = [e EXCEPT !.writers[r] = u]
        BY <2>1 DEF t
      <4>2. f.tail = e.tail /\ f.writers = [e.writers EXCEPT ![r] = u]
        BY <4>1, <3>2
      <4>3. [e.writers EXCEPT ![r] = u] \in [Runs -> Writer]
        BY <3>1, <3>2
      <4>4. f = [e EXCEPT !.writers = [e.writers EXCEPT ![r] = u]]
        BY <4>1, <3>2
      <4>5. f \in Disk
        BY <4>3, <4>4, <3>2 DEF Disk
      <4> QED
        BY <4>2, <4>5, <3>2
    <3> QED
      BY <3>1, <3>3, <1>9, ScanReplace
  <2>3. f \in Disk /\ Len(f.tail) \in Int
    BY <2>2, ScanDisk DEF Moves
  <2>4. Moves(d, f, r)
    BY <2>2, <2>3, <1>6, <1>9, ScanMovesOn
  <2>5. Moving(f, r)
    <3>1. Len(p) < Batch
      BY <1>1, <1>2, <1>13
    <3> QED
      BY <3>1, <2>2, <1>5, <1>11 DEF Moving
  <2>6. Held(f, r) = Held(e, r)
    BY <2>2, <1>4, <1>5, <1>6 DEF Held
  <2> QED
    BY <2>4, <2>5, <2>6, <1>10
<1> QED
  BY <1>12, <1>13

-----------------------------------------------------------------------------
(* What the lemmas use of the invariant.                                     *)
LEMMA ScanFacts ==
    ASSUME ScanAssumption, IInv
    PROVE  /\ Workers \in Nat \ {0} /\ Batch \in Nat \ {0} /\ MaxRun \in Nat \ {0}
           /\ Runs = 1 .. MaxRun
           /\ pane \in [open : BOOLEAN, folder : Folders, map : BOOLEAN, wanted : 0 .. MaxRun,
                        leaflet : {"unloaded", "loaded", "broken"}]
           /\ gen \in [run : Nat, folder : Folders, stage : Stages, ahead : Nat,
                       left : SUBSET Items, results : SUBSET Items]
           /\ gen.run \in 0 .. MaxRun /\ gen.ahead \in 0 .. Len(disk.tail)
           /\ gen.left \subseteq Items /\ gen.results \subseteq Items
           /\ server \in [Folders -> SUBSET Items]
           /\ disk \in Disk /\ disk.tail \in Seq(Record) /\ Len(disk.tail) \in Nat
           /\ \A r \in Runs : Moving(disk, r)
           /\ TailFolders(disk)
  BY ScanDisk DEF ScanAssumption, IInv, Typed, TypeOK, Disk, Runs, NothingIsStranded, OfFolder,
                  Moving, TailFolders, Sent, SentIn

(* When a writer has moved the writers are as they should be,                *)
LEMMA ScanMoved ==
    ASSUME ScanAssumption, IInv, NEW r \in Runs,
           disk.writers[r].folder \in Folders,
           Moves(disk, disk', r), Moving(disk', r),
           Held(disk', r) \subseteq Held(disk, r) \cup ToSet(ItemsOf[disk.writers[r].folder]),
           Begun(r)', \A q \in Runs : Begun(q) => Begun(q)'
    PROVE  /\ disk' \in Disk
           /\ \A q \in Runs : Moving(disk', q)
           /\ NothingIsStranded' /\ OfFolder' /\ Unborn'
           /\ Len(disk'.tail) \in Nat /\ Len(disk.tail) <= Len(disk'.tail)
<1>1. /\ disk \in Disk /\ disk' \in Disk /\ TailFolders(disk) /\ TailFolders(disk')
      /\ Len(disk.tail) <= Len(disk'.tail)
      /\ \A q \in Runs \ {r} : /\ disk'.writers[q] = disk.writers[q]
                               /\ SentIn(disk', q) <=> SentIn(disk, q)
                               /\ OnTheirWay(disk', q) = OnTheirWay(disk, q)
      /\ disk'.writers[r].folder = disk.writers[r].folder
  BY ScanFacts DEF Moves
<1>2. \A q \in Runs : Moving(disk', q)
  <2>1. \A q \in Runs : Moving(disk, q)
    BY ScanFacts
  <2> QED
    BY <2>1, <1>1 DEF Moving
<1>3. NothingIsStranded'
  BY <1>2 DEF NothingIsStranded, Moving, Sent, SentIn
<1>4. \A q \in Runs \ {r} : Held(disk', q) = Held(disk, q)
  BY <1>1 DEF Held
<1>5. OfFolder'
  <2>1. \A q \in Runs : disk'.writers[q].folder \in Folders
             => Held(disk', q) \subseteq ToSet(ItemsOf[disk'.writers[q].folder])
    <3>1. \A q \in Runs : disk.writers[q].folder \in Folders
             => Held(disk, q) \subseteq ToSet(ItemsOf[disk.writers[q].folder])
      BY DEF IInv, OfFolder
    <3> QED
      BY <3>1, <1>1, <1>4
  <2>2. \A q \in Runs : disk'.writers[q].folder \in Folders
                         \/ (disk'.writers[q] = NoWriter /\ ~SentIn(disk', q))
    <3>1. \A q \in Runs : disk.writers[q].folder \in Folders
                         \/ (disk.writers[q] = NoWriter /\ ~SentIn(disk, q))
      BY DEF IInv, OfFolder, Sent, SentIn
    <3> QED
      BY <3>1, <1>1
  <2> QED
    BY <2>1, <2>2, <1>1 DEF OfFolder, TailFolders, Sent, SentIn
<1>6. Unborn'
  <2>1. \A q \in Runs : ~Begun(q) => disk.writers[q] = NoWriter /\ ~SentIn(disk, q)
    BY DEF IInv, Unborn, Sent, SentIn
  <2>2. \A q \in Runs : ~Begun(q)' => disk'.writers[q] = NoWriter /\ ~SentIn(disk', q)
    BY <2>1, <1>1
  <2> QED
    BY <2>2 DEF Unborn, Sent, SentIn
<1>7. Len(disk'.tail) \in Nat
  BY <1>1, ScanDisk
<1> QED
  BY <1>1, <1>2, <1>3, <1>5, <1>6, <1>7

(* when none has,                                                            *)
LEMMA ScanStill ==
    ASSUME ScanAssumption, IInv, UNCHANGED disk, \A q \in Runs : Begun(q) => Begun(q)'
    PROVE  /\ disk' \in Disk
           /\ \A q \in Runs : Moving(disk', q)
           /\ NothingIsStranded' /\ OfFolder' /\ Unborn'
<1>1. disk \in Disk /\ \A q \in Runs : Moving(disk, q)
  BY ScanFacts
<1>2. NothingIsStranded'
  BY DEF IInv, NothingIsStranded, Sent
<1>3. OfFolder'
  <2>1. OfFolder
    BY DEF IInv
  <2>2. disk' = disk /\ \A q \in Runs : Held(disk', q) = Held(disk, q) /\ (Sent(q)' <=> Sent(q))
    BY DEF Sent
  <2> QED
    BY <2>1, <2>2 DEF OfFolder
<1>4. Unborn'
  BY DEF IInv, Unborn, Sent
<1> QED
  BY <1>1, <1>2, <1>3, <1>4

(* and when one is flushed.                                                  *)
LEMMA ScanFlushed ==
    ASSUME ScanAssumption, IInv, NEW r \in Runs, disk.writers[r].folder \in Folders,
           disk' = FlushNow(disk, r), Begun(r)', \A q \in Runs : Begun(q) => Begun(q)'
    PROVE  /\ disk' \in Disk
           /\ \A q \in Runs : Moving(disk', q)
           /\ NothingIsStranded' /\ OfFolder' /\ Unborn'
           /\ Len(disk'.tail) \in Nat /\ Len(disk.tail) <= Len(disk'.tail)
           /\ \A q \in Runs : /\ Held(disk', q) = Held(disk, q)
                              /\ disk'.writers[q].folder = disk.writers[q].folder
                              /\ disk'.writers[q].failed = disk.writers[q].failed
<1>1. disk \in Disk /\ Batch \in Nat \ {0} /\ Moving(disk, r)
  BY ScanFacts
<1>2. /\ Moves(disk, disk', r)
      /\ Held(disk', r) = Held(disk, r)
      /\ Len(disk.writers[r].pending) <= Batch => disk'.writers[r].pending = <<>>
      /\ disk'.writers[r].batches # <<>> => SentIn(disk', r)
  BY <1>1, ScanFlush
<1>3. Len(disk.writers[r].pending) <= Batch
  BY <1>1, ScanDisk DEF Moving
<1>4. Moving(disk', r)
  BY <1>1, <1>2, <1>3 DEF Moving
<1>5. \A q \in Runs : /\ Held(disk', q) = Held(disk, q)
                      /\ disk'.writers[q].folder = disk.writers[q].folder
                      /\ disk'.writers[q].failed = disk.writers[q].failed
  BY <1>2 DEF Moves, Held
<1> QED
  BY <1>2, <1>4, <1>5, ScanMoved

(* Back to the type.                                                         *)
LEMMA ScanTyped ==
    ASSUME ScanAssumption,
           pane' \in [open : BOOLEAN, folder : Folders, map : BOOLEAN, wanted : 0 .. MaxRun,
                      leaflet : {"unloaded", "loaded", "broken"}],
           gen' \in [run : Nat, folder : Folders, stage : Stages, ahead : Nat,
                     left : SUBSET Items, results : SUBSET Items],
           gen'.run <= MaxRun, gen'.ahead <= Len(disk'.tail),
           server' \in [Folders -> SUBSET Items], disk' \in Disk,
           \A q \in Runs : Moving(disk', q)
    PROVE  Typed'
<1>1. gen'.run \in 0 .. MaxRun /\ gen'.ahead \in 0 .. Len(disk'.tail)
  <2>1. gen'.run \in Nat /\ gen'.ahead \in Nat /\ MaxRun \in Nat
    BY DEF ScanAssumption
  <2>2. Len(disk'.tail) \in Nat
    BY ScanDisk, disk' \in [writers : [Runs -> Writer], tail : Seq(Record)] DEF Disk
  <2> QED
    BY <2>1, <2>2
<1>2. \A q \in Runs : Len(disk'.writers[q].pending) < Batch
  BY DEF Moving
<1>3. TypeOK'
  BY <1>1, <1>2 DEF TypeOK
<1> QED
  BY <1>3 DEF Typed, Disk

(* A new generation begins and the old one is cancelled: its writer is       *)
(* flushed and nothing of the new one is there yet.                          *)
LEMMA ScanBegin ==
    ASSUME ScanAssumption, IInv, NEW f \in Folders, NEW s \in {"listing", "off"},
           gen.run < MaxRun, disk' = Cancelled, server' = server,
           gen' = [run |-> gen.run + 1, folder |-> f, stage |-> s, ahead |-> 0,
                   left |-> {}, results |-> {}],
           pane' \in [open : BOOLEAN, folder : Folders, map : BOOLEAN, wanted : 0 .. MaxRun,
                      leaflet : {"unloaded", "loaded", "broken"}],
           s = "listing" => pane'.open /\ pane'.folder = f
    PROVE  IInv'
<1>1. /\ gen.run \in Nat /\ gen'.run = gen.run + 1 /\ gen'.stage = s /\ gen'.folder = f
      /\ gen'.ahead = 0 /\ gen'.left = {} /\ gen'.results = {}
      /\ MaxRun \in Nat /\ Runs = 1 .. MaxRun
  BY ScanFacts
<1>2. \A q \in Runs : (Begun(q) => Begun(q)') /\ (Begun(q)' <=> q < gen.run + 1)
  BY <1>1 DEF Begun
<1>3. /\ disk' \in Disk
      /\ \A q \in Runs : Moving(disk', q)
      /\ NothingIsStranded' /\ OfFolder' /\ Unborn'
  <2>1. CASE Writing
    <3>1. gen.run \in Runs /\ disk.writers[gen.run].folder = gen.folder /\ gen.folder \in Folders
      BY <2>1, ScanFacts DEF IInv, Running, Writing
    <3>2. PICK r \in Runs : r = gen.run
      BY <3>1
    <3>3. Begun(r)'
      BY <3>2, <1>1, <1>2
    <3>4. disk' = FlushNow(disk, r)
      BY <2>1, <3>2 DEF Cancelled
    <3> QED
      BY <3>1, <3>2, <3>3, <3>4, <1>2, ScanFlushed
  <2>2. CASE ~Writing
    <3>1. disk' = disk
      BY <2>2 DEF Cancelled
    <3> QED
      BY <3>1, <1>2, ScanStill
  <2> QED
    BY <2>1, <2>2
<1>4. Typed'
  <2>1. gen' \in [run : Nat, folder : Folders, stage : Stages, ahead : Nat,
                  left : SUBSET Items, results : SUBSET Items]
    BY <1>1 DEF Stages
  <2>2. gen'.run <= MaxRun
    BY <1>1
  <2>3. server' \in [Folders -> SUBSET Items]
    BY ScanFacts
  <2>4. gen'.ahead <= Len(disk'.tail)
    <3>1. Len(disk'.tail) \in Nat
      BY <1>3, disk' \in [writers : [Runs -> Writer], tail : Seq(Record)] DEF Disk
    <3> QED
      BY <3>1, <1>1
  <2> QED
    BY <2>1, <2>2, <2>3, <2>4, <1>3, ScanTyped
<1>5. DoneIsSaved'
  BY <1>1 DEF DoneIsSaved, IInv
<1>6. Running' /\ OnScreen'
  BY <1>1 DEF Running, OnScreen
<1> QED
  BY <1>3, <1>4, <1>5, <1>6 DEF IInv

-----------------------------------------------------------------------------
(* There is no generation yet.                                               *)
LEMMA InitIInv == ASSUME ScanAssumption PROVE Init => IInv
<1> SUFFICES ASSUME Init PROVE IInv
  OBVIOUS
<1>1. Workers \in Nat \ {0} /\ Batch \in Nat \ {0} /\ MaxRun \in Nat \ {0} /\ Runs = 1 .. MaxRun
  BY DEF ScanAssumption, Runs
<1>2. NoWriter \in Writer
  BY DEF NoWriter, Writer
<1>3. /\ disk.tail = <<>> /\ disk.writers = [r \in Runs |-> NoWriter] /\ disk \in Disk
  BY <1>2 DEF Init, Disk
<1>4. /\ pane.folder \in Folders /\ pane.wanted = 0 /\ ~pane.open
      /\ pane \in [open : BOOLEAN, folder : Folders, map : BOOLEAN, wanted : 0 .. MaxRun,
                   leaflet : {"unloaded", "loaded", "broken"}]
  <2>1. 0 \in 0 .. MaxRun
    BY <1>1
  <2>2. PICK f \in Folders :
          pane = [open |-> FALSE, folder |-> f, map |-> FALSE, wanted |-> 0, leaflet |-> "unloaded"]
    BY DEF Init
  <2> QED
    BY <2>1, <2>2
<1>5. /\ gen.run = 0 /\ gen.folder = pane.folder /\ gen.stage = "off" /\ gen.ahead = 0
      /\ gen.left = {} /\ gen.results = {}
      /\ gen \in [run : Nat, folder : Folders, stage : Stages, ahead : Nat,
                  left : SUBSET Items, results : SUBSET Items]
  BY <1>4 DEF Init, Stages
<1>6. server \in [Folders -> SUBSET Items] /\ \A f \in Folders : server[f] = {}
  BY DEF Init
<1>7. \A r \in Runs : disk.writers[r] = NoWriter /\ ~SentIn(disk, r)
  BY <1>3 DEF SentIn
<1>8. /\ NoWriter.pending = <<>> /\ NoWriter.batches = <<>> /\ NoWriter.timer = FALSE
      /\ Len(NoWriter.pending) = 0
  BY DEF NoWriter
<1>9. Typed
  <2>1. Len(disk.tail) = 0
    BY <1>3
  <2>2. gen.run \in 0 .. MaxRun /\ gen.ahead \in 0 .. Len(disk.tail) /\ 0 < Batch
    BY <2>1, <1>1, <1>5
  <2> QED
    BY <2>2, <1>3, <1>4, <1>5, <1>6, <1>7, <1>8 DEF Typed, TypeOK, Disk
<1>10. NothingIsStranded
  BY <1>7, <1>8 DEF NothingIsStranded
<1>11. OfFolder
  <2>1. \A r \in Runs : Held(disk, r) = {}
    BY <1>3, <1>7, <1>8, ScanEmpty DEF Held, OnTheirWay
  <2> QED
    BY <2>1, <1>3, <1>7 DEF OfFolder, Sent, SentIn
<1>12. Unborn
  BY <1>7 DEF Unborn, Sent, SentIn
<1> QED
  BY <1>5, <1>6, <1>9, <1>10, <1>11, <1>12 DEF IInv, DoneIsSaved, Running, OnScreen

(* The pane is opened,                                                       *)
LEMMA ScanActivate == ASSUME ScanAssumption, IInv, Activate PROVE IInv'
<1>1. /\ gen.run < MaxRun /\ disk' = Cancelled /\ server' = server /\ pane.folder \in Folders
      /\ gen' = [run |-> gen.run + 1, folder |-> pane.folder, stage |-> "listing", ahead |-> 0,
                 left |-> {}, results |-> {}]
      /\ pane' = [pane EXCEPT !.open = TRUE, !.map = pane.leaflet = "loaded",
                              !.wanted = IF pane.leaflet = "unloaded" THEN gen.run + 1 ELSE 0]
  BY ScanFacts DEF Activate, Begin
<1>2. (IF pane.leaflet = "unloaded" THEN gen.run + 1 ELSE 0) \in 0 .. MaxRun
  BY <1>1, ScanFacts
<1>3. /\ pane' \in [open : BOOLEAN, folder : Folders, map : BOOLEAN, wanted : 0 .. MaxRun,
                    leaflet : {"unloaded", "loaded", "broken"}]
      /\ pane'.open /\ pane'.folder = pane.folder
  BY <1>1, <1>2, ScanFacts
<1> QED
  BY <1>1, <1>3, ScanBegin

(* closed                                                                    *)
LEMMA ScanDeactivate == ASSUME ScanAssumption, IInv, Deactivate PROVE IInv'
<1>1. /\ gen.run < MaxRun /\ disk' = Cancelled /\ server' = server /\ pane.folder \in Folders
      /\ gen' = [run |-> gen.run + 1, folder |-> pane.folder, stage |-> "off", ahead |-> 0,
                 left |-> {}, results |-> {}]
  BY ScanFacts DEF Deactivate
<1>2. pane' \in [open : BOOLEAN, folder : Folders, map : BOOLEAN, wanted : 0 .. MaxRun,
                 leaflet : {"unloaded", "loaded", "broken"}]
  BY ScanFacts DEF Deactivate
<1> QED
  BY <1>1, <1>2, ScanBegin

(* or refreshed.                                                             *)
LEMMA ScanRefresh == ASSUME ScanAssumption, IInv, Refresh PROVE IInv'
<1>1. /\ gen.run < MaxRun /\ disk' = Cancelled /\ server' = server /\ pane.folder \in Folders
      /\ gen' = [run |-> gen.run + 1, folder |-> pane.folder, stage |-> "listing", ahead |-> 0,
                 left |-> {}, results |-> {}]
      /\ pane' = pane /\ pane.open
  BY ScanFacts DEF Refresh, Begin
<1> QED
  BY <1>1, ScanFacts, ScanBegin

\* what is left of the invariant when neither the generation nor the writers move
-----------------------------------------------------------------------------
(* What is left to show when neither the generation nor the writers move,    *)
LEMMA ScanPane ==
    ASSUME ScanAssumption, IInv, UNCHANGED <<gen, disk, server>>,
           pane' \in [open : BOOLEAN, folder : Folders, map : BOOLEAN, wanted : 0 .. MaxRun,
                      leaflet : {"unloaded", "loaded", "broken"}],
           gen.stage # "off" => pane'.open = pane.open /\ pane'.folder = pane.folder
    PROVE  IInv'
<1>1. /\ disk' \in Disk
      /\ \A q \in Runs : Moving(disk', q)
      /\ NothingIsStranded' /\ OfFolder' /\ Unborn'
  BY ScanStill DEF Begun
<1>2. Typed'
  BY DEF IInv, Typed, TypeOK
<1>3. DoneIsSaved'
  BY DEF IInv, DoneIsSaved
<1>4. Running'
  BY DEF IInv, Running, Held, OnTheirWay
<1>5. OnScreen'
  BY DEF IInv, OnScreen
<1> QED
  BY <1>1, <1>2, <1>3, <1>4, <1>5 DEF IInv

(* when another folder is opened                                             *)
LEMMA ScanFolderChanged ==
  ASSUME ScanAssumption, IInv, NEW f \in Folders, FolderChanged(f)
  PROVE  IInv'
<1>1. /\ pane' = [pane EXCEPT !.folder = f]
      /\ pane' \in [open : BOOLEAN, folder : Folders, map : BOOLEAN, wanted : 0 .. MaxRun,
                    leaflet : {"unloaded", "loaded", "broken"}]
      /\ pane'.open = pane.open /\ pane'.folder = f
  BY ScanFacts DEF FolderChanged
<1>2. CASE pane.open
  <2>1. /\ gen.run < MaxRun /\ disk' = Cancelled /\ server' = server
        /\ gen' = [run |-> gen.run + 1, folder |-> f, stage |-> "listing", ahead |-> 0,
                   left |-> {}, results |-> {}]
    BY <1>2 DEF FolderChanged, Begin
  <2> QED
    BY <2>1, <1>1, <1>2, ScanBegin
<1>3. CASE ~pane.open
  <2>1. UNCHANGED <<gen, disk, server>>
    BY <1>3 DEF FolderChanged
  <2>2. gen.stage = "off"
    BY <1>3 DEF IInv, OnScreen
  <2> QED
    BY <2>1, <2>2, <1>1, ScanPane
<1> QED
  BY <1>2, <1>3

(* or Leaflet is there.                                                      *)
LEMMA ScanLeaflet == ASSUME ScanAssumption, IInv, LeafletLoads PROVE IInv'
<1>1. UNCHANGED <<gen, disk, server>>
  BY DEF LeafletLoads
<1>2. PICK ok \in BOOLEAN :
        pane' = [pane EXCEPT !.leaflet = IF ok THEN "loaded" ELSE "broken", !.wanted = 0,
                             !.map = ok /\ pane.open /\ pane.wanted = gen.run]
  BY DEF LeafletLoads
<1>3. (ok /\ pane.open /\ pane.wanted = gen.run) \in BOOLEAN
  OBVIOUS
<1>4. /\ pane' \in [open : BOOLEAN, folder : Folders, map : BOOLEAN, wanted : 0 .. MaxRun,
                    leaflet : {"unloaded", "loaded", "broken"}]
      /\ pane'.open = pane.open /\ pane'.folder = pane.folder
  <2>1. 0 \in 0 .. MaxRun
    BY ScanFacts
  <2>2. (IF ok THEN "loaded" ELSE "broken") \in {"unloaded", "loaded", "broken"}
    OBVIOUS
  <2>3. pane \in [open : BOOLEAN, folder : Folders, map : BOOLEAN, wanted : 0 .. MaxRun,
                  leaflet : {"unloaded", "loaded", "broken"}]
    BY ScanFacts
  <2> QED
    BY <2>1, <2>2, <2>3, <1>2, <1>3
<1> QED
  BY <1>1, <1>4, ScanPane

\* what is left of it when only the generation moves on
-----------------------------------------------------------------------------
(* What is left to show when only the generation moves on,                   *)
LEMMA ScanTurns ==
    ASSUME ScanAssumption, IInv, UNCHANGED <<pane, disk, server>>,
           gen' \in [run : Nat, folder : Folders, stage : Stages, ahead : Nat,
                     left : SUBSET Items, results : SUBSET Items],
           gen'.run = gen.run, gen'.folder = gen.folder, gen.stage # "off",
           gen'.ahead <= Len(disk.tail), \A q \in Runs : Begun(q) => Begun(q)',
           Running', gen'.stage = "done" => gen.stage = "finish" /\ gen'.results = gen.results
    PROVE  IInv'
<1>1. /\ disk' \in Disk
      /\ \A q \in Runs : Moving(disk', q)
      /\ NothingIsStranded' /\ OfFolder' /\ Unborn'
  BY ScanStill
<1>2. Typed'
  BY ScanFacts DEF IInv, Typed, TypeOK
<1>3. OnScreen'
  BY DEF IInv, OnScreen
<1>4. DoneIsSaved'
  <2>1. CASE gen'.stage = "done"
    <3>1. gen'.results \subseteq server[gen'.folder]
      BY <2>1 DEF Running
    <3>2. gen'.results = ToSet(ItemsOf[gen'.folder])
      BY <2>1, ScanFacts DEF IInv, Running
    <3>3. gen'.folder = pane'.folder
      BY <2>1, <1>3 DEF OnScreen
    <3> QED
      BY <3>1, <3>2, <3>3 DEF IInv, DoneIsSaved
  <2>2. CASE gen'.stage # "done"
    BY <2>2 DEF IInv, DoneIsSaved
  <2> QED
    BY <2>1, <2>2
<1> QED
  BY <1>1, <1>2, <1>3, <1>4 DEF IInv

(* when it has the listing, has failed or has waited for the writes before   *)
(* it,                                                                       *)
LEMMA ScanListing ==
  ASSUME ScanAssumption, IInv, ListingRead \/ ListingFails \/ Settled
  PROVE  IInv'
<1>1. /\ gen \in [run : Nat, folder : Folders, stage : Stages, ahead : Nat,
                  left : SUBSET Items, results : SUBSET Items]
      /\ gen.ahead <= Len(disk.tail) /\ Len(disk.tail) \in Nat
  BY ScanFacts
<1>2. /\ UNCHANGED <<pane, disk, server>> /\ gen.stage \in {"listing", "settle"}
      /\ gen'.stage \in {"settle", "failed", "cache"}
      /\ gen'.run = gen.run /\ gen'.folder = gen.folder
      /\ gen'.ahead \in {gen.ahead, Len(disk.tail)}
      /\ gen' \in [run : Nat, folder : Folders, stage : Stages, ahead : Nat,
                   left : SUBSET Items, results : SUBSET Items]
  BY <1>1 DEF ListingRead, ListingFails, Settled, Failed, Stages
<1>3. \A q \in Runs : Begun(q) => Begun(q)'
  BY <1>2 DEF Begun
<1>4. Running'
  BY <1>2 DEF Running
<1> QED
  BY <1>1, <1>2, <1>3, <1>4, ScanTurns

(* and when the last write has ended.                                        *)
LEMMA ScanFinished == ASSUME ScanAssumption, IInv, Finished PROVE IInv'
<1>1. /\ gen \in [run : Nat, folder : Folders, stage : Stages, ahead : Nat,
                  left : SUBSET Items, results : SUBSET Items]
      /\ gen.ahead <= Len(disk.tail) /\ disk \in Disk
  BY ScanFacts
<1>2. /\ UNCHANGED <<pane, disk, server>> /\ gen.stage = "finish"
      /\ disk.writers[gen.run].failed => gen'.stage = "failed"
      /\ ~disk.writers[gen.run].failed => gen'.stage = "done" /\ gen'.left = gen.left /\ gen'.results = gen.results
      /\ gen'.run = gen.run /\ gen'.folder = gen.folder /\ gen'.ahead = gen.ahead
      /\ gen' \in [run : Nat, folder : Folders, stage : Stages, ahead : Nat,
                   left : SUBSET Items, results : SUBSET Items]
  BY <1>1 DEF Finished, Failed, Stages
<1>3. \A q \in Runs : Begun(q) => Begun(q)'
  BY <1>2 DEF Begun
<1>4. gen.run \in Runs
  BY <1>2 DEF IInv, Running
<1>5. Held(disk, gen.run) = {}
  <2>1. /\ disk.writers[gen.run].pending = <<>> /\ disk.writers[gen.run].batches = <<>>
        /\ ~SentIn(disk, gen.run)
    BY DEF Finished, Quiet, Sent, SentIn
  <2>2. OnTheirWay(disk, gen.run) = {}
    BY <2>1 DEF OnTheirWay, SentIn
  <2> QED
    BY <2>1, <2>2, ScanEmpty DEF Held
<1>6. Running'
  <2>1. CASE disk.writers[gen.run].failed
    BY <2>1, <1>2 DEF Running
  <2>2. CASE ~disk.writers[gen.run].failed
    <3>1. /\ gen.run \in Runs /\ disk.writers[gen.run].folder = gen.folder
          /\ gen.results \cup gen.left = ToSet(ItemsOf[gen.folder])
          /\ gen.left = {}
          /\ gen.results \subseteq server[gen.folder] \cup Held(disk, gen.run)
      BY <2>2, <1>2 DEF IInv, Running
    <3>2. gen.results \subseteq server[gen.folder]
      BY <3>1, <1>5
    <3> QED
      BY <3>1, <3>2, <2>2, <1>2 DEF Running
  <2> QED
    BY <2>1, <2>2
<1> QED
  BY <1>1, <1>2, <1>3, <1>6, ScanTurns

(* The cache answers: what it has is shown, the rest is read.                *)
LEMMA ScanCache == ASSUME ScanAssumption, IInv, CacheAnswers PROVE IInv'
<1>1. /\ gen \in [run : Nat, folder : Folders, stage : Stages, ahead : Nat,
                  left : SUBSET Items, results : SUBSET Items]
      /\ gen.ahead <= Len(disk.tail) /\ disk \in Disk /\ Len(disk.tail) \in Nat
      /\ server \in [Folders -> SUBSET Items] /\ gen.stage = "cache" /\ gen.run <= MaxRun
      /\ disk.writers \in [Runs -> Writer]
  <2>1. disk \in [writers : [Runs -> Writer], tail : Seq(Record)]
    BY ScanFacts DEF Disk
  <2>2. gen.run <= MaxRun /\ gen.ahead <= Len(disk.tail)
    BY ScanFacts
  <2> QED
    BY <2>1, <2>2, ScanFacts DEF CacheAnswers
<1>2. PICK r \in Runs : r = gen.run
  BY <1>1 DEF IInv, OnScreen
<1>3. PICK known \in {server[gen.folder], {}} :
        gen' = [gen EXCEPT !.stage = "scan", !.results = known, !.left = ToSet(ItemsOf[gen.folder]) \ known]
  BY DEF CacheAnswers
<1>4. /\ known \subseteq server[gen.folder] /\ known \subseteq ToSet(ItemsOf[gen.folder])
      /\ ToSet(ItemsOf[gen.folder]) \subseteq Items
  BY <1>1, <1>3 DEF IInv, DoneIsSaved, Items
<1>5. /\ gen'.stage = "scan" /\ gen'.run = r /\ gen'.folder = gen.folder /\ gen'.ahead = gen.ahead
      /\ gen'.results = known /\ gen'.left = ToSet(ItemsOf[gen.folder]) \ known
      /\ gen' \in [run : Nat, folder : Folders, stage : Stages, ahead : Nat,
                   left : SUBSET Items, results : SUBSET Items]
  BY <1>1, <1>2, <1>3, <1>4 DEF Stages
<1>6. disk.writers[r] = NoWriter /\ ~SentIn(disk, r) /\ ~Begun(r)
  BY <1>1, <1>2, ScanFacts DEF IInv, Unborn, Begun, Sent, SentIn
<1>7. /\ NoWriter.pending = <<>> /\ NoWriter.batches = <<>> /\ Len(NoWriter.pending) = 0
  BY DEF NoWriter
<1>8. /\ disk' \in Disk /\ disk'.tail = disk.tail
      /\ disk'.writers[r].folder = gen.folder
      /\ disk'.writers[r].pending = <<>> /\ disk'.writers[r].batches = <<>>
      /\ \A q \in Runs \ {r} : disk'.writers[q] = disk.writers[q]
  <2> DEFINE v == [disk.writers[r] EXCEPT !.folder = gen.folder]
  <2>1. /\ v \in Writer /\ v.folder = gen.folder /\ v.pending = <<>> /\ v.batches = <<>>
    BY <1>1, <1>6, <1>7 DEF Writer
  <2>2. disk' = [disk EXCEPT !.writers[r] = v]
    BY <1>2 DEF CacheAnswers
  <2>3. disk \in [writers : [Runs -> Writer], tail : Seq(Record)]
    BY <1>1 DEF Disk
  <2> HIDE DEF v
  <2>4. disk' \in Disk /\ disk'.tail = disk.tail /\ disk'.writers = [disk.writers EXCEPT ![r] = v]
    BY <2>1, <2>2, <2>3 DEF Disk
  <2> QED
    BY <2>1, <2>4, <1>1
<1>9. \A q \in Runs : /\ SentIn(disk', q) <=> SentIn(disk, q)
                      /\ OnTheirWay(disk', q) = OnTheirWay(disk, q)
  BY <1>8 DEF SentIn, OnTheirWay
<1>10. Held(disk', r) = {} /\ \A q \in Runs \ {r} : Held(disk', q) = Held(disk, q)
  <2>1. OnTheirWay(disk, r) = {}
    BY <1>6 DEF OnTheirWay, SentIn
  <2> QED
    BY <2>1, <1>8, <1>9, ScanEmpty DEF Held
<1>11. \A q \in Runs : Begun(q) => Begun(q)'
  BY <1>1, <1>2, <1>5 DEF Begun
<1>12. Begun(r)'
  BY <1>5 DEF Begun
<1>13. \A q \in Runs : Moving(disk', q)
  <2>1. \A q \in Runs : Moving(disk, q)
    BY ScanFacts
  <2>2. 0 < Batch
    BY ScanFacts
  <2> QED
    BY <2>1, <2>2, <1>7, <1>8, <1>9 DEF Moving
<1>14. Typed'
  BY <1>1, <1>2, <1>5, <1>8, <1>13, ScanFacts, ScanTyped DEF CacheAnswers
<1>15. NothingIsStranded'
  BY <1>13 DEF NothingIsStranded, Moving, Sent, SentIn
<1>16. OfFolder'
  <2>1. \A q \in Runs : disk'.writers[q].folder \in Folders
             => Held(disk', q) \subseteq ToSet(ItemsOf[disk'.writers[q].folder])
    BY <1>8, <1>10 DEF IInv, OfFolder
  <2>2. \A q \in Runs : disk'.writers[q].folder \in Folders
                         \/ (disk'.writers[q] = NoWriter /\ ~SentIn(disk', q))
    <3>1. \A q \in Runs : disk.writers[q].folder \in Folders
                         \/ (disk.writers[q] = NoWriter /\ ~SentIn(disk, q))
      BY DEF IInv, OfFolder, Sent, SentIn
    <3> QED
      BY <3>1, <1>1, <1>8, <1>9
  <2>3. \A n \in DOMAIN disk'.tail : disk'.tail[n].folder = disk'.writers[disk'.tail[n].run].folder
    <3> SUFFICES ASSUME NEW n \in DOMAIN disk.tail
                 PROVE  disk.tail[n].folder = disk'.writers[disk.tail[n].run].folder
      BY <1>8
    <3>1. disk.tail[n] \in Record
      BY ScanFacts
    <3>2. disk.tail[n].run \in Runs \ {r}
      BY <3>1, <1>6 DEF Record, SentIn
    <3> QED
      BY <3>2, <1>8, ScanFacts DEF TailFolders
  <2> QED
    BY <2>1, <2>2, <2>3 DEF OfFolder, Sent, SentIn
<1>17. Unborn'
  <2>1. \A q \in Runs : ~Begun(q) => disk.writers[q] = NoWriter /\ ~SentIn(disk, q)
    BY DEF IInv, Unborn, Sent, SentIn
  <2>2. \A q \in Runs : ~Begun(q)' => disk'.writers[q] = NoWriter /\ ~SentIn(disk', q)
    BY <2>1, <1>8, <1>9, <1>11, <1>12
  <2> QED
    BY <2>2 DEF Unborn, Sent, SentIn
<1>18. Running'
  <2>1. server' = server
    BY DEF CacheAnswers
  <2> QED
    BY <2>1, <1>4, <1>5, <1>8 DEF Running
<1>19. OnScreen' /\ DoneIsSaved'
  BY <1>1, <1>2, <1>5 DEF IInv, OnScreen, DoneIsSaved, CacheAnswers
<1> QED
  BY <1>14, <1>15, <1>16, <1>17, <1>18, <1>19 DEF IInv

(* An item is read: its record is on the screen and with the writer.         *)
LEMMA ScanRead == ASSUME ScanAssumption, IInv, NEW i \in Items, ItemRead(i) PROVE IInv'
<1>1. /\ gen \in [run : Nat, folder : Folders, stage : Stages, ahead : Nat,
                  left : SUBSET Items, results : SUBSET Items]
      /\ gen.run <= MaxRun /\ gen.ahead <= Len(disk.tail) /\ gen.ahead \in Nat /\ Len(disk.tail) \in Nat
      /\ disk \in Disk /\ Batch \in Nat \ {0} /\ \A q \in Runs : Moving(disk, q)
      /\ server \in [Folders -> SUBSET Items]
  BY ScanFacts
<1>2. /\ gen.stage = "scan" /\ i \in gen.left
      /\ gen' = [gen EXCEPT !.left = gen.left \ {i}, !.results = gen.results \cup {i}]
      /\ pane' = pane /\ server' = server
  BY DEF ItemRead, BeingRead
<1>3. PICK r \in Runs : r = gen.run
  BY <1>2 DEF IInv, Running
<1>4. /\ gen'.stage = "scan" /\ gen'.run = r /\ gen'.folder = gen.folder /\ gen'.ahead = gen.ahead
      /\ gen'.left = gen.left \ {i} /\ gen'.results = gen.results \cup {i}
      /\ gen' \in [run : Nat, folder : Folders, stage : Stages, ahead : Nat,
                   left : SUBSET Items, results : SUBSET Items]
  BY <1>1, <1>2, <1>3
<1>5. /\ disk.writers[r].folder = gen.folder /\ gen.folder \in Folders
      /\ gen.results \cup gen.left = ToSet(ItemsOf[gen.folder])
      /\ disk.writers[r].failed \/ gen.results \subseteq server[gen.folder] \cup Held(disk, r)
  BY <1>1, <1>2, <1>3 DEF IInv, Running
<1>6. disk' = Enqueue(disk, r, i)
  BY <1>3 DEF ItemRead
<1>7. /\ Moves(disk, disk', r) /\ Moving(disk', r)
      /\ Held(disk', r) = Held(disk, r) \cup {i}
  BY <1>1, <1>5, <1>6, ScanEnqueue
<1>8. \A q \in Runs : Begun(q)' <=> Begun(q)
  BY <1>2, <1>3, <1>4 DEF Begun
<1>9. Begun(r)'
  BY <1>4 DEF Begun
<1>10. i \in ToSet(ItemsOf[disk.writers[r].folder])
  BY <1>2, <1>5
<1>11. /\ disk' \in Disk /\ \A q \in Runs : Moving(disk', q)
       /\ NothingIsStranded' /\ OfFolder' /\ Unborn'
       /\ Len(disk'.tail) \in Nat /\ Len(disk.tail) <= Len(disk'.tail)
  BY <1>5, <1>7, <1>8, <1>9, <1>10, ScanMoved
<1>12. gen'.ahead <= Len(disk'.tail) /\ gen'.run <= MaxRun
  BY <1>1, <1>3, <1>4, <1>11
<1>13. Typed'
  BY <1>1, <1>2, <1>4, <1>11, <1>12, ScanFacts, ScanTyped
<1>14. Running'
  <2>1. disk'.writers[r].folder = gen.folder /\ disk'.writers[r].failed = disk.writers[r].failed
    BY <1>5, <1>7 DEF Moves
  <2>2. \/ disk'.writers[r].failed
        \/ gen'.results \subseteq server'[gen'.folder] \cup Held(disk', r)
    BY <2>1, <1>2, <1>4, <1>5, <1>7
  <2>3. gen'.results \cup gen'.left = ToSet(ItemsOf[gen'.folder])
    BY <1>2, <1>4, <1>5
  <2> QED
    BY <2>1, <2>2, <2>3, <1>3, <1>4 DEF Running
<1>15. OnScreen' /\ DoneIsSaved'
  BY <1>2, <1>3, <1>4 DEF IInv, OnScreen, DoneIsSaved
<1> QED
  BY <1>11, <1>13, <1>14, <1>15 DEF IInv

(* Every item is read: the writer is flushed.                                *)
LEMMA ScanQueueEnds == ASSUME ScanAssumption, IInv, QueueEnds PROVE IInv'
<1>1. /\ gen \in [run : Nat, folder : Folders, stage : Stages, ahead : Nat,
                  left : SUBSET Items, results : SUBSET Items]
      /\ gen.run <= MaxRun /\ gen.ahead <= Len(disk.tail) /\ gen.ahead \in Nat /\ Len(disk.tail) \in Nat
      /\ server \in [Folders -> SUBSET Items]
  BY ScanFacts
<1>2. /\ gen.stage = "scan" /\ gen.left = {} /\ gen' = [gen EXCEPT !.stage = "finish"]
      /\ pane' = pane /\ server' = server
  BY DEF QueueEnds
<1>3. PICK r \in Runs : r = gen.run
  BY <1>2 DEF IInv, Running
<1>4. /\ gen'.stage = "finish" /\ gen'.run = r /\ gen'.folder = gen.folder /\ gen'.ahead = gen.ahead
      /\ gen'.left = {} /\ gen'.results = gen.results
      /\ gen' \in [run : Nat, folder : Folders, stage : Stages, ahead : Nat,
                   left : SUBSET Items, results : SUBSET Items]
  BY <1>1, <1>2, <1>3 DEF Stages
<1>5. /\ disk.writers[r].folder = gen.folder /\ gen.folder \in Folders
      /\ gen.results \cup gen.left = ToSet(ItemsOf[gen.folder])
      /\ disk.writers[r].failed \/ gen.results \subseteq server[gen.folder] \cup Held(disk, r)
  BY <1>1, <1>2, <1>3 DEF IInv, Running
<1>6. disk' = FlushNow(disk, r)
  BY <1>3 DEF QueueEnds
<1>7. Begun(r)' /\ \A q \in Runs : Begun(q) => Begun(q)'
  BY <1>2, <1>3, <1>4 DEF Begun
<1>8. /\ disk' \in Disk
      /\ \A q \in Runs : Moving(disk', q)
      /\ NothingIsStranded' /\ OfFolder' /\ Unborn'
      /\ Len(disk'.tail) \in Nat /\ Len(disk.tail) <= Len(disk'.tail)
      /\ \A q \in Runs : /\ Held(disk', q) = Held(disk, q)
                         /\ disk'.writers[q].folder = disk.writers[q].folder
                         /\ disk'.writers[q].failed = disk.writers[q].failed
  BY <1>5, <1>6, <1>7, ScanFlushed
<1>9. gen'.ahead <= Len(disk'.tail) /\ gen'.run <= MaxRun
  BY <1>1, <1>3, <1>4, <1>8
<1>10. Typed'
  BY <1>1, <1>2, <1>4, <1>8, <1>9, ScanFacts, ScanTyped
<1>11. Running'
  BY <1>2, <1>3, <1>4, <1>5, <1>8 DEF Running
<1>12. OnScreen' /\ DoneIsSaved'
  BY <1>2, <1>3, <1>4 DEF IInv, OnScreen, DoneIsSaved
<1> QED
  BY <1>8, <1>10, <1>11, <1>12 DEF IInv

(* The timer of a writer, also of one whose run is over.                     *)
LEMMA ScanTimer == ASSUME ScanAssumption, IInv, NEW r \in Runs, FlushTimer(r) PROVE IInv'
<1>1. /\ gen \in [run : Nat, folder : Folders, stage : Stages, ahead : Nat,
                  left : SUBSET Items, results : SUBSET Items]
      /\ gen.run <= MaxRun /\ gen.ahead <= Len(disk.tail) /\ gen.ahead \in Nat /\ Len(disk.tail) \in Nat
      /\ server \in [Folders -> SUBSET Items]
  BY ScanFacts
<1>2. /\ disk.writers[r].timer /\ disk' = FlushNow(disk, r)
      /\ pane' = pane /\ gen' = gen /\ server' = server
  BY DEF FlushTimer
<1>3. disk.writers[r] # NoWriter
  BY <1>2 DEF NoWriter
<1>4. disk.writers[r].folder \in Folders /\ Begun(r)
  BY <1>3 DEF IInv, OfFolder, Unborn
<1>5. \A q \in Runs : Begun(q)' <=> Begun(q)
  BY <1>2 DEF Begun
<1>6. /\ disk' \in Disk
      /\ \A q \in Runs : Moving(disk', q)
      /\ NothingIsStranded' /\ OfFolder' /\ Unborn'
      /\ Len(disk'.tail) \in Nat /\ Len(disk.tail) <= Len(disk'.tail)
      /\ \A q \in Runs : /\ Held(disk', q) = Held(disk, q)
                         /\ disk'.writers[q].folder = disk.writers[q].folder
                         /\ disk'.writers[q].failed = disk.writers[q].failed
  BY <1>2, <1>4, <1>5, ScanFlushed
<1>7. gen'.ahead <= Len(disk'.tail) /\ gen'.run <= MaxRun
  BY <1>1, <1>2, <1>6
<1>8. Typed'
  BY <1>1, <1>2, <1>6, <1>7, ScanFacts, ScanTyped
<1>9. Running'
  BY <1>2, <1>6 DEF IInv, Running
<1>10. OnScreen' /\ DoneIsSaved'
  BY <1>2 DEF IInv, OnScreen, DoneIsSaved
<1> QED
  BY <1>6, <1>8, <1>9, <1>10 DEF IInv

\* the first batch of the tail has ended: what is left of the writers
(* What is on its way once the first batch of the tail is taken off it.     *)
LEMMA ScanShift ==
    ASSUME NEW d, NEW e, NEW q, 1 \in DOMAIN d.tail,
           \A n \in DOMAIN e.tail : n + 1 \in DOMAIN d.tail /\ e.tail[n] = d.tail[n + 1],
           \A n \in DOMAIN d.tail : n = 1 \/ (n - 1 \in DOMAIN e.tail /\ e.tail[n - 1] = d.tail[n])
    PROVE  \A y : y \in OnTheirWay(d, q)
                    <=> y \in OnTheirWay(e, q) \/ (d.tail[1].run = q /\ y \in d.tail[1].items)
<1> TAKE y
<1>1. y \in OnTheirWay(d, q) <=> \E n \in DOMAIN d.tail : d.tail[n].run = q /\ y \in d.tail[n].items
  BY DEF OnTheirWay
<1>2. y \in OnTheirWay(e, q) <=> \E n \in DOMAIN e.tail : e.tail[n].run = q /\ y \in e.tail[n].items
  BY DEF OnTheirWay
<1>3. ASSUME NEW n \in DOMAIN d.tail, d.tail[n].run = q, y \in d.tail[n].items, n # 1
      PROVE  y \in OnTheirWay(e, q)
  <2>1. n - 1 \in DOMAIN e.tail /\ e.tail[n - 1] = d.tail[n]
    BY <1>3
  <2> QED
    BY <1>2, <1>3, <2>1
<1>4. ASSUME NEW n \in DOMAIN e.tail, e.tail[n].run = q, y \in e.tail[n].items
      PROVE  y \in OnTheirWay(d, q)
  <2>1. n + 1 \in DOMAIN d.tail /\ e.tail[n] = d.tail[n + 1]
    OBVIOUS
  <2> QED
    BY <1>1, <1>4, <2>1
<1> QED
  BY <1>1, <1>2, <1>3, <1>4

-----------------------------------------------------------------------------
(* The first batch of the tail has ended and the next of its writer is sent: *)
(* what is left of the writers.                                              *)
LEMMA ScanRest ==
    ASSUME NEW d \in Disk, NEW e \in Disk, d.tail # <<>>, TailFolders(d), e.tail = Tail(d.tail),
           \A q \in Runs \ {Head(d.tail).run} : e.writers[q] = d.writers[q],
           \A q \in Runs : /\ e.writers[q].folder = d.writers[q].folder
                           /\ e.writers[q].pending = d.writers[q].pending
                           /\ e.writers[q].batches = d.writers[q].batches
    PROVE  /\ Head(d.tail) \in Record /\ Head(d.tail).run \in Runs
           /\ Head(d.tail).folder = d.writers[Head(d.tail).run].folder
           /\ SentIn(d, Head(d.tail).run)
           /\ Len(e.tail) = Len(d.tail) - 1 /\ TailFolders(e)
           /\ \A q \in Runs \ {Head(d.tail).run} : /\ SentIn(e, q) <=> SentIn(d, q)
                                                   /\ OnTheirWay(e, q) = OnTheirWay(d, q)
           /\ Held(d, Head(d.tail).run) = Held(e, Head(d.tail).run) \cup Head(d.tail).items
<1> PICK b : b = Head(d.tail)
  OBVIOUS
<1> PICK r : r = b.run
  OBVIOUS
<1>1. /\ d \in [writers : [Runs -> Writer], tail : Seq(Record)]
      /\ d.writers \in [Runs -> Writer] /\ d.tail \in Seq(Record)
      /\ DOMAIN d.tail = 1 .. Len(d.tail) /\ Len(d.tail) \in Nat
  BY ScanDisk DEF Disk
<1>2. /\ b \in Record /\ Tail(d.tail) \in Seq(Record) /\ Len(Tail(d.tail)) = Len(d.tail) - 1
      /\ Len(d.tail) \in Nat \ {0}
      /\ \A n \in 1 .. Len(d.tail) - 1 : Tail(d.tail)[n] = d.tail[n + 1]
  BY <1>1, ScanTail
<1>3. b = d.tail[1]
  BY <1>1
<1>4. r \in Runs
  BY <1>1, <1>2 DEF Record
<1>5. 1 \in DOMAIN d.tail
  BY <1>1, <1>2
<1>6. b.folder = d.writers[r].folder /\ SentIn(d, r)
  BY <1>3, <1>5 DEF TailFolders, SentIn
<1>9. DOMAIN e.tail = 1 .. Len(d.tail) - 1 /\ \A n \in DOMAIN e.tail : e.tail[n] = d.tail[n + 1]
  <2>1. e.tail \in Seq(Record) /\ Len(e.tail) = Len(d.tail) - 1
    BY <1>2
  <2>2. DOMAIN e.tail = 1 .. Len(d.tail) - 1
    BY <2>1
  <2> QED
    BY <2>2, <1>2
<1> DEFINE OfRun(q) == {n \in DOMAIN d.tail : d.tail[n].run = q}
           Left(q) == {n \in DOMAIN e.tail : e.tail[n].run = q}
<1>10. \A n \in DOMAIN e.tail : n + 1 \in DOMAIN d.tail
  BY <1>1, <1>2, <1>9
<1>11. \A n \in DOMAIN d.tail : n # 1 => n - 1 \in DOMAIN e.tail /\ e.tail[n - 1] = d.tail[n]
  <2> SUFFICES ASSUME NEW n \in DOMAIN d.tail, n # 1
               PROVE  n - 1 \in DOMAIN e.tail /\ e.tail[n - 1] = d.tail[n]
    OBVIOUS
  <2>1. n - 1 \in DOMAIN e.tail /\ (n - 1) + 1 = n
    BY <1>1, <1>9
  <2> QED
    BY <2>1, <1>9
<1>16. /\ \A n \in DOMAIN e.tail : n + 1 \in DOMAIN d.tail /\ e.tail[n] = d.tail[n + 1]
       /\ \A n \in DOMAIN d.tail : n = 1 \/ (n - 1 \in DOMAIN e.tail /\ e.tail[n - 1] = d.tail[n])
  BY <1>9, <1>10, <1>11
<1>17. \A q : \A y : y \in OnTheirWay(d, q)
                       <=> y \in OnTheirWay(e, q) \/ (d.tail[1].run = q /\ y \in d.tail[1].items)
  BY <1>5, <1>16, ScanShift
<1>12. \A q \in Runs \ {r} : (SentIn(e, q) <=> SentIn(d, q)) /\ OnTheirWay(e, q) = OnTheirWay(d, q)
  <2> SUFFICES ASSUME NEW q \in Runs \ {r}
               PROVE  (SentIn(e, q) <=> SentIn(d, q)) /\ OnTheirWay(e, q) = OnTheirWay(d, q)
    OBVIOUS
  <2>1. \A n \in OfRun(q) : n # 1 /\ n - 1 \in Left(q) /\ e.tail[n - 1] = d.tail[n]
    BY <1>3, <1>11
  <2>2. \A n \in Left(q) : n + 1 \in OfRun(q) /\ e.tail[n] = d.tail[n + 1]
    BY <1>9, <1>10
  <2>3. SentIn(e, q) <=> SentIn(d, q)
    <3>1. SentIn(e, q) <=> \E n \in Left(q) : TRUE
      BY DEF SentIn
    <3>2. SentIn(d, q) <=> \E n \in OfRun(q) : TRUE
      BY DEF SentIn
    <3> HIDE DEF Left, OfRun
    <3> QED
      BY <3>1, <3>2, <2>1, <2>2
  <2>4. d.tail[1].run # q
    BY <1>3
  <2>5. \A y : y \in OnTheirWay(d, q)
                <=> y \in OnTheirWay(e, q) \/ (d.tail[1].run = q /\ y \in d.tail[1].items)
    BY <1>17
  <2>6. OnTheirWay(e, q) = OnTheirWay(d, q)
    BY <2>4, <2>5
  <2> QED
    BY <2>3, <2>6
<1>13. OnTheirWay(d, r) = OnTheirWay(e, r) \cup b.items
  BY <1>3, <1>17
<1>15. TailFolders(e)
  <2> SUFFICES ASSUME NEW n \in DOMAIN e.tail
               PROVE  e.tail[n].folder = e.writers[e.tail[n].run].folder
    BY DEF TailFolders
  <2>1. n + 1 \in DOMAIN d.tail /\ e.tail[n] = d.tail[n + 1]
    BY <1>9, <1>10
  <2>2. d.tail[n + 1].folder = d.writers[d.tail[n + 1].run].folder /\ d.tail[n + 1].run \in Runs
    <3>1. d.tail[n + 1] \in Record
      BY <2>1, <1>1
    <3> QED
      BY <3>1, <2>1 DEF TailFolders, Record
  <2>3. \A q \in Runs : e.writers[q].folder = d.writers[q].folder
    OBVIOUS
  <2> QED
    BY <2>1, <2>2, <2>3
<1>14. Held(d, r) = Held(e, r) \cup b.items
  BY <1>4, <1>13 DEF Held
<1> QED
  BY <1>2, <1>4, <1>6, <1>12, <1>14, <1>15

(* A write has ended: the server has the records, or the writer remembers    *)
(* that it failed.                                                           *)
LEMMA ScanWriteEnds ==
  ASSUME ScanAssumption, IInv, NEW ok \in BOOLEAN, WriteEnds(ok)
  PROVE  IInv'
<1>1. /\ gen \in [run : Nat, folder : Folders, stage : Stages, ahead : Nat,
                  left : SUBSET Items, results : SUBSET Items]
      /\ gen.run <= MaxRun /\ gen.ahead <= Len(disk.tail) /\ gen.ahead \in Nat /\ Len(disk.tail) \in Nat
      /\ disk \in Disk /\ TailFolders(disk) /\ \A q \in Runs : Moving(disk, q)
      /\ server \in [Folders -> SUBSET Items]
  BY ScanFacts
<1> DEFINE b == Head(disk.tail)
           rest == [disk EXCEPT !.tail = Tail(@), !.writers[b.run].failed = @ \/ ~ok]
           ahead == IF gen.ahead = 0 THEN 0 ELSE gen.ahead - 1
<1>2. /\ disk.tail # <<>> /\ disk' = Chained(rest, b.run) /\ pane' = pane
      /\ server' = IF ok THEN [server EXCEPT ![b.folder] = server[b.folder] \cup b.items] ELSE server
      /\ gen' = [gen EXCEPT !.ahead = ahead]
  BY DEF WriteEnds
<1>3. PICK c : c = b
  OBVIOUS
<1>4. PICK e : e = rest
  OBVIOUS
<1>5. PICK r : r = c.run
  OBVIOUS
<1> HIDE DEF b, rest
<1>6. /\ c \in Record /\ r \in Runs /\ c.folder = disk.writers[r].folder
      /\ SentIn(disk, r)
      /\ e \in Disk /\ Len(e.tail) = Len(disk.tail) - 1 /\ TailFolders(e)
      /\ \A q \in Runs \ {r} : /\ e.writers[q] = disk.writers[q]
                               /\ SentIn(e, q) <=> SentIn(disk, q)
                               /\ OnTheirWay(e, q) = OnTheirWay(disk, q)
      /\ e.writers[r].folder = disk.writers[r].folder
      /\ e.writers[r].pending = disk.writers[r].pending
      /\ e.writers[r].timer = disk.writers[r].timer
      /\ disk.writers[r].failed \/ ~ok => e.writers[r].failed
      /\ Held(disk, r) = Held(e, r) \cup c.items
  <2>1. /\ disk \in [writers : [Runs -> Writer], tail : Seq(Record)]
        /\ disk.writers \in [Runs -> Writer] /\ disk.tail \in Seq(Record)
    BY <1>1 DEF Disk
  <2>2. /\ c \in Record /\ r \in Runs /\ Tail(disk.tail) \in Seq(Record)
    <3>1. c \in Record /\ Tail(disk.tail) \in Seq(Record)
      BY <2>1, <1>2, <1>3, ScanTail DEF b
    <3> QED
      BY <3>1, <1>5 DEF Record
  <2> DEFINE w == disk.writers[r]
             v == [w EXCEPT !.failed = w.failed \/ ~ok]
  <2>3. /\ v \in Writer /\ v.folder = w.folder /\ v.pending = w.pending /\ v.timer = w.timer
        /\ v.batches = w.batches /\ v.failed = (w.failed \/ ~ok)
    <3>1. (w.failed \/ ~ok) \in BOOLEAN /\ w \in Writer
      BY <2>1, <2>2
    <3> HIDE DEF w
    <3> QED
      BY <3>1 DEF Writer
  <2>4. e = [disk EXCEPT !.tail = Tail(disk.tail), !.writers[r] = v]
    BY <1>3, <1>4, <1>5 DEF rest
  <2> HIDE DEF v
  <2>5. e.tail = Tail(disk.tail) /\ e.writers = [disk.writers EXCEPT ![r] = v]
    BY <2>1, <2>4
  <2>6. e \in Disk
    BY <2>1, <2>2, <2>3, <2>4 DEF Disk
  <2>7. e.writers[r] = v /\ \A q \in Runs \ {r} : e.writers[q] = disk.writers[q]
    BY <2>1, <2>2, <2>5
  <2>8. /\ c.folder = disk.writers[r].folder
        /\ SentIn(disk, r)
        /\ Len(e.tail) = Len(disk.tail) - 1 /\ TailFolders(e)
        /\ \A q \in Runs \ {r} : /\ SentIn(e, q) <=> SentIn(disk, q)
                                 /\ OnTheirWay(e, q) = OnTheirWay(disk, q)
        /\ Held(disk, r) = Held(e, r) \cup c.items
    <3>1. c = Head(disk.tail) /\ disk.tail # <<>>
      BY <1>2, <1>3 DEF b
    <3>2. \A q \in Runs : /\ e.writers[q].folder = disk.writers[q].folder
                          /\ e.writers[q].pending = disk.writers[q].pending
                          /\ e.writers[q].batches = disk.writers[q].batches
      BY <2>3, <2>7
    <3>3. /\ \A q \in Runs \ {Head(disk.tail).run} : e.writers[q] = disk.writers[q]
          /\ e.tail = Tail(disk.tail) /\ disk \in Disk /\ TailFolders(disk)
      BY <2>5, <2>7, <1>1, <1>5, <3>1
    <3> QED
      BY <3>1, <3>2, <3>3, <2>6, <1>5, ScanRest
  <2> QED
    BY <2>2, <2>3, <2>6, <2>7, <2>8
<1>7. c.folder \in Folders /\ c.items \subseteq Items /\ c.items \subseteq ToSet(ItemsOf[c.folder])
  BY <1>6 DEF Record, IInv, OfFolder
<1>8. disk' = Chained(e, r)
  BY <1>2, <1>3, <1>4, <1>5 DEF b
<1>9. /\ server' = IF ok THEN [server EXCEPT ![c.folder] = server[c.folder] \cup c.items] ELSE server
  BY <1>2, <1>3
<1>10. /\ server' \in [Folders -> SUBSET Items]
       /\ \A f \in Folders : /\ server[f] \subseteq server'[f]
                             /\ server'[f] \subseteq ToSet(ItemsOf[f])
       /\ ok => c.items \subseteq server'[c.folder]
  <2>1. \A f \in Folders : server[f] \subseteq ToSet(ItemsOf[f])
    BY DEF IInv, DoneIsSaved
  <2>2. CASE ok
    <3>1. server' = [server EXCEPT ![c.folder] = server[c.folder] \cup c.items]
      BY <2>2, <1>9
    <3> QED
      BY <3>1, <2>1, <1>1, <1>7
  <2>3. CASE ~ok
    <3>1. server' = server
      BY <2>3, <1>9
    <3> QED
      BY <3>1, <2>1, <2>3, <1>1
  <2> QED
    BY <2>2, <2>3
<1>11. /\ Moves(e, disk', r)
       /\ Held(disk', r) = Held(e, r)
       /\ disk'.writers[r].pending = e.writers[r].pending
       /\ disk'.writers[r].timer = e.writers[r].timer
       /\ disk'.writers[r].batches # <<>> => SentIn(disk', r)
  <2>1. e.writers[r].folder \in Folders
    BY <1>6, <1>7
  <2> QED
    BY <2>1, <1>6, <1>8, ScanChained
<1>12. /\ disk' \in Disk /\ TailFolders(disk') /\ Len(e.tail) <= Len(disk'.tail)
       /\ \A q \in Runs \ {r} : /\ disk'.writers[q] = disk.writers[q]
                                /\ SentIn(disk', q) <=> SentIn(disk, q)
                                /\ OnTheirWay(disk', q) = OnTheirWay(disk, q)
       /\ disk'.writers[r].folder = disk.writers[r].folder
       /\ disk.writers[r].failed \/ ~ok => disk'.writers[r].failed
  <2>1. \A q \in Runs \ {r} : /\ disk'.writers[q] = e.writers[q]
                              /\ SentIn(disk', q) <=> SentIn(e, q)
                              /\ OnTheirWay(disk', q) = OnTheirWay(e, q)
    BY <1>11 DEF Moves
  <2>2. /\ disk' \in Disk /\ TailFolders(disk') /\ Len(e.tail) <= Len(disk'.tail)
        /\ disk'.writers[r].folder = e.writers[r].folder
        /\ disk'.writers[r].failed = e.writers[r].failed
    BY <1>6, <1>11 DEF Moves
  <2> QED
    BY <2>1, <2>2, <1>6
<1>13. \A q \in Runs : Moving(disk', q)
  BY <1>1, <1>6, <1>11, <1>12 DEF Moving
<1>14. /\ gen'.run = gen.run /\ gen'.folder = gen.folder /\ gen'.stage = gen.stage
       /\ gen'.left = gen.left /\ gen'.results = gen.results /\ gen'.ahead = ahead
       /\ gen' \in [run : Nat, folder : Folders, stage : Stages, ahead : Nat,
                    left : SUBSET Items, results : SUBSET Items]
  <2>1. ahead \in Nat
    BY <1>1
  <2> HIDE DEF ahead
  <2> QED
    BY <2>1, <1>1, <1>2
<1>15. gen'.ahead <= Len(disk'.tail) /\ gen'.run <= MaxRun
  <2>1. Len(disk'.tail) \in Nat
    BY <1>12, ScanDisk, disk' \in [writers : [Runs -> Writer], tail : Seq(Record)] DEF Disk
  <2>2. Len(disk.tail) - 1 \in Int /\ Len(disk.tail) - 1 <= Len(disk'.tail)
    BY <1>1, <1>6, <1>12
  <2>3. ahead <= Len(disk'.tail)
    <3>1. CASE gen.ahead = 0
      BY <3>1, <2>1
    <3>2. CASE gen.ahead # 0
      BY <3>2, <2>1, <2>2, <1>1
    <3> QED
      BY <3>1, <3>2
  <2> QED
    BY <2>3, <1>1, <1>14
<1>16. Typed'
  BY <1>2, <1>10, <1>12, <1>13, <1>14, <1>15, ScanFacts, ScanTyped
<1>17. NothingIsStranded'
  BY <1>13 DEF NothingIsStranded, Moving, Sent, SentIn
<1>18. \A q \in Runs \ {r} : Held(disk', q) = Held(disk, q)
  BY <1>12 DEF Held
<1>19. OfFolder'
  <2>1. \A q \in Runs : disk'.writers[q].folder \in Folders
             => Held(disk', q) \subseteq ToSet(ItemsOf[disk'.writers[q].folder])
    <3>1. \A q \in Runs : disk.writers[q].folder \in Folders
             => Held(disk, q) \subseteq ToSet(ItemsOf[disk.writers[q].folder])
      BY DEF IInv, OfFolder
    <3>2. Held(disk', r) \subseteq Held(disk, r)
      BY <1>6, <1>11
    <3> QED
      BY <3>1, <3>2, <1>12, <1>18
  <2>2. \A q \in Runs : disk'.writers[q].folder \in Folders
                         \/ (disk'.writers[q] = NoWriter /\ ~SentIn(disk', q))
    <3>1. \A q \in Runs : disk.writers[q].folder \in Folders
                         \/ (disk.writers[q] = NoWriter /\ ~SentIn(disk, q))
      BY DEF IInv, OfFolder, Sent, SentIn
    <3> QED
      BY <3>1, <1>6, <1>7, <1>12
  <2> QED
    BY <2>1, <2>2, <1>12 DEF OfFolder, TailFolders, Sent, SentIn
<1>20. Unborn'
  <2>1. \A q \in Runs : ~Begun(q) => disk.writers[q] = NoWriter /\ ~SentIn(disk, q)
    BY DEF IInv, Unborn, Sent, SentIn
  <2>2. \A q \in Runs : Begun(q)' <=> Begun(q)
    BY <1>14 DEF Begun
  <2>3. \A q \in Runs : ~Begun(q)' => disk'.writers[q] = NoWriter /\ ~SentIn(disk', q)
    BY <2>1, <2>2, <1>6, <1>12
  <2> QED
    BY <2>3 DEF Unborn, Sent, SentIn
<1>21. Running'
  <2> SUFFICES ASSUME gen.stage \in {"scan", "finish", "done"}
               PROVE  Running'
    BY <1>14 DEF Running
  <2>1. PICK g \in Runs : g = gen.run
    BY DEF IInv, Running
  <2>2. /\ disk.writers[g].folder = gen.folder
        /\ gen.results \cup gen.left = ToSet(ItemsOf[gen.folder])
        /\ gen.stage # "scan" => gen.left = {}
        /\ disk.writers[g].failed \/ gen.results \subseteq server[gen.folder] \cup Held(disk, g)
        /\ gen.stage = "done" => gen.results \subseteq server[gen.folder]
    BY <2>1 DEF IInv, Running
  <2>3. disk'.writers[g].folder = gen.folder
    BY <2>2, <1>12
  <2>4. gen.folder \in Folders /\ server[gen.folder] \subseteq server'[gen.folder]
    BY <1>1, <1>10
  <2>5. disk'.writers[g].failed \/ gen.results \subseteq server'[gen.folder] \cup Held(disk', g)
    <3>1. CASE g # r
      BY <3>1, <2>2, <2>4, <1>12, <1>18
    <3>2. CASE g = r /\ (disk.writers[r].failed \/ ~ok)
      BY <3>2, <1>12
    <3>3. CASE g = r /\ ~disk.writers[r].failed /\ ok
      <4>1. c.folder = gen.folder /\ c.items \subseteq server'[gen.folder]
        BY <3>3, <2>2, <1>6, <1>10
      <4> QED
        BY <3>3, <4>1, <2>2, <2>4, <1>6, <1>11
    <3> QED
      BY <3>1, <3>2, <3>3
  <2> QED
    BY <2>1, <2>2, <2>3, <2>4, <2>5, <1>14 DEF Running
<1>22. DoneIsSaved'
  <2>1. \A f \in Folders : server'[f] \subseteq ToSet(ItemsOf[f])
    BY <1>10
  <2>2. gen.stage = "done" => /\ gen.folder = pane.folder
                              /\ gen.results = ToSet(ItemsOf[pane.folder])
                              /\ gen.results \subseteq server[pane.folder]
    BY DEF IInv, DoneIsSaved
  <2>3. gen.folder \in Folders
    BY <1>1
  <2> QED
    BY <2>1, <2>2, <2>3, <1>2, <1>10, <1>14 DEF DoneIsSaved
<1>23. OnScreen'
  BY <1>2, <1>14 DEF IInv, OnScreen
<1> QED
  BY <1>16, <1>17, <1>19, <1>20, <1>21, <1>22, <1>23 DEF IInv

-----------------------------------------------------------------------------
(* Every action keeps the invariant.                                         *)
LEMMA NextStep == ASSUME ScanAssumption PROVE IInv /\ [Next]_vars => IInv'
<1> SUFFICES ASSUME IInv, [Next]_vars PROVE IInv'
  OBVIOUS
<1>1. CASE UNCHANGED vars
  BY <1>1, ScanFacts, ScanPane DEF vars
<1>2. CASE Activate \/ Deactivate \/ Refresh \/ LeafletLoads
  BY <1>2, ScanActivate, ScanDeactivate, ScanRefresh, ScanLeaflet
<1>3. CASE \E f \in Folders : FolderChanged(f)
  BY <1>3, ScanFolderChanged
<1>4. CASE ListingRead \/ ListingFails \/ Settled
  BY <1>4, ScanListing
<1>5. CASE CacheAnswers \/ QueueEnds \/ Finished
  BY <1>5, ScanCache, ScanQueueEnds, ScanFinished
<1>6. CASE \E i \in Items : ItemRead(i)
  BY <1>6, ScanRead
<1>7. CASE \E r \in Runs : FlushTimer(r)
  BY <1>7, ScanTimer
<1>8. CASE \E ok \in BOOLEAN : WriteEnds(ok)
  BY <1>8, ScanWriteEnds
<1> QED
  BY <1>1, <1>2, <1>3, <1>4, <1>5, <1>6, <1>7, <1>8 DEF Next
=============================================================================
