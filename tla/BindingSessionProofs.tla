------------------------- MODULE BindingSessionProofs -------------------------
(***************************************************************************)
(* Proofs about binding sessions for any directories, witnesses, records,  *)
(* closings and blocks: when the records were made that a directory binds, *)
(* and when the blocks were found that anchor it.                          *)
(***************************************************************************)
EXTENDS BindingSession, SequenceTheorems, WellFoundedInduction, TLAPS

BlockRecord == [parent : Nat, branch : Seq(Nat), payload : Nat]
SignedRecord == [tag : Nat, made : Nat]
Blob == [typ : {"NTP", "EXTERNAL"}, session : Nat, by : Nat, record : Nat]
Directory == [challenge : Nat, blobs : Seq(Blob), history : Nat, checkpoint : Nat,
              payload : Nat]
Closing == [dir : Dirs, blobs : Seq(Blob)]

TypeInv ==
    /\ tree \in Seq(BlockRecord) /\ best \in DOMAIN tree
    /\ opened \in Seq(Nat)
    /\ records \in Seq(SignedRecord)
    /\ dirs \in [Dirs -> Directory]
    /\ closings \in Seq(Closing)
    /\ written \in Int /\ racing \in Nat

\* A record follows the opening of its session, and what is made is made by now.
Made ==
    /\ \A s \in DOMAIN opened : opened[s] <= Len(tree)
    /\ \A r \in DOMAIN records :
          /\ records[r].tag \in DOMAIN opened
          /\ opened[records[r].tag] <= records[r].made /\ records[r].made <= Len(tree)

\* An external blob is one of a record with the tag of the directory.
Belongs(d, x) ==
    x.typ = "EXTERNAL" =>
        x.record \in DOMAIN records /\ records[x.record].tag = dirs[d].challenge

Owned ==
    /\ \A d \in Dirs :
          /\ \A i \in DOMAIN dirs[d].blobs : Belongs(d, dirs[d].blobs[i])
          /\ dirs[d].challenge = 0 => dirs[d].blobs = << >>
    /\ \A k \in DOMAIN closings :
          /\ dirs[closings[k].dir].challenge # 0
          /\ \A i \in DOMAIN closings[k].blobs : Belongs(closings[k].dir, closings[k].blobs[i])

\* A payload is on disk once its closing has written everything, and not before
\* that in a template or a block.
Paid ==
    /\ \A d \in Dirs : dirs[d].payload <= Len(closings)
    /\ written # -1 =>
          /\ closings # << >> /\ dirs[closings[Len(closings)].dir].payload = 0
          /\ written \in 0 .. Len(closings[Len(closings)].blobs) + 2
          /\ \A d \in Dirs : dirs[d].payload < Len(closings)
    /\ racing # 0 => \E d \in Dirs : racing = dirs[d].payload
    /\ \A c \in DOMAIN tree :
          tree[c].payload # 0 => \E d \in Dirs : tree[c].payload = dirs[d].payload

\* A block that carries a payload was found after the records of its directory.
Later ==
    \A d \in Dirs : \A c \in DOMAIN tree : \A i \in External(dirs[d].blobs) :
        dirs[d].payload # 0 /\ tree[c].payload = dirs[d].payload =>
            records[dirs[d].blobs[i].record].made < c

SessionInv == TypeInv /\ Made /\ Owned /\ Paid /\ Later

\* The types of the entries.
LEMMA Entries ==
    ASSUME SessionInv
    PROVE  /\ \A s \in DOMAIN opened : s \in Nat /\ opened[s] \in Nat
           /\ \A r \in DOMAIN records :
                 r \in Nat /\ records[r].tag \in Nat /\ records[r].made \in Nat
           /\ \A k \in DOMAIN closings :
                 closings[k].dir \in Dirs /\ closings[k].blobs \in Seq(Blob)
           /\ \A d \in Dirs :
                 /\ dirs[d] \in Directory /\ dirs[d].challenge \in Nat
                 /\ dirs[d].blobs \in Seq(Blob) /\ dirs[d].payload \in Nat
           /\ Len(tree) \in Nat /\ Len(closings) \in Nat
           /\ closings # << >> => Len(closings) \in DOMAIN closings
<1>1. /\ opened \in Seq(Nat) /\ records \in Seq(SignedRecord)
      /\ tree \in Seq(BlockRecord) /\ dirs \in [Dirs -> Directory]
      /\ closings \in Seq(Closing)
  BY DEF SessionInv, TypeInv
<1>2. \A s \in DOMAIN opened : s \in Nat /\ opened[s] \in Nat
  BY <1>1
<1>3. \A r \in DOMAIN records :
         r \in Nat /\ records[r].tag \in Nat /\ records[r].made \in Nat
  <2>1. \A r \in DOMAIN records : r \in Nat /\ records[r] \in SignedRecord
    BY <1>1
  <2>2. QED BY <2>1 DEF SignedRecord
<1>4. \A k \in DOMAIN closings : closings[k].dir \in Dirs /\ closings[k].blobs \in Seq(Blob)
  <2>1. \A k \in DOMAIN closings : closings[k] \in Closing
    BY <1>1
  <2>2. QED BY <2>1 DEF Closing
<1>5. \A d \in Dirs : /\ dirs[d] \in Directory /\ dirs[d].challenge \in Nat
                      /\ dirs[d].blobs \in Seq(Blob) /\ dirs[d].payload \in Nat
  BY <1>1 DEF Directory
<1>6. /\ Len(tree) \in Nat /\ Len(closings) \in Nat
      /\ closings # << >> => Len(closings) \in DOMAIN closings
  BY <1>1
<1>7. QED BY <1>2, <1>3, <1>4, <1>5, <1>6

LEMMA SessionInit == Init => SessionInv
<1> SUFFICES ASSUME Init PROVE SessionInv
  OBVIOUS
<1> DEFINE first == [parent |-> 0, branch |-> <<1>>, payload |-> 0]
<1>1. first \in BlockRecord /\ first.payload = 0
  BY DEF BlockRecord
<1> HIDE DEF first
<1>2. tree = <<first>> /\ best = 1
  BY DEF Init, InitTree, first
<1>3. tree \in Seq(BlockRecord) /\ DOMAIN tree = {1} /\ Len(tree) = 1 /\ tree[1].payload = 0
  BY <1>1, <1>2
<1>4. /\ EmptyDir.challenge = 0 /\ EmptyDir.blobs = << >> /\ EmptyDir.history = 0
      /\ EmptyDir.checkpoint = 0 /\ EmptyDir.payload = 0 /\ EmptyDir \in Directory
  BY DEF EmptyDir, Directory
<1>5. opened = << >> /\ records = << >> /\ closings = << >> /\ written = -1 /\ racing = 0
  BY DEF Init
<1>6. dirs = [d \in Dirs |-> EmptyDir]
  BY DEF Init
<1>7. \A d \in Dirs : dirs[d] = EmptyDir
  BY <1>6
<1>8. TypeInv
  BY <1>2, <1>3, <1>4, <1>5, <1>6 DEF TypeInv
<1>9. Made
  BY <1>5 DEF Made
<1>10. Owned
  BY <1>4, <1>5, <1>7 DEF Owned
<1>11. Paid
  BY <1>3, <1>4, <1>5, <1>7 DEF Paid
<1>12. Later
  BY <1>4, <1>7 DEF Later, External
<1>13. QED BY <1>8, <1>9, <1>10, <1>11, <1>12 DEF SessionInv

-------------------------------------------------------------------------------
\* Blocks are only added, and a record is of a block that was there.
LEMMA FindStep ==
    ASSUME SessionInv, NEW parent \in DOMAIN tree, NEW payload \in Nat, Find(parent, payload),
           payload # 0 => \E d \in Dirs : payload = dirs[d].payload
    PROVE  SessionInv'
<1> DEFINE block == [parent |-> parent, payload |-> payload,
                     branch |-> Append(tree[parent].branch, Len(tree) + 1)]
<1>1. tree' = Append(tree, block) /\ best' \in {Len(tree) + 1, best}
  BY DEF Find, Grow
<1>2. UNCHANGED <<opened, records, dirs, closings, written, racing, bundle>>
  BY DEF Find
<1>3. tree \in Seq(BlockRecord) /\ parent \in Nat /\ tree[parent] \in BlockRecord
  BY DEF SessionInv, TypeInv
<1>4. block \in BlockRecord /\ block.payload = payload
  BY <1>3 DEF BlockRecord
<1> HIDE DEF block
<1>5. /\ tree' \in Seq(BlockRecord) /\ Len(tree') = Len(tree) + 1 /\ Len(tree) \in Nat
      /\ DOMAIN tree = 1 .. Len(tree) /\ DOMAIN tree' = 1 .. Len(tree) + 1
      /\ \A c \in DOMAIN tree : tree'[c] = tree[c]
      /\ tree'[Len(tree) + 1] = block
  BY <1>1, <1>3, <1>4
<1>6. \A c \in DOMAIN tree' : c \in DOMAIN tree \/ c = Len(tree) + 1
  BY <1>5
<1>7. TypeInv'
  BY <1>1, <1>2, <1>5 DEF SessionInv, TypeInv
<1>8. Made'
  <2>1. \A s \in DOMAIN opened : opened[s] \in Nat /\ opened[s] <= Len(tree)
    BY Entries DEF SessionInv, Made
  <2>2. \A r \in DOMAIN records : records[r].made \in Nat
    BY Entries
  <2>3. \A s \in DOMAIN opened : opened[s] <= Len(tree')
    BY <2>1, <1>5
  <2>4. \A r \in DOMAIN records : records[r].made <= Len(tree')
    BY <2>2, <1>5 DEF SessionInv, Made
  <2>5. QED BY <1>2, <2>3, <2>4 DEF SessionInv, Made
<1>9. Owned'
  BY <1>2 DEF SessionInv, Owned, Belongs
<1>10. Paid'
  BY <1>2, <1>4, <1>5, <1>6 DEF SessionInv, Paid
<1>11. Later'
  <2> SUFFICES ASSUME NEW d \in Dirs, NEW c \in DOMAIN tree', NEW i \in External(dirs[d].blobs),
                      dirs[d].payload # 0, tree'[c].payload = dirs[d].payload
               PROVE  records[dirs[d].blobs[i].record].made < c
    BY <1>2 DEF Later, External
  <2>1. CASE c \in DOMAIN tree
    BY <2>1, <1>5 DEF SessionInv, Later
  <2>2. CASE c = Len(tree) + 1
    <3> DEFINE r == dirs[d].blobs[i].record
    <3>1. r \in DOMAIN records
      BY DEF SessionInv, Owned, Belongs, External
    <3>2. records[r].made <= Len(tree) /\ records[r].made \in Nat
      BY <3>1, Entries DEF SessionInv, Made
    <3>3. QED BY <3>2, <2>2, <1>5
  <2>3. QED BY <1>6, <2>1, <2>2
<1>12. QED BY <1>7, <1>8, <1>9, <1>10, <1>11 DEF SessionInv

\* A directory without a challenge gets one: it holds no blobs yet.
LEMMA ChallengeStep ==
    ASSUME SessionInv, NEW d \in Dirs, dirs[d].challenge = 0, NEW s \in Nat,
           dirs' = [dirs EXCEPT ![d].challenge = s],
           UNCHANGED <<records, closings, written, racing, tree>>
    PROVE  Owned' /\ Paid' /\ Later' /\ dirs' \in [Dirs -> Directory]
<1> DEFINE opening == [dirs[d] EXCEPT !.challenge = s]
<1>1. dirs' = [dirs EXCEPT ![d] = opening]
  OBVIOUS
<1>2. dirs \in [Dirs -> Directory] /\ dirs[d] \in Directory
  BY DEF SessionInv, TypeInv
<1>3. /\ opening \in Directory /\ opening.challenge = s /\ opening.blobs = dirs[d].blobs
      /\ opening.payload = dirs[d].payload
  BY <1>2 DEF Directory
<1> HIDE DEF opening
<1>4. /\ dirs' \in [Dirs -> Directory] /\ dirs'[d] = opening
      /\ \A e \in Dirs : e # d => dirs'[e] = dirs[e]
  BY <1>1, <1>2, <1>3
<1>5. \A e \in Dirs : dirs'[e].blobs = dirs[e].blobs /\ dirs'[e].payload = dirs[e].payload
  BY <1>3, <1>4
<1>6. dirs[d].blobs = << >> /\ \A k \in DOMAIN closings : closings[k].dir # d
  BY DEF SessionInv, Owned
<1>7. \A k \in DOMAIN closings : closings[k].dir \in Dirs
  BY Entries
<1>8. Owned'
  <2>1. \A e \in Dirs : dirs'[e].challenge = 0 => dirs'[e].blobs = << >>
    BY <1>3, <1>4, <1>6 DEF SessionInv, Owned
  <2>2. \A e \in Dirs : \A i \in DOMAIN dirs'[e].blobs : Belongs(e, dirs[e].blobs[i])'
    <3> SUFFICES ASSUME NEW e \in Dirs, NEW i \in DOMAIN dirs'[e].blobs
                 PROVE  Belongs(e, dirs[e].blobs[i])'
      OBVIOUS
    <3>1. e # d
      BY <1>5, <1>6
    <3>2. dirs'[e] = dirs[e] /\ Belongs(e, dirs[e].blobs[i])
      BY <3>1, <1>4 DEF SessionInv, Owned
    <3>3. QED BY <3>2 DEF Belongs
  <2>3. \A k \in DOMAIN closings :
           /\ dirs'[closings[k].dir].challenge # 0
           /\ \A i \in DOMAIN closings[k].blobs : Belongs(closings[k].dir, closings[k].blobs[i])'
    BY <1>4, <1>6, <1>7 DEF SessionInv, Owned, Belongs
  <2>4. QED BY <2>1, <2>2, <2>3 DEF Owned
<1>9. Paid'
  <2>1. \A k \in DOMAIN closings : dirs'[closings[k].dir].payload = dirs[closings[k].dir].payload
    BY <1>5, <1>7
  <2>2. written # -1 => dirs'[closings[Len(closings)].dir].payload = 0
    BY <2>1, Entries DEF SessionInv, Paid
  <2>3. QED BY <1>5, <2>2 DEF SessionInv, Paid
<1>10. Later'
  BY <1>5 DEF SessionInv, Later, External
<1>11. QED BY <1>4, <1>8, <1>9, <1>10

LEMMA OpenStep == ASSUME SessionInv, NEW d \in Dirs, Open(d) PROVE SessionInv'
<1>1. /\ dirs[d].challenge = 0 /\ opened' = Append(opened, best)
      /\ dirs' = [dirs EXCEPT ![d].challenge = Len(opened')]
      /\ UNCHANGED <<tree, best, records, closings, written, racing>>
  BY DEF Open, chainVars
<1>2. best \in Nat /\ best <= Len(tree) /\ opened \in Seq(Nat)
  BY DEF SessionInv, TypeInv
<1>3. /\ opened' \in Seq(Nat) /\ Len(opened') \in Nat
      /\ DOMAIN opened \subseteq DOMAIN opened' /\ opened'[Len(opened) + 1] = best
      /\ \A s \in DOMAIN opened : opened'[s] = opened[s]
      /\ \A s \in DOMAIN opened' : s \in DOMAIN opened \/ s = Len(opened) + 1
  BY <1>1, <1>2
<1>4. Owned' /\ Paid' /\ Later' /\ dirs' \in [Dirs -> Directory]
  BY <1>1, <1>3, ChallengeStep
<1>5. TypeInv'
  BY <1>1, <1>3, <1>4 DEF SessionInv, TypeInv
<1>6. Made'
  <2>1. \A s \in DOMAIN opened' : opened'[s] <= Len(tree)
    BY <1>2, <1>3 DEF SessionInv, Made
  <2>2. \A r \in DOMAIN records : /\ records[r].tag \in DOMAIN opened'
                                  /\ opened'[records[r].tag] <= records[r].made
    BY <1>3 DEF SessionInv, Made
  <2>3. QED BY <1>1, <2>1, <2>2 DEF SessionInv, Made
<1>7. QED BY <1>4, <1>5, <1>6 DEF SessionInv

LEMMA ContinueStep ==
    ASSUME SessionInv, NEW d \in Dirs, NEW from \in Dirs, Continue(d, from) PROVE SessionInv'
<1>1. /\ dirs[d].challenge = 0
      /\ dirs' = [dirs EXCEPT ![d].challenge = dirs[from].challenge]
      /\ UNCHANGED <<tree, best, opened, records, closings, written, racing>>
  BY DEF Continue, chainVars
<1>2. dirs[from].challenge \in Nat
  BY DEF SessionInv, TypeInv, Directory
<1>3. Owned' /\ Paid' /\ Later' /\ dirs' \in [Dirs -> Directory]
  BY <1>1, <1>2, ChallengeStep
<1>4. TypeInv' /\ Made'
  BY <1>1, <1>3 DEF SessionInv, TypeInv, Made
<1>5. QED BY <1>3, <1>4 DEF SessionInv

LEMMA MakeRecordStep == ASSUME SessionInv, MakeRecord PROVE SessionInv'
<1>1. PICK s \in DOMAIN opened : records' = Append(records, [tag |-> s, made |-> Len(tree)])
  BY DEF MakeRecord
<1>2. UNCHANGED <<tree, best, opened, dirs, closings, written, racing>>
  BY DEF MakeRecord, chainVars
<1> DEFINE r == [tag |-> s, made |-> Len(tree)]
<1>3. s \in Nat /\ opened[s] <= Len(tree) /\ Len(tree) \in Nat
  BY Entries DEF SessionInv, Made
<1>4. r \in SignedRecord /\ r.tag = s /\ r.made = Len(tree)
  BY <1>3 DEF SignedRecord
<1>5. records' = Append(records, r) /\ records \in Seq(SignedRecord)
  BY <1>1 DEF SessionInv, TypeInv
<1> HIDE DEF r
<1>6. /\ records' \in Seq(SignedRecord)
      /\ DOMAIN records \subseteq DOMAIN records' /\ records'[Len(records) + 1] = r
      /\ \A k \in DOMAIN records : records'[k] = records[k]
      /\ \A k \in DOMAIN records' : k \in DOMAIN records \/ k = Len(records) + 1
  BY <1>4, <1>5
<1>7. TypeInv'
  BY <1>2, <1>6 DEF SessionInv, TypeInv
<1>8. Made'
  <2>1. \A k \in DOMAIN records' :
           /\ records'[k].tag \in DOMAIN opened
           /\ opened[records'[k].tag] <= records'[k].made /\ records'[k].made <= Len(tree)
    BY <1>3, <1>4, <1>6 DEF SessionInv, Made
  <2>2. QED BY <1>2, <2>1 DEF SessionInv, Made
<1>9. Owned'
  BY <1>2, <1>6 DEF SessionInv, Owned, Belongs
<1>10. Paid'
  BY <1>2 DEF SessionInv, Paid
<1>11. Later'
  <2>1. \A d \in Dirs : \A i \in External(dirs[d].blobs) : dirs[d].blobs[i].record \in DOMAIN records
    BY DEF SessionInv, Owned, Belongs, External
  <2>2. QED BY <1>2, <1>6, <2>1 DEF SessionInv, Later, External
<1>12. QED BY <1>7, <1>8, <1>9, <1>10, <1>11 DEF SessionInv

-------------------------------------------------------------------------------
\* What a closing has in memory: blobs of witnesses, then of verified records.
LEMMA CloseStep == ASSUME SessionInv, NEW d \in Dirs, Close(d) PROVE SessionInv'
<1>1. PICK batch \in Batches, k \in Needed..MaxWitnesses :
        /\ MayBind(d, batch)
        /\ closings' = Append(closings, [dir |-> d,
                                         blobs |-> Witnessed(d, k) \o Committed(d, batch)])
  BY DEF Close
<1>2. /\ written' = 0 /\ dirs[d].challenge # 0
      /\ UNCHANGED <<tree, best, opened, records, dirs, racing>>
  BY DEF Close, chainVars
<1> DEFINE blobs == Witnessed(d, k) \o Committed(d, batch)
           closing == [dir |-> d, blobs |-> blobs]
<1>3. dirs[d].challenge \in Nat /\ Len(closings) \in Nat
      /\ closings \in Seq(Closing)
  BY DEF SessionInv, TypeInv, Directory
<1>4. Witnessed(d, k) \in Seq(Blob) /\ \A i \in DOMAIN Witnessed(d, k) : Witnessed(d, k)[i].typ = "NTP"
  <2>1. k \in Nat
    BY BindingAssumption
  <2> DEFINE item == [typ |-> "NTP", session |-> dirs[d].challenge,
                      by |-> Len(closings) + 1, record |-> 0]
  <2>2. item \in Blob /\ item.typ = "NTP"
    BY <1>3 DEF Blob
  <2>3. Witnessed(d, k) = [i \in 1..k |-> item]
    BY DEF Witnessed
  <2> HIDE DEF item
  <2>4. QED BY <2>1, <2>2, <2>3
<1>5. /\ Committed(d, batch) \in Seq(Blob)
      /\ \A i \in DOMAIN Committed(d, batch) : Belongs(d, Committed(d, batch)[i])
  <2>1. PICK n \in Nat : batch \in [1..n -> DOMAIN records]
    <3>1. PICK n \in DOMAIN records : batch \in [1..n -> DOMAIN records]
      BY DEF Batches
    <3>2. n \in Nat
      BY Entries
    <3>3. QED BY <3>1, <3>2
  <2>2. \A i \in 1..n : batch[i] \in DOMAIN records /\ batch[i] \in Nat
                        /\ records[batch[i]].tag = dirs[d].challenge
    BY <1>1, <2>1, Entries DEF MayBind, Verified
  <2> DEFINE item(i) == [typ |-> "EXTERNAL", session |-> dirs[d].challenge,
                         by |-> 0, record |-> batch[i]]
  <2>3. \A i \in 1..n : item(i) \in Blob /\ item(i).record = batch[i]
    BY <1>3, <2>2 DEF Blob
  <2>4. Committed(d, batch) = [i \in 1..n |-> item(i)]
    BY <2>1 DEF Committed
  <2> HIDE DEF item
  <2>5. Committed(d, batch) \in Seq(Blob)
    BY <2>3, <2>4
  <2>6. QED BY <2>2, <2>3, <2>4, <2>5 DEF Belongs
<1>6. blobs \in Seq(Blob) /\ \A i \in DOMAIN blobs : Belongs(d, blobs[i])
  <2>1. \A i \in DOMAIN Witnessed(d, k) : Belongs(d, Witnessed(d, k)[i])
    BY <1>4 DEF Belongs
  <2>2. QED BY <1>4, <1>5, <2>1
<1>7. /\ closing \in Closing
      /\ closing.dir = d /\ closing.blobs = blobs
  BY <1>6 DEF Closing
<1>8. closings' = Append(closings, closing)
  BY <1>1
<1> HIDE DEF blobs, closing
<1>9. /\ closings' \in Seq(Closing) /\ Len(closings') = Len(closings) + 1
      /\ closings' # << >> /\ closings'[Len(closings')] = closing
      /\ \A j \in DOMAIN closings : closings'[j] = closings[j]
      /\ \A j \in DOMAIN closings' : j \in DOMAIN closings \/ j = Len(closings')
  <2>2. /\ closings' \in Seq(Closing) /\ Len(closings') = Len(closings) + 1
        /\ closings'[Len(closings) + 1] = closing /\ Len(closings) \in Nat
        /\ DOMAIN closings = 1 .. Len(closings) /\ DOMAIN closings' = 1 .. Len(closings) + 1
        /\ \A j \in DOMAIN closings : closings'[j] = closings[j]
    BY <1>3, <1>7, <1>8
  <2>3. closings' # << >>
    BY <2>2
  <2>4. QED BY <2>2, <2>3
<1>10. TypeInv'
  BY <1>2, <1>9 DEF SessionInv, TypeInv
<1>11. Made' /\ Later'
  BY <1>2 DEF SessionInv, Made, Later, External
<1>12. Owned'
  <2>1. \A j \in DOMAIN closings' :
           /\ dirs[closings'[j].dir].challenge # 0
           /\ \A i \in DOMAIN closings'[j].blobs : Belongs(closings'[j].dir, closings'[j].blobs[i])
    BY <1>2, <1>6, <1>7, <1>9 DEF SessionInv, Owned
  <2>2. QED BY <1>2, <2>1 DEF SessionInv, Owned, Belongs
<1>13. Paid'
  <2>1. \A e \in Dirs : dirs[e].payload \in Nat /\ dirs[e].payload <= Len(closings)
    BY DEF SessionInv, TypeInv, Directory, Paid
  <2>2. dirs[d].payload = 0
    BY <1>1 DEF MayBind
  <2>3. \A e \in Dirs : dirs[e].payload < Len(closings') /\ dirs[e].payload <= Len(closings')
    BY <2>1, <1>3, <1>9
  <2>4. 0 \in 0 .. Len(closings'[Len(closings')].blobs) + 2
    BY <1>6, <1>7, <1>9
  <2>5. QED BY <1>2, <1>7, <1>9, <2>2, <2>3, <2>4 DEF SessionInv, Paid
<1>14. QED BY <1>10, <1>11, <1>12, <1>13 DEF SessionInv

\* A blob is written over one with its number or behind the others.
LEMMA ReplacedBlobs ==
    ASSUME NEW d, NEW blobs \in Seq(Blob), NEW n \in Nat \ {0}, NEW x \in Blob, Belongs(d, x),
           \A i \in DOMAIN blobs : Belongs(d, blobs[i])
    PROVE  /\ Replaced(blobs, n, x) \in Seq(Blob)
           /\ \A i \in DOMAIN Replaced(blobs, n, x) : Belongs(d, Replaced(blobs, n, x)[i])
<1>1. CASE n <= Len(blobs)
  <2>1. Replaced(blobs, n, x) = [blobs EXCEPT ![n] = x]
    BY <1>1 DEF Replaced
  <2>2. QED BY <2>1, <1>1
<1>2. CASE ~(n <= Len(blobs))
  <2>1. Replaced(blobs, n, x) = Append(blobs, x)
    BY <1>2 DEF Replaced
  <2>2. /\ Append(blobs, x) \in Seq(Blob)
        /\ \A i \in DOMAIN Append(blobs, x) : i \in DOMAIN blobs \/ i = Len(blobs) + 1
        /\ \A i \in DOMAIN blobs : Append(blobs, x)[i] = blobs[i]
        /\ Append(blobs, x)[Len(blobs) + 1] = x
    OBVIOUS
  <2>3. QED BY <2>1, <2>2
<1>3. QED BY <1>1, <1>2

\* One file of a closing: a blob, a number, or the payload as the last.
LEMMA WrittenFile ==
    ASSUME NEW d \in Dirs, NEW f \in Directory, NEW n \in Nat \ {0}, NEW blobs \in Seq(Blob),
           n <= Len(blobs) + 3, Len(closings) \in Nat,
           \A i \in DOMAIN f.blobs : Belongs(d, f.blobs[i]),
           \A i \in DOMAIN blobs : Belongs(d, blobs[i])
    PROVE  LET g == WrittenTo(f, n, blobs)
           IN  /\ g \in Directory /\ g.challenge = f.challenge
               /\ g.history = f.history \/ g.history = Len(closings)
               /\ \A i \in DOMAIN g.blobs : Belongs(d, g.blobs[i])
               /\ IF n = Len(blobs) + 3 THEN g.payload = Len(closings) /\ g.blobs = f.blobs
                                        ELSE g.payload = f.payload
<1> DEFINE g == WrittenTo(f, n, blobs)
<1>1. Len(blobs) \in Nat /\ DOMAIN blobs = 1 .. Len(blobs)
  OBVIOUS
<1>2. CASE n \in DOMAIN blobs
  <2> DEFINE more == Replaced(f.blobs, n, blobs[n])
  <2>1. g = [f EXCEPT !.blobs = more]
    BY <1>2 DEF WrittenTo
  <2>2. more \in Seq(Blob) /\ \A i \in DOMAIN more : Belongs(d, more[i])
    BY SMTT(30), <1>2, ReplacedBlobs DEF Directory
  <2> HIDE DEF more
  <2>3. /\ g \in Directory /\ g.challenge = f.challenge /\ g.blobs = more
        /\ g.payload = f.payload /\ g.history = f.history
    BY <2>1, <2>2 DEF Directory
  <2>4. QED BY <1>1, <1>2, <2>2, <2>3
<1>3. CASE n = Len(blobs) + 1
  <2>1. g = [f EXCEPT !.history = Len(closings)]
    BY <1>1, <1>3 DEF WrittenTo
  <2>2. /\ g \in Directory /\ g.challenge = f.challenge /\ g.blobs = f.blobs
        /\ g.payload = f.payload /\ g.history = Len(closings)
    BY <2>1 DEF Directory
  <2>3. QED BY <1>1, <1>3, <2>2
<1>4. CASE n = Len(blobs) + 2
  <2>1. g = [f EXCEPT !.checkpoint = Len(closings)]
    BY <1>1, <1>4 DEF WrittenTo
  <2>2. /\ g \in Directory /\ g.challenge = f.challenge /\ g.blobs = f.blobs
        /\ g.payload = f.payload /\ g.history = f.history
    BY <2>1 DEF Directory
  <2>3. QED BY <1>1, <1>4, <2>2
<1>5. CASE n = Len(blobs) + 3
  <2>1. g = [f EXCEPT !.payload = Len(closings)]
    BY <1>1, <1>5 DEF WrittenTo
  <2>2. /\ g \in Directory /\ g.challenge = f.challenge /\ g.blobs = f.blobs
        /\ g.payload = Len(closings) /\ g.history = f.history
    BY <2>1 DEF Directory
  <2>3. QED BY <1>5, <2>2
<1>6. QED BY <1>1, <1>2, <1>3, <1>4, <1>5

\* The next file of a closing.  Only the last, the payload, is one a block may carry,
\* and no block carries it yet.
LEMMA WriteStep == ASSUME SessionInv, Write PROVE SessionInv'
<1> DEFINE run == closings[Len(closings)]
           d == run.dir
           file == WrittenTo(dirs[d], written + 1, run.blobs)
<1>1. /\ written # -1
      /\ dirs' = [dirs EXCEPT ![d] = file]
      /\ written' = IF written + 1 < Len(run.blobs) + 3 THEN written + 1 ELSE -1
      /\ UNCHANGED <<tree, best, opened, records, closings, racing>>
  BY DEF Write, chainVars
<1>2. /\ closings # << >> /\ dirs[d].payload = 0 /\ written \in 0 .. Len(run.blobs) + 2
      /\ \A e \in Dirs : dirs[e].payload < Len(closings)
  BY <1>1 DEF SessionInv, Paid
<1>3. /\ Len(closings) \in DOMAIN closings /\ Len(closings) \in Nat /\ run.blobs \in Seq(Blob)
      /\ d \in Dirs /\ dirs[d] \in Directory /\ dirs \in [Dirs -> Directory]
  BY <1>2, Entries DEF SessionInv, TypeInv
<1>4. /\ dirs[d].challenge # 0
      /\ \A i \in DOMAIN run.blobs : Belongs(d, run.blobs[i])
      /\ \A i \in DOMAIN dirs[d].blobs : Belongs(d, dirs[d].blobs[i])
  BY <1>3 DEF SessionInv, Owned
<1>5. /\ written + 1 \in Nat \ {0} /\ written + 1 <= Len(run.blobs) + 3
      /\ Len(run.blobs) \in Nat
  BY <1>2, <1>3
<1>6. /\ file \in Directory /\ file.challenge = dirs[d].challenge
      /\ \A i \in DOMAIN file.blobs : Belongs(d, file.blobs[i])
      /\ IF written + 1 = Len(run.blobs) + 3
         THEN file.payload = Len(closings) /\ file.blobs = dirs[d].blobs
         ELSE file.payload = dirs[d].payload
  <2> HIDE DEF run, d
  <2>1. QED BY <1>3, <1>4, <1>5, WrittenFile
<1> HIDE DEF file
<1>7. /\ dirs' \in [Dirs -> Directory] /\ dirs'[d] = file
      /\ \A e \in Dirs : e # d => dirs'[e] = dirs[e]
  BY <1>1, <1>3, <1>6
<1>8. \A e \in Dirs : dirs'[e].challenge = dirs[e].challenge
  BY <1>6, <1>7
<1>9. TypeInv'
  <2>1. written' \in Int
    BY <1>1, <1>5
  <2>2. QED BY <1>1, <1>7, <2>1 DEF SessionInv, TypeInv
<1>10. Made'
  BY <1>1 DEF SessionInv, Made
<1>11. Owned'
  <2>1. \A e \in Dirs : \A i \in DOMAIN dirs'[e].blobs : Belongs(e, dirs'[e].blobs[i])
    BY <1>6, <1>7 DEF SessionInv, Owned
  <2>2. \A e \in Dirs : \A i \in DOMAIN dirs'[e].blobs : Belongs(e, dirs[e].blobs[i])'
    BY <1>1, <1>8, <2>1 DEF Belongs
  <2>3. \A e \in Dirs : dirs'[e].challenge = 0 => dirs'[e].blobs = << >>
    BY <1>4, <1>7, <1>8 DEF SessionInv, Owned
  <2>4. \A k \in DOMAIN closings : closings[k].dir \in Dirs
    BY Entries
  <2>5. \A k \in DOMAIN closings :
           /\ dirs'[closings[k].dir].challenge # 0
           /\ \A i \in DOMAIN closings[k].blobs : Belongs(closings[k].dir, closings[k].blobs[i])'
    BY <1>1, <1>8, <2>4 DEF SessionInv, Owned, Belongs
  <2>6. QED BY <1>1, <2>2, <2>3, <2>5 DEF Owned
<1>12. Paid' /\ Later'
  <2>1. CASE written + 1 = Len(run.blobs) + 3
    <3>1. dirs'[d].payload = Len(closings) /\ dirs'[d].blobs = dirs[d].blobs /\ written' = -1
      BY <2>1, <1>1, <1>5, <1>6, <1>7
    <3>2. \A e \in Dirs : dirs[e].payload \in Nat /\ dirs[e].payload < Len(closings)
      BY <1>2, Entries
    <3>3. \A e \in Dirs : dirs[e].payload # 0 => dirs'[e].payload = dirs[e].payload
      BY <1>2, <1>7, <3>1
    <3>4. Paid'
      <4>1. \A e \in Dirs : dirs'[e].payload <= Len(closings)
        BY <1>3, <1>7, <3>1, <3>2
      <4>2. racing # 0 => \E e \in Dirs : racing = dirs'[e].payload
        BY <3>3 DEF SessionInv, Paid
      <4>3. \A c \in DOMAIN tree :
               tree[c].payload # 0 => \E e \in Dirs : tree[c].payload = dirs'[e].payload
        BY <3>3 DEF SessionInv, Paid
      <4>4. QED BY <1>1, <3>1, <4>1, <4>2, <4>3 DEF Paid
    <3>5. \A c \in DOMAIN tree : tree[c].payload # Len(closings)
      BY <1>3, <3>2 DEF SessionInv, Paid
    <3>6. Later'
      <4>1. \A e \in Dirs : e = d \/ dirs'[e] = dirs[e]
        BY <1>7
      <4>2. QED BY <1>1, <3>1, <3>5, <4>1 DEF SessionInv, Later, External
    <3>7. QED BY <3>4, <3>6
  <2>2. CASE written + 1 # Len(run.blobs) + 3
    <3>1. \A e \in Dirs : dirs'[e].payload = dirs[e].payload
      BY <2>2, <1>6, <1>7
    <3>2. written' = written + 1 /\ written + 1 \in 0 .. Len(run.blobs) + 2
      BY <2>2, <1>1, <1>5
    <3>3. Paid'
      <4>1. \A e \in Dirs : dirs'[e].payload <= Len(closings) /\ dirs'[e].payload < Len(closings)
        BY <1>3, <1>2, <3>1, Entries
      <4>2. racing # 0 => \E e \in Dirs : racing = dirs'[e].payload
        BY <3>1 DEF SessionInv, Paid
      <4>3. \A c \in DOMAIN tree :
               tree[c].payload # 0 => \E e \in Dirs : tree[c].payload = dirs'[e].payload
        BY <3>1 DEF SessionInv, Paid
      <4>4. dirs'[d].payload = 0
        BY <1>2, <1>3, <3>1
      <4>5. QED BY <1>1, <1>2, <3>2, <4>1, <4>2, <4>3, <4>4 DEF Paid
    <3>4. Later'
      <4>1. \A e \in Dirs : e = d \/ dirs'[e] = dirs[e]
        BY <1>7
      <4>2. dirs'[d].payload = 0
        BY <1>2, <1>3, <3>1
      <4>3. QED BY <1>1, <4>1, <4>2 DEF SessionInv, Later, External
    <3>5. QED BY <3>3, <3>4
  <2>3. QED BY <2>1, <2>2
<1>13. QED BY <1>9, <1>10, <1>11, <1>12 DEF SessionInv

-------------------------------------------------------------------------------
LEMMA SessionStep == SessionInv /\ [Next]_vars => SessionInv'
<1> SUFFICES ASSUME SessionInv, [Next]_vars PROVE SessionInv'
  OBVIOUS
<1>1. CASE Others
  <2>1. PICK b \in DOMAIN tree : Find(b, 0)
    BY <1>1 DEF Others
  <2>2. QED BY <2>1, FindStep
<1>2. CASE Anchor
  <2>1. PICK b \in DOMAIN tree : racing # 0 /\ Find(b, racing)
    BY <1>2 DEF Anchor
  <2>2. racing \in Nat /\ \E d \in Dirs : racing = dirs[d].payload
    BY <2>1 DEF SessionInv, TypeInv, Paid
  <2>3. QED BY <2>1, <2>2, FindStep
<1>3. CASE MakeRecord
  BY <1>3, MakeRecordStep
<1>4. CASE Write
  BY <1>4, WriteStep
<1>5. CASE Crash
  <2>1. written' = -1 /\ UNCHANGED <<tree, best, opened, records, dirs, closings, racing>>
    BY <1>5 DEF Crash, chainVars
  <2>2. QED BY <2>1 DEF SessionInv, TypeInv, Made, Owned, Belongs, Paid, Later, External
<1>6. ASSUME NEW d \in Dirs, BuildTemplate(d) PROVE SessionInv'
  <2>1. /\ racing' = dirs[d].payload
        /\ UNCHANGED <<tree, best, opened, records, dirs, closings, written>>
    BY <1>6 DEF BuildTemplate, chainVars
  <2>2. TypeInv'
    BY <2>1, Entries DEF SessionInv, TypeInv
  <2>3. Paid'
    BY <2>1 DEF SessionInv, Paid
  <2>4. QED BY <2>1, <2>2, <2>3 DEF SessionInv, Made, Owned, Belongs, Later, External
<1>7. ASSUME NEW d \in Dirs, Assemble(d) PROVE SessionInv'
  <2>1. UNCHANGED <<tree, best, opened, records, dirs, closings, written, racing>>
    BY <1>7 DEF Assemble, chainVars
  <2>2. QED BY <2>1 DEF SessionInv, TypeInv, Made, Owned, Belongs, Paid, Later, External
<1>8. CASE UNCHANGED vars
  <2>1. UNCHANGED <<tree, best, opened, records, dirs, closings, written, racing>>
    BY <1>8 DEF vars, chainVars
  <2>2. QED BY <2>1 DEF SessionInv, TypeInv, Made, Owned, Belongs, Paid, Later, External
<1>9. QED
  BY <1>1, <1>2, <1>3, <1>4, <1>5, <1>6, <1>7, <1>8, OpenStep, ContinueStep, CloseStep DEF Next

\* Whatever a directory binds carries its tag and was made when B0 existed, and
\* every block of the world with the payload of the directory was found after all
\* of it: for any batches that share a session, closings killed anywhere and run
\* again with other records (close_binding_session.py:114-151), and any forks.
THEOREM RecordsBeforeAnchor == Spec => []AnchoredAfterRecords
<1>1. SessionInv => AnchoredAfterRecords
  BY Entries DEF SessionInv, Made, Owned, Belongs, Later, AnchoredAfterRecords, External
<1>2. QED BY SessionInit, SessionStep, <1>1, PTL DEF Spec

-------------------------------------------------------------------------------
\* The bundle: what it holds lies between B0 and C, and it can be made again.

\* Blocks from the first up, each of which fixes those below it.
IsBranch(t, blocks) ==
    \A i \in 1 .. Len(blocks) :
        /\ blocks[i] \in DOMAIN t /\ Len(t[blocks[i]].branch) = i
        /\ \A j \in 1 .. i : t[blocks[i]].branch[j] = blocks[j]

\* Every block has a branch, which ends in it.
Grown(t) ==
    \A b \in DOMAIN t :
        /\ Len(t[b].branch) # 0 /\ t[b].branch[Len(t[b].branch)] = b
        /\ IsBranch(t, t[b].branch)

\* The numbers in a directory are those of a session and of closings there were.
Numbered ==
    \A d \in Dirs :
        /\ dirs[d].challenge <= Len(opened)
        /\ dirs[d].history <= Len(closings)

\* The assembler, run on the blocks up to the last header of a bundle, makes it.
Remade ==
    LET blocks == BranchOf(bundle.tip)
        d == bundle.dir
    IN  /\ d \in Dirs /\ bundle.tip \in DOMAIN tree /\ bundle.burial \in Nat
        /\ AnchorAt(blocks, d) + bundle.burial = Len(blocks)
        /\ CanAssemble(blocks, d) /\ bundle = Assembled(blocks, d, bundle.burial)

BundleInv == Grown(tree) /\ Numbered /\ (Passed(bundle) => Remade)

LEMMA Least ==
    ASSUME NEW S, S \subseteq Nat, S # {}
    PROVE  \E x \in S : \A y \in S : x <= y
<1> DEFINE less == {ss \in Nat \X Nat : ss[1] < ss[2]}
<1>1. IsWellFoundedOn(less, Nat)
  BY NatLessThanWellFounded DEF OpToRel
<1>2. PICK x \in S : \A y \in S : ~(<<y, x>> \in less)
  <2> HIDE DEF less
  <2>1. QED BY <1>1, WFMin
<1>3. \A y \in S : <<y, x>> \in less <=> y < x
  OBVIOUS
<1> HIDE DEF less
<1>4. \A y \in S : x \in Nat /\ y \in Nat /\ ~(y < x)
  BY <1>2, <1>3
<1>5. QED BY <1>4

\* The anchor taken is the lowest of those there are.
LEMMA TheAnchor ==
    ASSUME NEW blocks \in Seq(Nat), NEW d, Anchors(blocks, d) # {}
    PROVE  /\ AnchorAt(blocks, d) \in Anchors(blocks, d)
           /\ \A j \in Anchors(blocks, d) : AnchorAt(blocks, d) <= j
<1> DEFINE S == Anchors(blocks, d)
<1>1. S \subseteq Nat
  BY DEF Anchors, AnchorsAbove
<1>2. AnchorAt(blocks, d) = CHOOSE i \in S : \A j \in S : i <= j
  BY DEF AnchorAt
<1> HIDE DEF S
<1>3. \E i \in S : \A j \in S : i <= j
  BY <1>1, Least DEF S
<1>4. QED BY <1>2, <1>3 DEF S

\* What is found, opened, made or closed stays as it is, and a directory with a
\* challenge and a payload is finished.
Kept(s, t) == Len(s) <= Len(t) /\ \A k \in DOMAIN s : k \in DOMAIN t /\ t[k] = s[k]

LEMMA KeptAppend ==
    ASSUME NEW S, NEW s \in Seq(S), NEW x
    PROVE  Kept(s, s) /\ Kept(s, Append(s, x))
<1> DEFINE T == S \cup {x}
<1>1. S \subseteq T /\ x \in T
  OBVIOUS
<1> HIDE DEF T
<1>2. s \in Seq(T)
  BY <1>1, SeqDef
<1>3. QED BY <1>1, <1>2 DEF Kept

LEMMA NothingLost ==
    ASSUME SessionInv, [Next]_vars
    PROVE  /\ Kept(tree, tree') /\ Kept(opened, opened')
           /\ Kept(records, records') /\ Kept(closings, closings')
           /\ \A d \in Dirs : dirs[d].challenge # 0 /\ dirs[d].payload # 0 => dirs'[d] = dirs[d]
<1>1. /\ tree \in Seq(BlockRecord) /\ opened \in Seq(Nat) /\ records \in Seq(SignedRecord)
      /\ closings \in Seq(Closing) /\ dirs \in [Dirs -> Directory]
  BY DEF SessionInv, TypeInv
<1>2. /\ tree' \in Seq(BlockRecord) /\ opened' \in Seq(Nat)
      /\ records' \in Seq(SignedRecord) /\ closings' \in Seq(Closing)
  BY SessionStep DEF SessionInv, TypeInv
<1>3. Kept(tree, tree') /\ Kept(opened, opened') /\ Kept(records, records')
        /\ Kept(closings, closings')
  <2>1. /\ tree' = tree \/ \E x : tree' = Append(tree, x)
        /\ opened' = opened \/ \E x : opened' = Append(opened, x)
        /\ records' = records \/ \E x : records' = Append(records, x)
        /\ closings' = closings \/ \E x : closings' = Append(closings, x)
    BY DEF Next, vars, chainVars, Others, Anchor, Find, Grow, BuildTemplate, Open, Continue,
           MakeRecord, Close, Write, Crash, Assemble
  <2>2. QED BY <2>1, <1>1, KeptAppend
<1>4. ASSUME NEW d \in Dirs, dirs[d].challenge # 0, dirs[d].payload # 0
      PROVE  dirs'[d] = dirs[d]
  <2>1. ASSUME NEW e \in Dirs, Open(e) PROVE dirs'[d] = dirs[d]
    BY <2>1, <1>1, <1>4 DEF Open
  <2>2. ASSUME NEW e \in Dirs, NEW from \in Dirs, Continue(e, from) PROVE dirs'[d] = dirs[d]
    BY <2>2, <1>1, <1>4 DEF Continue
  <2>3. CASE Write
    BY <2>3, <1>1, <1>4, Entries DEF Write, SessionInv, Paid
  <2>4. CASE UNCHANGED dirs
    BY <2>4
  <2>5. QED
    BY <2>1, <2>2, <2>3, <2>4
       DEF Next, vars, Others, Anchor, Find, BuildTemplate, MakeRecord, Close, Crash, Assemble
<1>5. QED BY <1>3, <1>4

LEMMA BranchKept ==
    ASSUME NEW t, NEW u, Kept(t, u), NEW blocks, IsBranch(t, blocks)
    PROVE  IsBranch(u, blocks)
BY DEF Kept, IsBranch

\* A block more, found on one there was.
LEMMA GrownMore ==
    ASSUME NEW t \in Seq(BlockRecord), Grown(t), NEW parent \in DOMAIN t, NEW block \in BlockRecord,
           block.branch = Append(t[parent].branch, Len(t) + 1)
    PROVE  Grown(Append(t, block))
<1> DEFINE u == Append(t, block)
           found == Len(t) + 1
           below == t[parent].branch
           blocks == block.branch
<1>1. Kept(t, u)
  BY KeptAppend
<1>2. /\ DOMAIN u = DOMAIN t \cup {found} /\ u[found] = block /\ found \in Nat
      /\ \A b \in DOMAIN t : u[b] = t[b]
  OBVIOUS
<1>3. below \in Seq(Nat) /\ IsBranch(t, below)
  <2>1. t[parent] \in BlockRecord
    OBVIOUS
  <2>2. QED BY <2>1 DEF BlockRecord, Grown
<1> HIDE DEF u, found, below, blocks
<1>4. /\ Len(below) \in Nat /\ Len(blocks) = Len(below) + 1
      /\ blocks[Len(below) + 1] = found
      /\ \A i \in 1 .. Len(below) : blocks[i] = below[i]
  BY <1>2, <1>3 DEF below, blocks, found
<1>5. IsBranch(u, blocks)
  <2> SUFFICES ASSUME NEW i \in 1 .. Len(blocks)
               PROVE  /\ blocks[i] \in DOMAIN u /\ Len(u[blocks[i]].branch) = i
                      /\ \A j \in 1 .. i : u[blocks[i]].branch[j] = blocks[j]
    BY DEF IsBranch
  <2>1. CASE i = Len(below) + 1
    BY <2>1, <1>2, <1>4 DEF blocks
  <2>2. CASE i \in 1 .. Len(below)
    <3>1. blocks[i] \in DOMAIN t /\ Len(t[blocks[i]].branch) = i
          /\ \A j \in 1 .. i : t[blocks[i]].branch[j] = below[j]
      BY <2>2, <1>3, <1>4 DEF IsBranch
    <3>2. \A j \in 1 .. i : blocks[j] = below[j]
      BY <2>2, <1>4
    <3>3. QED BY <3>1, <3>2, <1>2
  <2>3. QED BY <2>1, <2>2, <1>4
<1>6. ASSUME NEW b \in DOMAIN u
      PROVE  /\ Len(u[b].branch) # 0 /\ u[b].branch[Len(u[b].branch)] = b
             /\ IsBranch(u, u[b].branch)
  <2>1. CASE b \in DOMAIN t
    BY <2>1, <1>1, <1>2, BranchKept DEF Grown
  <2>2. CASE b = found
    <3>1. u[b].branch = blocks
      BY <2>2, <1>2 DEF blocks
    <3>2. Len(blocks) # 0 /\ blocks[Len(blocks)] = found
      BY <1>4
    <3>3. QED BY <3>1, <3>2, <2>2, <1>5
  <2>3. QED BY <2>1, <2>2, <1>2
<1>7. QED BY <1>6 DEF Grown, u

-------------------------------------------------------------------------------
LEMMA SubSeqEqual ==
    ASSUME NEW s \in Seq(Nat), NEW t \in Seq(Nat), NEW m \in Nat \ {0}, NEW n \in Nat,
           \A i \in 1 .. (1 + n - m) : s[i + m - 1] = t[i + m - 1]
    PROVE  SubSeq(s, m, n) = SubSeq(t, m, n)
<1>1. SubSeq(s, m, n) = [i \in 1 .. (1 + n - m) |-> s[i + m - 1]]
  OBVIOUS
<1>2. SubSeq(t, m, n) = [i \in 1 .. (1 + n - m) |-> t[i + m - 1]]
  OBVIOUS
<1>3. QED BY <1>1, <1>2

\* The assembler reads the blocks up to the last header of the bundle, no others.
LEMMA SameBlocks ==
    ASSUME tree \in Seq(BlockRecord),
           NEW d, NEW depth \in Nat, NEW one \in Seq(Nat), NEW two \in Seq(Nat),
           \A i \in DOMAIN one : one[i] \in DOMAIN tree, Grown(tree), CanAssemble(one, d),
           AnchorAt(one, d) + depth \in DOMAIN one, AnchorAt(one, d) + depth \in DOMAIN two,
           \A i \in 1 .. AnchorAt(one, d) + depth : one[i] = two[i]
    PROVE  /\ CanAssemble(two, d) /\ AnchorAt(two, d) = AnchorAt(one, d)
           /\ Assembled(two, d, depth) = Assembled(one, d, depth)
<1> DEFINE c == AnchorAt(one, d)
           b0 == B0Of(d)
<1>1. c \in Anchors(one, d) /\ \A j \in Anchors(one, d) : c <= j
  BY TheAnchor DEF CanAssemble
<1>2. /\ DOMAIN one = 1 .. Len(one) /\ DOMAIN two = 1 .. Len(two)
      /\ Len(one) \in Nat /\ Len(two) \in Nat
  OBVIOUS
<1>3. c \in DOMAIN one /\ \E k \in DOMAIN one : one[k] = b0 /\ k < c
  BY <1>1 DEF Anchors, AnchorsAbove
<1> HIDE DEF c, b0
<1>pos. c \in Nat \ {0}
  BY SMTT(30), <1>2, <1>3
<1>4. c + depth <= Len(one) /\ c + depth <= Len(two) /\ \A i \in 1 .. c + depth : one[i] = two[i]
  BY <1>2, <1>pos DEF c
<1>5. \A i \in 1 .. c + depth : i \in Anchors(one, d) <=> i \in Anchors(two, d)
  <2> SUFFICES ASSUME NEW i \in 1 .. c + depth
               PROVE  i \in Anchors(one, d) <=> i \in Anchors(two, d)
    OBVIOUS
  <2>1. i \in DOMAIN one /\ i \in DOMAIN two /\ one[i] = two[i]
    BY <1>2, <1>pos, <1>4
  <2>2. \A k : k \in DOMAIN one /\ k < i <=> k \in DOMAIN two /\ k < i
    BY <1>2, <1>pos, <1>4
  <2>3. \A k \in DOMAIN one : k < i => one[k] = two[k]
    BY <1>2, <1>pos, <1>4
  <2>4. QED BY <2>1, <2>2, <2>3 DEF Anchors, AnchorsAbove
<1>6. c \in Anchors(two, d)
  <2>1. c \in 1 .. c + depth
    BY <1>pos
  <2>2. QED BY <2>1, <1>1, <1>5 DEF c
<1>7. AnchorAt(two, d) = c
  <2>1. AnchorAt(two, d) \in Anchors(two, d) /\ AnchorAt(two, d) <= c
    BY <1>6, TheAnchor
  <2>2. AnchorAt(two, d) \in 1 .. c + depth
    BY <2>1, <1>2, <1>pos DEF Anchors, AnchorsAbove
  <2>3. c <= AnchorAt(two, d)
    BY <2>1, <2>2, <1>1, <1>5 DEF c
  <2>4. QED BY <2>1, <2>2, <2>3, <1>pos
<1>8. CanAssemble(two, d)
  BY <1>6 DEF CanAssemble
<1>9. Height(b0) \in Nat /\ Height(b0) >= 1
  <2>1. b0 \in DOMAIN tree
    BY <1>3
  <2>2. tree[b0].branch \in Seq(Nat)
    <3>1. tree[b0] \in BlockRecord
      BY <2>1
    <3>2. QED BY <3>1 DEF BlockRecord
  <2>3. Len(tree[b0].branch) \in Nat /\ Len(tree[b0].branch) # 0
    BY <2>1, <2>2 DEF Grown
  <2>4. QED BY SMTT(30), <2>3 DEF Height
<1>10. /\ SubSeq(one, Height(b0), c) = SubSeq(two, Height(b0), c)
       /\ SubSeq(one, c, c + depth) = SubSeq(two, c, c + depth)
  <2>1. \A m \in Nat \ {0}, n \in Nat : n <= c + depth => SubSeq(one, m, n) = SubSeq(two, m, n)
    <3> SUFFICES ASSUME NEW m \in Nat \ {0}, NEW n \in Nat, n <= c + depth
                 PROVE  SubSeq(one, m, n) = SubSeq(two, m, n)
      OBVIOUS
    <3>1. \A i \in 1 .. (1 + n - m) : one[i + m - 1] = two[i + m - 1]
      BY <1>pos, <1>4
    <3>2. QED BY <3>1, SubSeqEqual
  <2>2. /\ c <= c + depth /\ c + depth <= c + depth /\ c \in Nat \ {0}
        /\ Height(b0) \in Nat \ {0} /\ c \in Nat /\ c + depth \in Nat
    BY <1>pos, <1>9
  <2>3. QED BY <2>1, <2>2, Zenon
<1>11. c \in 1 .. c + depth /\ c + depth \in 1 .. c + depth
  BY <1>pos
<1>12. one[c] = two[c] /\ one[c + depth] = two[c + depth]
  BY <1>4, <1>11
<1>13. Checked(two, d, depth) = Checked(one, d, depth)
  BY <1>7, <1>10, <1>12 DEF Checked, c, b0
<1>14. Assembled(two, d, depth) = Assembled(one, d, depth)
  BY <1>7, <1>12, <1>13 DEF Assembled, c
<1>15. QED BY <1>7, <1>8, <1>14 DEF c

LEMMA LinkedKept ==
    ASSUME Kept(tree, tree'), NEW blocks \in Seq(Nat), \A i \in DOMAIN blocks : blocks[i] \in DOMAIN tree,
           NEW m \in Nat \ {0}, NEW n \in Nat, n <= Len(blocks)
    PROVE  Linked(SubSeq(blocks, m, n))' = Linked(SubSeq(blocks, m, n))
<1> DEFINE part == SubSeq(blocks, m, n)
<1>1. part \in Seq(Nat) /\ \A i \in 1 .. Len(part) : part[i] \in DOMAIN tree
  <2>1. /\ part \in Seq(Nat) /\ Len(part) = IF m <= n THEN n - m + 1 ELSE 0
        /\ \A i \in 1 .. n - m + 1 : part[i] = blocks[m + i - 1]
    BY SMTT(30), SubSeqProperties
  <2>2. \A i \in 1 .. n - m + 1 : m + i - 1 \in DOMAIN blocks
    OBVIOUS
  <2>3. QED BY <2>1, <2>2
<1> HIDE DEF part
<1>2. \A i \in 2 .. Len(part) : tree'[part[i]] = tree[part[i]]
  BY <1>1 DEF Kept
<1>3. Linked(part)' = \A i \in 2 .. Len(part) : tree'[part[i]].parent = part[i - 1]
  BY DEF Linked
<1>4. Linked(part) = \A i \in 2 .. Len(part) : tree[part[i]].parent = part[i - 1]
  BY DEF Linked
<1>5. Linked(part)' = Linked(part)
  BY <1>2, <1>3, <1>4
<1>6. QED BY <1>5 DEF part

\* A finished directory gives the same bundle after any step, from the same blocks.
LEMMA SameTomorrow ==
    ASSUME SessionInv, Numbered, Grown(tree), [Next]_vars, NEW d \in Dirs, NEW depth \in Nat,
           NEW blocks \in Seq(Nat), \A i \in DOMAIN blocks : blocks[i] \in DOMAIN tree,
           CanAssemble(blocks, d), AnchorAt(blocks, d) + depth \in DOMAIN blocks
    PROVE  /\ CanAssemble(blocks, d)' /\ AnchorAt(blocks, d)' = AnchorAt(blocks, d)
           /\ Assembled(blocks, d, depth)' = Assembled(blocks, d, depth)
<1>1. /\ Kept(tree, tree') /\ Kept(opened, opened') /\ Kept(closings, closings')
      /\ dirs'[d] = dirs[d]
  BY NothingLost DEF CanAssemble
<1>2. B0Of(d)' = B0Of(d)
  <2>1. dirs[d].challenge \in DOMAIN opened
    BY Entries DEF SessionInv, TypeInv, Numbered, CanAssemble, Directory
  <2>2. QED BY <1>1, <2>1 DEF B0Of, Kept
<1>3. closings'[dirs[d].history] = closings[dirs[d].history]
  <2>1. dirs[d].history \in DOMAIN closings
    BY Entries DEF SessionInv, TypeInv, Numbered, CanAssemble, Directory
  <2>2. QED BY <1>1, <2>1 DEF Kept
<1>4. \A i \in DOMAIN blocks : tree'[blocks[i]] = tree[blocks[i]]
  BY <1>1 DEF Kept
<1>5. Anchors(blocks, d)' = Anchors(blocks, d)
  BY <1>1, <1>2, <1>4 DEF Anchors, AnchorsAbove
<1>6. AnchorAt(blocks, d)' = AnchorAt(blocks, d)
  BY <1>5 DEF AnchorAt
<1>7. CanAssemble(blocks, d)'
  BY <1>1, <1>5 DEF CanAssemble
<1>8. PICK c : c = AnchorAt(blocks, d)
  OBVIOUS
<1>9. c \in DOMAIN blocks /\ \E k \in DOMAIN blocks : blocks[k] = B0Of(d) /\ k < c
  BY <1>8, TheAnchor DEF CanAssemble, Anchors, AnchorsAbove
<1>10. c \in Nat \ {0} /\ c + depth <= Len(blocks) /\ c + depth \in Nat /\ c <= Len(blocks)
  <2>1. c + depth \in DOMAIN blocks
    BY <1>8
  <2>2. QED BY SMTT(30), <1>9, <2>1
<1>11. PICK h \in Nat \ {0} : h = Height(B0Of(d)) /\ h = Height(B0Of(d))'
  <2>1. B0Of(d) \in DOMAIN tree
    BY <1>9
  <2>2. tree[B0Of(d)].branch \in Seq(Nat)
    <3>1. tree[B0Of(d)] \in BlockRecord
      BY <2>1 DEF SessionInv, TypeInv
    <3>2. QED BY <3>1 DEF BlockRecord
  <2>3. Len(tree[B0Of(d)].branch) \in Nat \ {0}
    BY <2>1, <2>2 DEF Grown
  <2>4. tree'[B0Of(d)] = tree[B0Of(d)]
    BY <1>1, <2>1 DEF Kept
  <2>5. QED BY <1>2, <2>3, <2>4 DEF Height
<1>12. /\ Linked(SubSeq(blocks, h, c))' = Linked(SubSeq(blocks, h, c))
       /\ Linked(SubSeq(blocks, c, c + depth))' = Linked(SubSeq(blocks, c, c + depth))
  BY <1>1, <1>10, LinkedKept
<1>13. tree'[blocks[c]] = tree[blocks[c]]
  BY <1>4, <1>9
<1>14. Checked(blocks, d, depth)' = Checked(blocks, d, depth)
  <2>1. \A x : View(d, x)' = View(d, x)
    BY <1>1 DEF View
  <2>2. PICK f : f = dirs[d] /\ f = dirs'[d]
    BY <1>1
  <2>3. PICK signed : /\ signed = Observed(closings[f.history].blobs)
                      /\ signed = Observed(closings'[f.history].blobs)
    BY <1>3, <2>2
  <2>4. [i \in DOMAIN f.blobs |-> View(d, f.blobs[i])]' = [i \in DOMAIN f.blobs |-> View(d, f.blobs[i])]
    BY <2>1
  <2>5. [k \in DOMAIN signed |-> [cites |-> <<View(d, signed[k])>>, sound |-> TRUE]]'
           = [k \in DOMAIN signed |-> [cites |-> <<View(d, signed[k])>>, sound |-> TRUE]]
    BY <2>1
  <2>6. Checked(blocks, d, depth) =
          [evidence |-> [i \in DOMAIN f.blobs |-> View(d, f.blobs[i])],
           history |-> [k \in DOMAIN signed |-> [cites |-> <<View(d, signed[k])>>, sound |-> TRUE]],
           framed |-> TRUE, core |-> Of(f.history = f.checkpoint /\ tree[blocks[c]].payload = f.checkpoint),
           linked |-> Linked(SubSeq(blocks, h, c)),
           chained |-> Linked(SubSeq(blocks, c, c + depth)), burial |-> depth,
           agreed |-> TRUE, expected |-> TRUE]
    BY <1>8, <1>11, <2>2, <2>3 DEF Checked
  <2>7. Checked(blocks, d, depth)' =
          [evidence |-> [i \in DOMAIN f.blobs |-> View(d, f.blobs[i])]',
           history |-> [k \in DOMAIN signed |-> [cites |-> <<View(d, signed[k])>>, sound |-> TRUE]]',
           framed |-> TRUE, core |-> Of(f.history = f.checkpoint /\ tree'[blocks[c]].payload = f.checkpoint),
           linked |-> Linked(SubSeq(blocks, h, c))',
           chained |-> Linked(SubSeq(blocks, c, c + depth))', burial |-> depth,
           agreed |-> TRUE, expected |-> TRUE]
    BY <1>6, <1>8, <1>11, <2>2, <2>3 DEF Checked
  <2>8. QED BY <1>12, <1>13, <2>4, <2>5, <2>6, <2>7
<1>15. Assembled(blocks, d, depth)' = Assembled(blocks, d, depth)
  BY <1>1, <1>2, <1>6, <1>14 DEF Assembled
<1>16. QED BY <1>6, <1>7, <1>15

\* The branch of a block: its type, its length and what is on it.
LEMMA BranchOfBlock ==
    ASSUME tree \in Seq(BlockRecord), Grown(tree), NEW b \in DOMAIN tree
    PROVE  /\ BranchOf(b) \in Seq(Nat) /\ Len(BranchOf(b)) \in Nat \ {0}
           /\ BranchOf(b)[Len(BranchOf(b))] = b /\ IsBranch(tree, BranchOf(b))
           /\ \A i \in DOMAIN BranchOf(b) :
                 /\ BranchOf(b)[i] \in DOMAIN tree /\ Len(BranchOf(BranchOf(b)[i])) = i
                 /\ \A j \in 1 .. i : BranchOf(BranchOf(b)[i])[j] = BranchOf(b)[j]
<1>1. tree[b].branch \in Seq(Nat)
  <2>1. tree[b] \in BlockRecord
    OBVIOUS
  <2>2. QED BY <2>1 DEF BlockRecord
<1>2. Len(tree[b].branch) \in Nat /\ DOMAIN tree[b].branch = 1 .. Len(tree[b].branch)
  BY <1>1
<1>3. /\ Len(tree[b].branch) # 0 /\ tree[b].branch[Len(tree[b].branch)] = b
      /\ IsBranch(tree, tree[b].branch)
  BY DEF Grown
<1>4. QED BY <1>1, <1>2, <1>3 DEF IsBranch, BranchOf

LEMMA RemadeStep ==
    ASSUME SessionInv, Numbered, Grown(tree), [Next]_vars, NEW d \in Dirs, NEW depth \in Nat,
           NEW tip \in DOMAIN tree, NEW blocks, blocks = BranchOf(tip),
           CanAssemble(blocks, d), AnchorAt(blocks, d) + depth = Len(blocks),
           bundle' = Assembled(blocks, d, depth)
    PROVE  Remade'
<1>1. /\ blocks \in Seq(Nat) /\ Len(blocks) \in DOMAIN blocks /\ blocks[Len(blocks)] = tip
      /\ \A i \in DOMAIN blocks : blocks[i] \in DOMAIN tree
  BY BranchOfBlock DEF SessionInv, TypeInv
<1>2. bundle'.tip = tip /\ bundle'.dir = d /\ bundle'.burial = depth
  BY <1>1 DEF Assembled
<1>3. /\ CanAssemble(blocks, d)' /\ AnchorAt(blocks, d)' = AnchorAt(blocks, d)
      /\ Assembled(blocks, d, depth)' = Assembled(blocks, d, depth)
  BY <1>1, SameTomorrow
<1>4. tip \in DOMAIN tree' /\ BranchOf(tip)' = blocks
  BY NothingLost DEF Kept, BranchOf
<1>5. QED BY <1>2, <1>3, <1>4 DEF Remade

LEMMA AssembleStep ==
    ASSUME SessionInv, Numbered, Grown(tree), NEW d \in Dirs, Assemble(d)
    PROVE  Remade'
<1>1. PICK depth \in 0 .. Len(chain) - AnchorAt(chain, d) : bundle' = Assembled(chain, d, depth)
  BY DEF Assemble
<1>2. CanAssemble(chain, d) /\ best \in DOMAIN tree /\ tree \in Seq(BlockRecord)
  BY DEF Assemble, SessionInv, TypeInv
<1>3. PICK one : one = chain
  OBVIOUS
<1>4. /\ one \in Seq(Nat) /\ DOMAIN one = 1 .. Len(one) /\ Len(one) \in Nat
      /\ \A i \in DOMAIN one :
            /\ one[i] \in DOMAIN tree /\ Len(BranchOf(one[i])) = i
            /\ \A j \in 1 .. i : BranchOf(one[i])[j] = one[j]
  BY SMTT(30), <1>2, <1>3, BranchOfBlock DEF chain
<1>5. AnchorAt(one, d) \in DOMAIN one
  BY <1>2, <1>3, <1>4, TheAnchor DEF CanAssemble, Anchors, AnchorsAbove
<1> DEFINE n == AnchorAt(one, d) + depth
<1>6. n \in DOMAIN one /\ depth \in Nat /\ n \in 1 .. n
  BY <1>1, <1>3, <1>4, <1>5
<1>7. PICK tip \in DOMAIN tree : tip = one[n]
  BY <1>4, <1>6
<1>8. PICK two : two = BranchOf(tip)
  OBVIOUS
<1>9. /\ two \in Seq(Nat) /\ Len(two) = n /\ \A i \in 1 .. n : one[i] = two[i]
  BY SMTT(30), <1>2, <1>4, <1>6, <1>7, <1>8, BranchOfBlock
<1>10. n \in DOMAIN two
  BY <1>6, <1>9
<1>11. /\ CanAssemble(two, d) /\ AnchorAt(two, d) = AnchorAt(one, d)
       /\ Assembled(two, d, depth) = Assembled(one, d, depth)
  <2>1. CanAssemble(one, d) /\ \A i \in DOMAIN one : one[i] \in DOMAIN tree
    BY <1>2, <1>3, <1>4
  <2>2. QED BY <1>2, <1>4, <1>6, <1>9, <1>10, <2>1, SameBlocks
<1>12. bundle' = Assembled(two, d, depth) /\ AnchorAt(two, d) + depth = Len(two)
  BY <1>1, <1>3, <1>9, <1>11
<1>13. [Next]_vars
  BY DEF Next
<1>14. QED BY <1>6, <1>8, <1>11, <1>12, <1>13, RemadeStep

LEMMA BundleInit == Init => BundleInv
<1> SUFFICES ASSUME Init PROVE BundleInv
  OBVIOUS
<1> DEFINE first == [parent |-> 0, branch |-> <<1>>, payload |-> 0]
<1>1. first.branch = <<1>>
  OBVIOUS
<1> HIDE DEF first
<1>2. tree = <<first>>
  BY DEF Init, InitTree, first
<1>3. Grown(tree)
  <2>1. DOMAIN tree = {1} /\ tree[1].branch = <<1>>
    BY <1>1, <1>2
  <2>2. PICK one : one = <<1>>
    OBVIOUS
  <2>3. Len(one) = 1 /\ one[1] = 1 /\ tree[1].branch = one
    BY <2>1, <2>2
  <2>4. IsBranch(tree, one)
    BY <2>1, <2>3 DEF IsBranch
  <2>5. QED BY SMTT(30), <2>1, <2>3, <2>4 DEF Grown
<1>4. \A d \in Dirs : dirs[d].challenge = 0 /\ dirs[d].history = 0
  BY DEF Init, EmptyDir
<1>5. opened = << >> /\ closings = << >> /\ bundle.verdict = "none"
  BY DEF Init, NoBundle
<1>6. QED BY <1>3, <1>4, <1>5 DEF BundleInv, Numbered, Passed, Passing

LEMMA NumberedStep == SessionInv /\ Numbered /\ [Next]_vars => Numbered'
<1> SUFFICES ASSUME SessionInv, Numbered, [Next]_vars, NEW d \in Dirs
             PROVE  dirs'[d].challenge <= Len(opened') /\ dirs'[d].history <= Len(closings')
  BY DEF Numbered
<1>1. /\ dirs \in [Dirs -> Directory] /\ opened \in Seq(Nat) /\ closings \in Seq(Closing)
      /\ Len(opened) \in Nat /\ Len(closings) \in Nat
  BY DEF SessionInv, TypeInv
<1>2. opened' \in Seq(Nat) /\ closings' \in Seq(Closing)
  BY SessionStep DEF SessionInv, TypeInv
<1>3. Len(opened) <= Len(opened') /\ Len(closings) <= Len(closings')
  BY NothingLost DEF Kept
<1>4. \A e \in Dirs : /\ dirs[e].challenge \in Nat /\ dirs[e].challenge <= Len(opened)
                      /\ dirs[e].history \in Nat /\ dirs[e].history <= Len(closings)
  BY <1>1 DEF Numbered, Directory
<1>5. CASE UNCHANGED dirs
  BY <1>3, <1>4, <1>5
<1>6. ASSUME NEW e \in Dirs, Open(e) PROVE dirs'[d].challenge <= Len(opened') /\ dirs'[d].history <= Len(closings')
  <2>1. /\ dirs'[d].challenge = dirs[d].challenge \/ dirs'[d].challenge = Len(opened')
        /\ dirs'[d].history = dirs[d].history
    BY <1>1, <1>6 DEF Open, Directory
  <2>2. QED BY <2>1, <1>3, <1>4
<1>7. ASSUME NEW e \in Dirs, NEW from \in Dirs, Continue(e, from)
      PROVE  dirs'[d].challenge <= Len(opened') /\ dirs'[d].history <= Len(closings')
  <2>1. dirs'[d].challenge \in {dirs[d].challenge, dirs[from].challenge} /\ dirs'[d].history = dirs[d].history
    BY <1>1, <1>7 DEF Continue, Directory
  <2>2. QED BY <2>1, <1>3, <1>4
<1>8. CASE Write
  <2>1. PICK run, e, f, n :
          /\ run = closings[Len(closings)] /\ e = run.dir /\ f = dirs[e] /\ n = written + 1
          /\ written # -1 /\ dirs' = [dirs EXCEPT ![e] = WrittenTo(f, n, run.blobs)]
    BY <1>8 DEF Write
  <2>2. closings # << >> /\ written \in 0 .. Len(run.blobs) + 2
    BY <2>1 DEF SessionInv, Paid
  <2>3. /\ Len(closings) \in DOMAIN closings /\ run.blobs \in Seq(Blob)
        /\ e \in Dirs /\ f \in Directory
    BY <1>1, <2>1, <2>2, Entries
  <2>4. /\ \A i \in DOMAIN run.blobs : Belongs(e, run.blobs[i])
        /\ \A i \in DOMAIN f.blobs : Belongs(e, f.blobs[i])
    BY <2>1, <2>3 DEF SessionInv, Owned
  <2>5. n \in Nat \ {0} /\ n <= Len(run.blobs) + 3
    BY <2>1, <2>2, <2>3
  <2>6. /\ WrittenTo(f, n, run.blobs).challenge = f.challenge
        /\ \/ WrittenTo(f, n, run.blobs).history = f.history
           \/ WrittenTo(f, n, run.blobs).history = Len(closings)
    <3>1. Len(closings) \in Nat /\ Len(run.blobs) \in Nat
      BY <1>1, <2>3
    <3>2. QED BY <2>3, <2>4, <2>5, <3>1, WrittenFile
  <2>7. /\ dirs'[d].challenge = dirs[d].challenge
        /\ dirs'[d].history = dirs[d].history \/ dirs'[d].history = Len(closings)
    BY <1>1, <2>1, <2>3, <2>6
  <2>8. QED BY <2>7, <1>1, <1>3, <1>4
<1>9. QED
  BY <1>5, <1>6, <1>7, <1>8
     DEF Next, vars, Others, Anchor, Find, BuildTemplate, MakeRecord, Close, Crash, Assemble

LEMMA BundleStep == SessionInv /\ BundleInv /\ [Next]_vars => BundleInv'
<1> SUFFICES ASSUME SessionInv, BundleInv, [Next]_vars PROVE BundleInv'
  OBVIOUS
<1>1. Grown(tree)'
  <2>1. CASE UNCHANGED tree
    BY <2>1 DEF BundleInv
  <2>2. ASSUME NEW b \in DOMAIN tree, NEW payload, Find(b, payload) PROVE Grown(tree)'
    <3> DEFINE block == [parent |-> b, payload |-> payload,
                         branch |-> Append(tree[b].branch, Len(tree) + 1)]
    <3>1. tree' = Append(tree, block) /\ tree' \in Seq(BlockRecord) /\ tree \in Seq(BlockRecord)
      BY <2>2, SessionStep DEF Find, Grow, SessionInv, TypeInv
    <3>2. block.branch = Append(tree[b].branch, Len(tree) + 1)
      OBVIOUS
    <3> HIDE DEF block
    <3>3. block \in BlockRecord
      <4>1. tree'[Len(tree) + 1] = block /\ Len(tree) + 1 \in DOMAIN tree'
        BY <3>1
      <4>2. QED BY <3>1, <4>1
    <3>4. QED BY <3>1, <3>2, <3>3, GrownMore DEF BundleInv
  <2>3. QED
    BY <2>1, <2>2 DEF Next, vars, chainVars, Others, Anchor, BuildTemplate, Open, Continue,
                      MakeRecord, Close, Write, Crash, Assemble
<1>2. Numbered'
  BY NumberedStep DEF BundleInv
<1>3. Passed(bundle)' => Remade'
  <2>1. CASE \E d \in Dirs : Assemble(d)
    BY <2>1, AssembleStep DEF BundleInv
  <2>2. CASE UNCHANGED bundle
    <3> SUFFICES ASSUME Passed(bundle) PROVE Remade'
      BY <2>2 DEF Passed
    <3>1. PICK d \in Dirs, tip \in DOMAIN tree, depth \in Nat, blocks \in {BranchOf(bundle.tip)} :
            /\ d = bundle.dir /\ tip = bundle.tip /\ depth = bundle.burial /\ blocks = BranchOf(tip)
      BY DEF BundleInv, Remade
    <3>2. /\ CanAssemble(blocks, d) /\ AnchorAt(blocks, d) + depth = Len(blocks)
          /\ bundle' = Assembled(blocks, d, depth)
      BY <2>2, <3>1 DEF BundleInv, Remade
    <3>3. QED BY <3>1, <3>2, RemadeStep DEF BundleInv
  <2>3. QED
    BY <2>1, <2>2 DEF Next, vars, Others, Anchor, Find, BuildTemplate, Open, Continue,
                      MakeRecord, Close, Write, Crash
<1>4. QED BY <1>1, <1>2, <1>3 DEF BundleInv

LEMMA BundleAlways == Spec => [](SessionInv /\ BundleInv)
BY SessionInit, SessionStep, BundleInit, BundleStep, PTL DEF Spec

\* What a bundle that can be assembled holds lies between its B0 and its C.
LEMMA RemadeBetween ==
    ASSUME SessionInv, BundleInv, Remade
    PROVE  /\ bundle.b0 \in Range(BranchOf(bundle.c))
           /\ \A i \in External(bundle.blobs) :
                 LET r == records[bundle.blobs[i].record]
                 IN  r.tag = bundle.session /\ bundle.b0 <= r.made /\ r.made < bundle.c
<1>1. PICK d \in Dirs, tip \in DOMAIN tree, blocks \in {BranchOf(bundle.tip)},
          k \in {AnchorAt(BranchOf(bundle.tip), bundle.dir)} :
        /\ d = bundle.dir /\ blocks = BranchOf(tip) /\ k = AnchorAt(blocks, d)
        /\ CanAssemble(blocks, d) /\ bundle = Assembled(blocks, d, bundle.burial)
  BY DEF Remade
<1> tree \in Seq(BlockRecord) /\ Grown(tree)
  BY DEF SessionInv, TypeInv, BundleInv
<1>2. /\ bundle.b0 = B0Of(d) /\ bundle.c = blocks[k] /\ bundle.session = dirs[d].challenge
      /\ bundle.blobs = dirs[d].blobs
  BY <1>1 DEF Assembled
<1>3. /\ blocks \in Seq(Nat)
      /\ \A i \in DOMAIN blocks :
            /\ blocks[i] \in DOMAIN tree /\ Len(BranchOf(blocks[i])) = i
            /\ \A j \in 1 .. i : BranchOf(blocks[i])[j] = blocks[j]
  BY <1>1, BranchOfBlock
<1>4. k \in Anchors(blocks, d)
  BY <1>1, <1>3, TheAnchor DEF CanAssemble
<1>5. /\ k \in DOMAIN blocks /\ tree[blocks[k]].payload = dirs[d].payload
      /\ \E m \in DOMAIN blocks : blocks[m] = B0Of(d) /\ m < k
  BY <1>4 DEF Anchors, AnchorsAbove
<1>6. PICK m \in 1 .. k : BranchOf(blocks[k])[m] = B0Of(d)
  <2>1. PICK m \in DOMAIN blocks : blocks[m] = B0Of(d) /\ m < k
    BY <1>5
  <2>2. m \in 1 .. k
    BY <1>3, <1>5, <2>1
  <2>3. QED BY <1>3, <1>5, <2>1, <2>2
<1>7. B0Of(d) \in Range(BranchOf(blocks[k]))
  <2>1. BranchOf(blocks[k]) \in Seq(Nat) /\ Len(BranchOf(blocks[k])) = k
    BY <1>3, <1>5, BranchOfBlock
  <2>2. m \in DOMAIN BranchOf(blocks[k])
    BY <1>6, <2>1
  <2>3. QED BY <1>6, <2>2 DEF Range
<1>8. dirs[d].payload # 0
  BY <1>1 DEF CanAssemble
<1>9. ASSUME NEW i \in External(dirs[d].blobs)
      PROVE  LET r == records[dirs[d].blobs[i].record]
             IN  r.tag = dirs[d].challenge /\ B0Of(d) <= r.made /\ r.made < blocks[k]
  <2>1. /\ dirs[d].blobs[i].record \in DOMAIN records
        /\ records[dirs[d].blobs[i].record].tag = dirs[d].challenge
    BY DEF SessionInv, Owned, Belongs, External
  <2>2. records[dirs[d].blobs[i].record].made < blocks[k]
    BY <1>3, <1>5, <1>8 DEF SessionInv, Later
  <2>3. QED BY <2>1, <2>2 DEF SessionInv, Made, B0Of
<1>10. QED BY <1>2, <1>7, <1>9

\* binding.py:29: what a passing bundle commits to was made when B0 existed and
\* before C was found, and C stands on B0, for any number of batches that share
\* sessions and any forks.
THEOREM BundleBetween == Spec => []RecordsBetween
<1>1. SessionInv => AnchoredAfterRecords
  BY Entries DEF SessionInv, Made, Owned, Belongs, Later, AnchoredAfterRecords, External
<1>2. SessionInv /\ BundleInv => RecordsBetween
  BY <1>1, RemadeBetween DEF BundleInv, RecordsBetween
<1>3. QED BY BundleAlways, <1>2, PTL

\* assemble_binding_bundle.py:15-19: a passing bundle can be made again as long as
\* its last header is on the chain, however the world and the directories went on.
THEOREM BundleReproducible == Spec => []Reproducible
<1>1. ASSUME SessionInv, BundleInv, Passed(bundle), bundle.tip \in Range(chain)
      PROVE  /\ CanAssemble(chain, bundle.dir)
             /\ Assembled(chain, bundle.dir, bundle.burial) = bundle
  <2>1. PICK d \in Dirs, tip \in DOMAIN tree, depth \in Nat,
             one \in {BranchOf(bundle.tip)}, two \in {chain} :
          /\ d = bundle.dir /\ tip = bundle.tip /\ depth = bundle.burial
          /\ one = BranchOf(tip) /\ two = chain
          /\ AnchorAt(one, d) + depth = Len(one)
          /\ CanAssemble(one, d) /\ bundle = Assembled(one, d, depth)
    BY <1>1 DEF BundleInv, Remade
  <2>2. tree \in Seq(BlockRecord) /\ Grown(tree) /\ best \in DOMAIN tree
    BY <1>1 DEF SessionInv, TypeInv, BundleInv
  <2>3. /\ one \in Seq(Nat) /\ Len(one) \in DOMAIN one
        /\ \A i \in DOMAIN one : one[i] \in DOMAIN tree
    BY <2>1, <2>2, BranchOfBlock
  <2>4. PICK n \in DOMAIN two : two[n] = tip
    BY <1>1, <2>1 DEF Range
  <2>5. /\ two \in Seq(Nat) /\ Len(BranchOf(two[n])) = n
        /\ \A j \in 1 .. n : BranchOf(two[n])[j] = two[j]
    <3>1. two = BranchOf(best)
      BY <2>1 DEF chain
    <3>2. n \in DOMAIN BranchOf(best)
      BY <2>4, <3>1
    <3>3. /\ BranchOf(best) \in Seq(Nat)
          /\ \A i \in DOMAIN BranchOf(best) :
                /\ Len(BranchOf(BranchOf(best)[i])) = i
                /\ \A j \in 1 .. i : BranchOf(BranchOf(best)[i])[j] = BranchOf(best)[j]
      BY <2>2, BranchOfBlock
    <3>4. QED BY <3>1, <3>2, <3>3
  <2>6. Len(one) = n /\ \A j \in 1 .. n : one[j] = two[j]
    BY <2>1, <2>4, <2>5
  <2>7. AnchorAt(one, d) + depth = n
    BY <2>1, <2>6
  <2>8. /\ AnchorAt(one, d) + depth \in DOMAIN one /\ AnchorAt(one, d) + depth \in DOMAIN two
        /\ \A i \in 1 .. AnchorAt(one, d) + depth : one[i] = two[i]
    BY <2>3, <2>4, <2>6, <2>7
  <2>9. /\ CanAssemble(two, d) /\ Assembled(two, d, depth) = Assembled(one, d, depth)
    <3>1. CanAssemble(one, d) /\ depth \in Nat
      BY <2>1
    <3>2. QED BY <2>2, <2>3, <2>5, <2>8, <3>1, SameBlocks
  <2>10. QED BY <2>1, <2>9
<1>2. SessionInv /\ BundleInv => Reproducible
  BY <1>1 DEF Reproducible
<1>3. QED BY BundleAlways, <1>2, PTL
===============================================================================
