-------------------------- MODULE ChangeTable_proofs --------------------------
(***************************************************************************)
(* Proofs about the tables of users and routes, for any names and entries: *)
(* the list is the map, the lists of changes explain the table, and what   *)
(* is not pending is on the disk.  The three and the types are inductive   *)
(* together: Flush writes the list, so the file follows the map only       *)
(* because the list does.                                                  *)
(***************************************************************************)
EXTENDS ChangeTable, FiniteSetTheorems, TLAPS

\* Only a process that runs is in a Flush.
FlushingRuns == Locked => Running

IInv ==
    /\ TypeOK
    /\ FlushingRuns
    /\ ListIsMap
    /\ ChangesExplainTable
    /\ FileHasTheRest

-----------------------------------------------------------------------------
(* What the loops leave of a list.                                         *)

\* Without drops the i-th element and keeps all others in their order.
LEMMA WithoutOf ==
    ASSUME NEW S, NEW s \in Seq(S), NEW i \in 1..Len(s)
    PROVE  /\ Without(s, i) \in Seq(S)
           /\ Len(Without(s, i)) = Len(s) - 1
           /\ \A j \in 1..Len(Without(s, i)) :
                /\ j < i => Without(s, i)[j] = s[j]
                /\ j >= i => Without(s, i)[j] = s[j+1]
<1> DEFINE w == [j \in 1..(Len(s) - 1) |-> IF j < i THEN s[j] ELSE s[j+1]]
<1>1. Len(s) \in Nat /\ Len(s) - 1 \in Nat
  OBVIOUS
<1>2. \A j \in 1..(Len(s) - 1) : w[j] \in S
  OBVIOUS
<1>3. w \in Seq(S) /\ Len(w) = Len(s) - 1
  BY <1>1, <1>2
<1> QED
  BY <1>3 DEF Without

\* The indices of d stand for the indices of s that are not at, each for one
\* of its own.
IsLeft(d, s, at) ==
    /\ \A j \in 1..Len(d) : \E i \in (1..Len(s)) \ at : d[j] = s[i]
    /\ \A i \in (1..Len(s)) \ at : \E j \in 1..Len(d) : d[j] = s[i]
    /\ \A j, k \in 1..Len(d) :
         j # k => \E a, b \in (1..Len(s)) \ at : a # b /\ d[j] = s[a] /\ d[k] = s[b]

\* What a loop leaves when there is at most one index to drop.
LEMMA DropOf ==
    ASSUME NEW S, NEW s \in Seq(S), NEW at \in SUBSET (1..Len(s)),
           \A i, j \in at : i = j
    PROVE  Drop(s, at) \in Seq(S) /\ IsLeft(Drop(s, at), s, at)
<1>1. CASE at = {}
  BY <1>1 DEF Drop, IsLeft
<1>2. CASE at # {}
  <2>1. PICK i \in 1..Len(s) : at = {i}
    BY <1>2
  <2>2. Drop(s, at) = Without(s, i)
    BY <2>1 DEF Drop
  <2> DEFINE d == Without(s, i)
             from(j) == IF j < i THEN j ELSE j + 1
  <2>3. d \in Seq(S) /\ Len(d) = Len(s) - 1 /\ \A j \in 1..Len(d) : d[j] = s[from(j)]
    BY WithoutOf
  <2> HIDE DEF d
  <2>4. \A j \in 1..Len(d) : from(j) \in (1..Len(s)) \ {i}
    BY <2>3
  <2>5. \A j, k \in 1..Len(d) : j # k => from(j) # from(k)
    BY <2>3
  <2>6. \A a \in (1..Len(s)) \ {i} : \E j \in 1..Len(d) : from(j) = a
    <3> TAKE a \in (1..Len(s)) \ {i}
    <3>1. CASE a < i
      <4>1. a \in 1..Len(d) /\ from(a) = a
        BY <2>3, <3>1
      <4> QED
        BY <4>1
    <3>2. CASE a > i
      <4>1. a - 1 \in 1..Len(d) /\ from(a - 1) = a
        BY <2>3, <3>2
      <4> QED
        BY <4>1
    <3> QED
      BY <3>1, <3>2
  <2> DEFINE Others == (1..Len(s)) \ {i}
  <2> HIDE DEF from
  <2>7. \A j \in 1..Len(d) : \E a \in Others : d[j] = s[a]
    BY <2>3, <2>4
  <2>8. \A a \in Others : \E j \in 1..Len(d) : d[j] = s[a]
    BY <2>3, <2>6
  <2>9. \A j, k \in 1..Len(d) :
          j # k => \E a, b \in Others : a # b /\ d[j] = s[a] /\ d[k] = s[b]
    <3> SUFFICES ASSUME NEW j \in 1..Len(d), NEW k \in 1..Len(d), j # k
                 PROVE  \E a, b \in Others : a # b /\ d[j] = s[a] /\ d[k] = s[b]
      OBVIOUS
    <3>1. from(j) \in Others /\ from(k) \in Others /\ from(j) # from(k)
      BY <2>4, <2>5
    <3>2. d[j] = s[from(j)] /\ d[k] = s[from(k)]
      BY <2>3
    <3> QED
      BY <3>1, <3>2
  <2>10. IsLeft(d, s, {i})
    BY <2>7, <2>8, <2>9 DEF IsLeft
  <2> QED
    BY <2>1, <2>2, <2>3, <2>10 DEF d
<1> QED
  BY <1>1, <1>2

\* A list of names without repetition loses the one name.
LEMMA DropNameOf ==
    ASSUME NEW s \in Seq(Name), NoTwice(s), NEW n \in Name
    PROVE  /\ DropName(s, n) \in Seq(Name)
           /\ NoTwice(DropName(s, n))
           /\ Elements(DropName(s, n)) = Elements(s) \ {n}
<1> DEFINE at == {i \in 1..Len(s) : s[i] = n}
           d  == DropName(s, n)
<1>1. at \in SUBSET (1..Len(s)) /\ \A i, j \in at : i = j
  BY DEF NoTwice
<1>2. d \in Seq(Name) /\ IsLeft(d, s, at)
  BY <1>1, DropOf DEF DropName
<1>5. \A i \in 1..Len(s) : i \in at <=> s[i] = n
  OBVIOUS
<1> HIDE DEF d, at
<1>3. NoTwice(d)
  <2> SUFFICES ASSUME NEW j \in 1..Len(d), NEW k \in 1..Len(d), d[j] = d[k], j # k
               PROVE  FALSE
    BY DEF NoTwice
  <2>1. PICK a, b \in (1..Len(s)) \ at : a # b /\ d[j] = s[a] /\ d[k] = s[b]
    BY <1>2 DEF IsLeft
  <2> QED
    BY <2>1 DEF NoTwice
<1>4. Elements(d) = Elements(s) \ {n}
  <2>1. ASSUME NEW j \in 1..Len(d) PROVE d[j] \in Elements(s) /\ d[j] # n
    <3>1. PICK i \in (1..Len(s)) \ at : d[j] = s[i]
      BY <1>2 DEF IsLeft
    <3> QED
      BY <1>5, <3>1 DEF Elements
  <2>2. ASSUME NEW i \in 1..Len(s), s[i] # n PROVE s[i] \in Elements(d)
    <3>1. PICK j \in 1..Len(d) : d[j] = s[i]
      BY <1>2, <1>5, <2>2 DEF IsLeft
    <3> QED
      BY <3>1 DEF Elements
  <2>3. Elements(d) \subseteq Elements(s) \ {n}
    BY <2>1 DEF Elements
  <2>4. Elements(s) \ {n} \subseteq Elements(d)
    BY <2>2 DEF Elements
  <2> QED
    BY <2>3, <2>4
<1> QED
  BY <1>2, <1>3, <1>4 DEF d

\* A new name is one more in a list of names.
LEMMA AppendNameOf ==
    ASSUME NEW s \in Seq(Name), NoTwice(s), NEW n \in Name, n \notin Elements(s)
    PROVE  /\ Append(s, n) \in Seq(Name)
           /\ NoTwice(Append(s, n))
           /\ Elements(Append(s, n)) = Elements(s) \cup {n}
  BY DEF NoTwice, Elements

\* The entries of s but that of the name n.
IsListWithout(d, s, n) ==
    /\ d \in Seq(Listed)
    /\ \A i, j \in 1..Len(d) : d[i].name = d[j].name => i = j
    /\ \A j \in 1..Len(d) : \E i \in 1..Len(s) : s[i].name # n /\ d[j] = s[i]
    /\ \A i \in 1..Len(s) : s[i].name # n => \E j \in 1..Len(d) : d[j] = s[i]

\* A list of entries under different names loses the one of the name.
LEMMA DropListedOf ==
    ASSUME NEW s \in Seq(Listed), \A i, j \in 1..Len(s) : s[i].name = s[j].name => i = j,
           NEW n \in Name
    PROVE  IsListWithout(DropListed(s, n), s, n)
<1> DEFINE at == {i \in 1..Len(s) : s[i].name = n}
           d  == DropListed(s, n)
<1>1. at \in SUBSET (1..Len(s)) /\ \A i, j \in at : i = j
  OBVIOUS
<1>2. d \in Seq(Listed) /\ IsLeft(d, s, at)
  BY <1>1, DropOf DEF DropListed
<1>3. \A i \in 1..Len(s) : i \in at <=> s[i].name = n
  OBVIOUS
<1> HIDE DEF d, at
<1>4. \A i, j \in 1..Len(d) : d[i].name = d[j].name => i = j
  <2> SUFFICES ASSUME NEW i \in 1..Len(d), NEW j \in 1..Len(d), d[i].name = d[j].name, i # j
               PROVE  FALSE
    OBVIOUS
  <2>1. PICK a, b \in (1..Len(s)) \ at : a # b /\ d[i] = s[a] /\ d[j] = s[b]
    BY <1>2 DEF IsLeft
  <2> QED
    BY <2>1
<1>5. \A j \in 1..Len(d) : \E i \in 1..Len(s) : s[i].name # n /\ d[j] = s[i]
  BY <1>2, <1>3 DEF IsLeft
<1>6. \A i \in 1..Len(s) : s[i].name # n => \E j \in 1..Len(d) : d[j] = s[i]
  <2> SUFFICES ASSUME NEW i \in 1..Len(s), s[i].name # n
               PROVE  \E j \in 1..Len(d) : d[j] = s[i]
    OBVIOUS
  <2>1. i \in (1..Len(s)) \ at
    BY <1>3
  <2> QED
    BY <1>2, <2>1 DEF IsLeft
<1>7. IsListWithout(d, s, n)
  BY <1>2, <1>4, <1>5, <1>6 DEF IsListWithout
<1> QED
  BY <1>7, Zenon DEF d

-----------------------------------------------------------------------------
(* The start of the process, and its end.                                  *)

\* An empty table, and all that follows for a process that does not run.
LEMMA EmptyTable ==
    ASSUME m = Empty, l = <<>>, saves = <<>>, removes = <<>>
    PROVE  m \in Table /\ l \in Seq(Listed) /\ saves \in Seq(Name) /\ removes \in Seq(Name)
           /\ ListIsMap
  BY DEF Empty, Table, ListIsMap, Names

\* The program starts with nothing in memory and the file it left.
LEMMA InitImpliesInv == Init => IInv
<1> SUFFICES ASSUME Init PROVE IInv
  OBVIOUS
<1>1. TypeOK /\ ListIsMap
  BY EmptyTable DEF Init, TypeOK
<1>2. ~Running
  BY DEF Init, Running
<1>3. FlushingRuns
  BY DEF Init, FlushingRuns, Locked
<1> QED
  BY <1>1, <1>2, <1>3 DEF IInv, ChangesExplainTable, FileHasTheRest

\* An exit or a crash leaves only the file, whole or cut short.
LEMMA StopsKeepInv ==
    ASSUME IInv, Stops
    PROVE  IInv'
<1>1. /\ m' \in Table /\ l' \in Seq(Listed) /\ saves' \in Seq(Name) /\ removes' \in Seq(Name)
      /\ ListIsMap'
  <2>1. m' = Empty /\ l' = <<>> /\ saves' = <<>> /\ removes' = <<>>
    BY DEF Stops
  <2> QED
    BY <2>1 DEF Empty, Table, ListIsMap, Names
<1>2. TypeOK'
  BY <1>1 DEF IInv, TypeOK, Stops
<1>3. ~Running'
  BY DEF Stops, Running
<1>4. FlushingRuns'
  BY DEF Stops, FlushingRuns, Locked
<1> QED
  BY <1>1, <1>2, <1>3, <1>4 DEF IInv, ChangesExplainTable, FileHasTheRest

\* LoadAll makes the map and the list of one file, with no changes pending.
LEMMA ResetKeepsInv ==
    ASSUME IInv, Reset
    PROVE  IInv'
<1>1. CASE torn
  <2>1. /\ UNCHANGED <<m, l, saves, removes, stored, flushing, file, torn>>
        /\ up' = "failed"
    BY <1>1 DEF Reset, tableVars
  <2>2. ~Running'
    BY <2>1 DEF Running
  <2>3. TypeOK' /\ ListIsMap'
    BY <2>1 DEF IInv, TypeOK, ListIsMap, Names
  <2>4. FlushingRuns'
    BY <2>1 DEF Reset, IInv, FlushingRuns, Locked, Running
  <2> QED
    BY <2>2, <2>3, <2>4 DEF IInv, ChangesExplainTable, FileHasTheRest
<1>2. CASE ~torn
  <2>1. /\ up' = "up" /\ m' = file /\ stored' = file /\ saves' = <<>> /\ removes' = <<>>
        /\ UNCHANGED <<flushing, file, torn>>
    BY <1>2 DEF Reset
  <2>2. PICK s \in [1..Cardinality(Names(file)) -> Names(file)] :
          /\ NoTwice(s) /\ Elements(s) = Names(file)
          /\ l' = [i \in 1..Len(s) |-> [name |-> s[i], entry |-> file[s[i]]]]
    BY <1>2 DEF Reset
  <2>3. file \in Table
    BY DEF IInv, TypeOK
  <2>4. Cardinality(Names(file)) \in Nat
    <3>1. IsFiniteSet(Names(file))
      BY TableAssumption, FS_Subset DEF Names
    <3> QED
      BY <3>1, FS_CardinalityType
  <2>5. Len(s) = Cardinality(Names(file)) /\ \A i \in 1..Len(s) : s[i] \in Names(file)
    BY <2>4
  <2>6. \A i \in 1..Len(s) : s[i] \in Name /\ file[s[i]] \in Entry
    BY <2>3, <2>5 DEF Names, Table
  <2>7. l' \in Seq(Listed) /\ Len(l') = Len(s)
    <3>1. \A i \in 1..Len(s) : [name |-> s[i], entry |-> file[s[i]]] \in Listed
      BY <2>6 DEF Listed
    <3>2. Len(s) \in Nat
      BY <2>4, <2>5
    <3>3. l' \in [1..Len(s) -> Listed]
      BY <2>2, <3>1
    <3> QED
      BY <3>2, <3>3
  <2>8. \A i \in 1..Len(l') : l'[i].name = s[i] /\ l'[i].entry = file[s[i]]
    BY <2>2, <2>7
  <2>9. ListIsMap'
    <3>1. \A i, j \in 1..Len(l') : l'[i].name = l'[j].name => i = j
      BY <2>2, <2>7, <2>8 DEF NoTwice
    <3>2. {l'[i].name : i \in 1..Len(l')} = Names(file)
      BY <2>2, <2>7, <2>8 DEF Elements
    <3>3. \A i \in 1..Len(l') : l'[i].entry = file[l'[i].name]
      BY <2>8
    <3> QED
      BY <2>1, <3>1, <3>2, <3>3 DEF ListIsMap, Names
  <2>10. TypeOK'
    <3>1. saves' \in Seq(Name) /\ removes' \in Seq(Name)
      BY <2>1
    <3> QED
      BY <2>1, <2>3, <2>7, <3>1 DEF IInv, TypeOK
  <2>11. ChangesExplainTable' /\ FileHasTheRest'
    BY <1>2, <2>1 DEF ChangesExplainTable, FileHasTheRest, Elements, NoTwice
  <2>12. FlushingRuns'
    BY <2>1 DEF FlushingRuns, Running
  <2> QED
    BY <2>9, <2>10, <2>11, <2>12 DEF IInv
<1> QED
  BY <1>1, <1>2

-----------------------------------------------------------------------------
(* Save and Del.                                                           *)

\* A new name is added to the map and both lists, and is no longer removed.
LEMMA SaveNewKeepsInv ==
    ASSUME IInv, NEW n \in Name, NEW e \in Entry, Running, SaveNew(n, e),
           UNCHANGED <<up, flushing, file, torn, stored>>
    PROVE  IInv'
<1>1. /\ m \in Table /\ l \in Seq(Listed) /\ saves \in Seq(Name) /\ removes \in Seq(Name)
      /\ NoTwice(saves) /\ NoTwice(removes)
  BY DEF IInv, TypeOK, ChangesExplainTable
<1>2. m[n] = NoEntry /\ n \notin Elements(saves)
  BY DEF SaveNew, IInv, ChangesExplainTable
<1>3. m' = [m EXCEPT ![n] = e] /\ m' \in Table /\ m'[n] = e /\ e # NoEntry
      /\ \A k \in Name : k # n => m'[k] = m[k]
  BY <1>1, TableAssumption DEF SaveNew, Table
<1>4. /\ saves' \in Seq(Name) /\ NoTwice(saves)'
      /\ Elements(saves)' = Elements(saves) \cup {n}
  <2>1. saves' = Append(saves, n)
    BY DEF SaveNew
  <2>2. /\ Append(saves, n) \in Seq(Name) /\ NoTwice(Append(saves, n))
        /\ Elements(Append(saves, n)) = Elements(saves) \cup {n}
    BY <1>1, <1>2, AppendNameOf
  <2> QED
    BY <2>1, <2>2 DEF NoTwice, Elements
<1>5. /\ removes' \in Seq(Name) /\ NoTwice(removes)'
      /\ Elements(removes)' = Elements(removes) \ {n}
  <2>1. removes' = DropName(removes, n)
    BY DEF SaveNew
  <2>2. /\ DropName(removes, n) \in Seq(Name) /\ NoTwice(DropName(removes, n))
        /\ Elements(DropName(removes, n)) = Elements(removes) \ {n}
    BY <1>1, DropNameOf
  <2> QED
    BY <2>1, <2>2 DEF NoTwice, Elements
<1>6. /\ l' \in Seq(Listed) /\ Len(l') = Len(l) + 1
      /\ \A i \in 1..Len(l) : l'[i] = l[i] /\ l[i] \in Listed
      /\ l'[Len(l')] = [name |-> n, entry |-> e]
  <2>1. l' = Append(l, [name |-> n, entry |-> e]) /\ [name |-> n, entry |-> e] \in Listed
    BY DEF SaveNew, Listed
  <2> QED
    BY <1>1, <2>1
<1>7. ListIsMap'
  <2>1. /\ \A i, j \in 1..Len(l) : l[i].name = l[j].name => i = j
        /\ {l[i].name : i \in 1..Len(l)} = Names(m)
        /\ \A i \in 1..Len(l) : l[i].entry = m[l[i].name]
    BY DEF IInv, ListIsMap
  <2>2. Names(m') = Names(m) \cup {n} /\ n \notin Names(m)
    BY <1>2, <1>3 DEF Names
  <2>3. \A i \in 1..Len(l) : l[i].name \in Names(m) /\ l[i].name # n
    BY <2>1, <2>2
  <2>4. l'[Len(l')].name = n /\ l'[Len(l')].entry = e
    BY <1>6
  <2>5. \A i \in 1..Len(l') : i \in 1..Len(l) \/ i = Len(l')
    BY <1>1, <1>6
  <2>6. \A i, j \in 1..Len(l') : l'[i].name = l'[j].name => i = j
    BY <1>6, <2>1, <2>3, <2>4, <2>5
  <2>7. \A i \in 1..Len(l') : l'[i].name \in Names(m') /\ l'[i].entry = m'[l'[i].name]
    <3>1. \A i \in 1..Len(l) : l'[i].name \in Names(m') /\ l'[i].entry = m'[l'[i].name]
      BY <1>3, <1>6, <2>1, <2>2, <2>3 DEF Names
    <3>2. l'[Len(l')].name \in Names(m') /\ l'[Len(l')].entry = m'[l'[Len(l')].name]
      BY <1>3, <2>2, <2>4
    <3> QED
      BY <2>5, <3>1, <3>2
  <2>8. \A k \in Names(m') : \E i \in 1..Len(l') : l'[i].name = k
    <3> TAKE k \in Names(m')
    <3>1. CASE k = n
      BY <1>1, <1>6, <2>4, <3>1
    <3>2. CASE k # n
      <4>1. PICK i \in 1..Len(l) : l[i].name = k
        BY <2>1, <2>2, <3>2
      <4>2. i \in 1..Len(l')
        BY <1>1, <1>6
      <4> QED
        BY <1>6, <4>1, <4>2
    <3> QED
      BY <3>1, <3>2
  <2>9. {l'[i].name : i \in 1..Len(l')} = Names(m')
    BY <2>7, <2>8
  <2> QED
    BY <2>6, <2>7, <2>9 DEF ListIsMap, Names
<1>8. TypeOK'
  BY <1>3, <1>4, <1>5, <1>6 DEF IInv, TypeOK
<1>9. ChangesExplainTable'
  BY <1>3, <1>4, <1>5 DEF IInv, ChangesExplainTable
<1>10. FileHasTheRest'
  <2>1. Changed'
    BY <1>4 DEF Changed, Elements
  <2>2. \A k \in Name : k \notin Elements(saves)' \cup Elements(removes)'
                          => k \notin Elements(saves) \cup Elements(removes) /\ k # n
    BY <1>4, <1>5
  <2>3. file' = file /\ torn' = torn
    OBVIOUS
  <2> QED
    BY <1>3, <2>1, <2>2, <2>3 DEF IInv, FileHasTheRest, Elements
<1>11. FlushingRuns'
  BY DEF IInv, FlushingRuns, Locked, Running
<1> QED
  BY <1>7, <1>8, <1>9, <1>10, <1>11 DEF IInv

\* CopyFrom changes the entry that the map and the list share.
LEMMA SaveOldKeepsInv ==
    ASSUME IInv, NEW n \in Name, NEW e \in Entry, NEW updatePassword \in BOOLEAN, Running,
           SaveOld(n, e, updatePassword), UNCHANGED <<up, flushing, file, torn, stored>>
    PROVE  IInv'
<1>1. /\ m \in Table /\ l \in Seq(Listed) /\ saves \in Seq(Name) /\ removes \in Seq(Name)
      /\ NoTwice(saves) /\ NoTwice(removes)
  BY DEF IInv, TypeOK, ChangesExplainTable
<1>2. m[n] \in Entry
  BY <1>1 DEF SaveOld, Table
<1>3. /\ m' \in Table /\ m'[n] \in Entry /\ m'[n] # NoEntry
      /\ \A k \in Name : k # n => m'[k] = m[k]
  <2> DEFINE new == [m[n] EXCEPT !.rest = e.rest,
                                 !.password = IF updatePassword THEN e.password ELSE @]
  <2>1. new \in Entry
    BY <1>2 DEF Entry
  <2>2. m' = [m EXCEPT ![n] = new]
    BY <1>1, <1>2 DEF SaveOld, Table
  <2> HIDE DEF new
  <2> QED
    BY <1>1, <2>1, <2>2, TableAssumption DEF Table
<1>4. /\ saves' \in Seq(Name) /\ NoTwice(saves)'
      /\ Elements(saves)' = Elements(saves) \cup {n}
  <2>1. CASE n \in Elements(saves)
    BY <1>1, <2>1 DEF SaveOld, NoTwice, Elements
  <2>2. CASE n \notin Elements(saves)
    <3>1. saves' = Append(saves, n)
      BY <2>2 DEF SaveOld
    <3>2. /\ Append(saves, n) \in Seq(Name) /\ NoTwice(Append(saves, n))
          /\ Elements(Append(saves, n)) = Elements(saves) \cup {n}
      BY <1>1, <2>2, AppendNameOf
    <3> QED
      BY <3>1, <3>2 DEF NoTwice, Elements
  <2> QED
    BY <2>1, <2>2
<1>5. removes' = removes /\ n \notin Elements(removes)
  BY DEF SaveOld, IInv, ChangesExplainTable
<1>6. /\ l' \in Seq(Listed) /\ Len(l') = Len(l)
      /\ \A i \in 1..Len(l) : /\ l'[i].name = l[i].name
                             /\ l'[i].entry = IF l[i].name = n THEN m'[n] ELSE l[i].entry
  <2> DEFINE new(i) == IF l[i].name = n THEN [l[i] EXCEPT !.entry = m'[n]] ELSE l[i]
  <2>1. Len(l) \in Nat /\ \A i \in 1..Len(l) : l[i] \in Listed
    BY <1>1
  <2>2. \A i \in 1..Len(l) : /\ new(i) \in Listed /\ new(i).name = l[i].name
                            /\ new(i).entry = IF l[i].name = n THEN m'[n] ELSE l[i].entry
    BY <1>3, <2>1 DEF Listed
  <2>3. l' = [i \in 1..Len(l) |-> new(i)]
    BY DEF SaveOld
  <2> HIDE DEF new
  <2> QED
    BY <2>1, <2>2, <2>3
<1>7. ListIsMap'
  <2>1. /\ \A i, j \in 1..Len(l) : l[i].name = l[j].name => i = j
        /\ {l[i].name : i \in 1..Len(l)} = Names(m)
        /\ \A i \in 1..Len(l) : l[i].entry = m[l[i].name]
    BY DEF IInv, ListIsMap
  <2>2. Names(m') = Names(m)
    BY <1>2, <1>3, TableAssumption DEF Names
  <2>3. {l'[i].name : i \in 1..Len(l')} = Names(m')
    BY <1>6, <2>1, <2>2
  <2>4. \A i \in 1..Len(l') : l'[i].entry = m'[l'[i].name]
    <3> TAKE i \in 1..Len(l')
    <3>1. l[i].name \in Name /\ l[i].entry = m[l[i].name]
      BY <1>6, <2>1 DEF Names
    <3> QED
      BY <1>3, <1>6, <3>1
  <2> QED
    BY <1>6, <2>1, <2>3, <2>4 DEF ListIsMap, Names
<1>8. TypeOK'
  BY <1>3, <1>4, <1>5, <1>6 DEF IInv, TypeOK
<1>9. ChangesExplainTable'
  <2>1. Elements(removes)' = Elements(removes) /\ NoTwice(removes)'
    BY <1>1, <1>5 DEF Elements, NoTwice
  <2> QED
    BY <1>3, <1>4, <1>5, <2>1 DEF IInv, ChangesExplainTable
<1>10. FileHasTheRest'
  <2>1. Changed'
    BY <1>4 DEF Changed, Elements
  <2>2. \A k \in Name : k \notin Elements(saves)' \cup Elements(removes)'
                          => k \notin Elements(saves) \cup Elements(removes) /\ k # n
    BY <1>4, <1>5 DEF Elements
  <2> QED
    BY <1>3, <2>1, <2>2 DEF IInv, FileHasTheRest, Elements
<1>11. FlushingRuns'
  BY DEF IInv, FlushingRuns, Locked, Running
<1> QED
  BY <1>7, <1>8, <1>9, <1>10, <1>11 DEF IInv

\* A removed name leaves the map, the list and the saves.
LEMMA DelKeepsInv ==
    ASSUME IInv, NEW n \in Name, Del(n)
    PROVE  IInv'
<1>1. /\ m \in Table /\ l \in Seq(Listed) /\ saves \in Seq(Name) /\ removes \in Seq(Name)
      /\ NoTwice(saves) /\ NoTwice(removes)
  BY DEF IInv, TypeOK, ChangesExplainTable, Del
<1>2. m[n] # NoEntry /\ n \notin Elements(removes)
  BY DEF Del, IInv, ChangesExplainTable
<1>3. UNCHANGED <<up, flushing, file, torn, stored>>
  BY DEF Del, fileVars
<1>4. m' \in Table /\ m'[n] = NoEntry /\ \A k \in Name : k # n => m'[k] = m[k]
  BY <1>1 DEF Del, Table
<1>5. /\ saves' \in Seq(Name) /\ NoTwice(saves)'
      /\ Elements(saves)' = Elements(saves) \ {n}
  <2>1. saves' = DropName(saves, n)
    BY DEF Del
  <2>2. /\ DropName(saves, n) \in Seq(Name) /\ NoTwice(DropName(saves, n))
        /\ Elements(DropName(saves, n)) = Elements(saves) \ {n}
    BY <1>1, DropNameOf
  <2> QED
    BY <2>1, <2>2 DEF NoTwice, Elements
<1>6. /\ removes' \in Seq(Name) /\ NoTwice(removes)'
      /\ Elements(removes)' = Elements(removes) \cup {n}
  <2>1. removes' = Append(removes, n)
    BY DEF Del
  <2>2. /\ Append(removes, n) \in Seq(Name) /\ NoTwice(Append(removes, n))
        /\ Elements(Append(removes, n)) = Elements(removes) \cup {n}
    BY <1>1, <1>2, AppendNameOf
  <2> QED
    BY <2>1, <2>2 DEF NoTwice, Elements
<1>7. /\ \A i, j \in 1..Len(l) : l[i].name = l[j].name => i = j
      /\ {l[i].name : i \in 1..Len(l)} = Names(m)
      /\ \A i \in 1..Len(l) : l[i].entry = m[l[i].name]
  BY DEF IInv, ListIsMap
<1>8. /\ l' \in Seq(Listed)
      /\ \A i, j \in 1..Len(l') : l'[i].name = l'[j].name => i = j
      /\ \A j \in 1..Len(l') : \E i \in 1..Len(l) : l[i].name # n /\ l'[j] = l[i]
      /\ \A i \in 1..Len(l) : l[i].name # n => \E j \in 1..Len(l') : l'[j] = l[i]
  <2>1. l' = DropListed(l, n)
    BY DEF Del
  <2>2. IsListWithout(DropListed(l, n), l, n)
    BY <1>1, <1>7, DropListedOf
  <2>3. IsListWithout(l', l, n)
    BY <2>1, <2>2
  <2> QED
    BY <2>3 DEF IsListWithout
<1>9. ListIsMap'
  <2>1. Names(m') = Names(m) \ {n}
    BY <1>4 DEF Names
  <2>2. \A j \in 1..Len(l') : l'[j].name \in Names(m') /\ l'[j].entry = m'[l'[j].name]
    <3> TAKE j \in 1..Len(l')
    <3>1. PICK i \in 1..Len(l) : l[i].name # n /\ l'[j] = l[i]
      BY <1>8
    <3>2. l[i].name \in Names(m) /\ l[i].entry = m[l[i].name]
      BY <1>7
    <3> QED
      BY <1>4, <2>1, <3>1, <3>2 DEF Names
  <2>3. \A k \in Names(m') : \E j \in 1..Len(l') : l'[j].name = k
    <3> TAKE k \in Names(m')
    <3>1. PICK i \in 1..Len(l) : l[i].name = k
      BY <1>7, <2>1
    <3>2. k # n
      BY <2>1
    <3>3. PICK j \in 1..Len(l') : l'[j] = l[i]
      BY <1>8, <3>1, <3>2
    <3> QED
      BY <3>1, <3>3
  <2>4. {l'[j].name : j \in 1..Len(l')} = Names(m')
    BY <2>2, <2>3
  <2> QED
    BY <1>8, <2>2, <2>4 DEF ListIsMap, Names
<1>10. TypeOK'
  BY <1>3, <1>4, <1>5, <1>6, <1>8 DEF IInv, TypeOK
<1>11. ChangesExplainTable'
  BY <1>2, <1>3, <1>4, <1>5, <1>6 DEF IInv, ChangesExplainTable, Running
<1>12. FileHasTheRest'
  <2>1. Changed'
    BY <1>6 DEF Changed, Elements
  <2>2. \A k \in Name : k \notin Elements(saves)' \cup Elements(removes)'
                          => k \notin Elements(saves) \cup Elements(removes) /\ k # n
    BY <1>5, <1>6
  <2> QED
    BY <1>3, <1>4, <2>1, <2>2 DEF IInv, FileHasTheRest, Elements, Running
<1>13. FlushingRuns'
  BY <1>3 DEF IInv, FlushingRuns, Locked, Running
<1> QED
  BY <1>9, <1>10, <1>11, <1>12, <1>13 DEF IInv

-----------------------------------------------------------------------------
(* Flush.                                                                  *)

\* The written list is the map.
LEMMA WrittenIsMap ==
    ASSUME TypeOK, ListIsMap, Written
    PROVE  file' = m
<1>1. m \in Table /\ l \in Seq(Listed)
  BY DEF TypeOK
<1>2. /\ \A i, j \in 1..Len(l) : l[i].name = l[j].name => i = j
      /\ {l[i].name : i \in 1..Len(l)} = Names(m)
      /\ \A i \in 1..Len(l) : l[i].entry = m[l[i].name]
  BY DEF ListIsMap
<1>3. ASSUME NEW n \in Name
      PROVE  file'[n] = m[n]
  <2>1. CASE \E i \in 1..Len(l) : l[i].name = n
    <3>1. PICK i \in 1..Len(l) : l[i].name = n
      BY <2>1
    <3>2. \A r \in Elements(l) : r.name = n => r = l[i]
      BY <1>2, <3>1 DEF Elements
    <3>3. l[i] \in Elements(l)
      BY DEF Elements
    <3>4. (CHOOSE r \in Elements(l) : r.name = n) = l[i]
      BY <3>1, <3>2, <3>3
    <3> QED
      BY <1>2, <2>1, <3>1, <3>4 DEF Written
  <2>2. CASE ~ \E i \in 1..Len(l) : l[i].name = n
    <3>1. n \notin Names(m)
      BY <1>2, <2>2
    <3> QED
      BY <2>2, <3>1 DEF Written, Names
  <2> QED
    BY <2>1, <2>2
<1>4. file' = [n \in Name |-> file'[n]] /\ m = [n \in Name |-> m[n]]
  BY <1>1 DEF Written, Table
<1> QED
  BY <1>3, <1>4

\* A Flush that succeeds leaves nothing pending.
LEMMA FlushEndsKeepsInv ==
    ASSUME IInv, FlushEnds
    PROVE  IInv'
<1>1. file' = m /\ ~torn' /\ torn' \in BOOLEAN
  BY WrittenIsMap DEF IInv, FlushEnds, Written
<1>2. /\ m' = m /\ l' = l /\ stored' = m /\ saves' = <<>> /\ removes' = <<>>
      /\ flushing' = "none" /\ up' \in {"flushed", up}
  BY DEF FlushEnds, Returns
<1>3. <<>> \in Seq(Name) /\ NoTwice(<<>>) /\ Elements(<<>>) = {}
  BY DEF NoTwice, Elements
<1>4. TypeOK' /\ ListIsMap'
  BY <1>1, <1>2, <1>3 DEF IInv, TypeOK, ListIsMap, Names
<1>5. ChangesExplainTable' /\ FileHasTheRest'
  BY <1>1, <1>2, <1>3 DEF ChangesExplainTable, FileHasTheRest, Elements, NoTwice
<1>6. FlushingRuns'
  BY <1>2 DEF FlushingRuns, Locked
<1> QED
  BY <1>4, <1>5, <1>6 DEF IInv

\* Every other step of a Flush keeps the table, the changes, and stored; it
\* may cut the file short when there are changes, or write all of the table.
LEMMA TableStaysKeepsInv ==
    ASSUME IInv, UNCHANGED <<tableVars, stored>>,
           up' \in {"up", "leaving", "flushed", "down", "failed"}, Running' => Running,
           flushing' \in {"none", "task", "close"}, FlushingRuns',
           \/ UNCHANGED <<file, torn>>
           \/ file' = file /\ torn' = TRUE /\ Changed
           \/ Written
    PROVE  IInv'
<1>1. UNCHANGED <<m, l, saves, removes, stored>>
  BY DEF tableVars
<1>2. /\ file' = file \/ (file' = m /\ torn' = FALSE)
      /\ torn' \in BOOLEAN
  BY WrittenIsMap DEF IInv, TypeOK, Written
<1>3. TypeOK' /\ ListIsMap'
  BY <1>1, <1>2 DEF IInv, TypeOK, ListIsMap, Names
<1>4. ChangesExplainTable'
  BY <1>1 DEF IInv, ChangesExplainTable, Elements, NoTwice
<1>5. FileHasTheRest'
  <2>1. Elements(saves)' = Elements(saves) /\ Elements(removes)' = Elements(removes)
        /\ Changed' = Changed
    BY <1>1 DEF Elements, Changed
  <2>2. CASE UNCHANGED <<file, torn>>
    BY <1>1, <2>1, <2>2 DEF IInv, FileHasTheRest
  <2>3. CASE file' = file /\ torn' = TRUE /\ Changed
    BY <2>1, <2>3 DEF FileHasTheRest
  <2>4. CASE Written
    <3>1. file' = m /\ torn' = FALSE
      BY <2>4, WrittenIsMap DEF IInv, Written
    <3> QED
      BY <1>1, <3>1 DEF FileHasTheRest
  <2> QED
    BY <2>2, <2>3, <2>4
<1> QED
  BY <1>3, <1>4, <1>5 DEF IInv

-----------------------------------------------------------------------------
(* The theorems.                                                           *)

\* Every step keeps the invariant.
LEMMA NextKeepsInv == IInv /\ [Next]_vars => IInv'
<1> SUFFICES ASSUME IInv, [Next]_vars PROVE IInv'
  OBVIOUS
<1> USE DEF fileVars
<1> USE DEF FlushingRuns, Locked
<1>1. /\ up \in {"up", "leaving", "flushed", "down", "failed"}
      /\ flushing \in {"none", "task", "close"} /\ FlushingRuns
  BY DEF IInv, TypeOK
<1>2. ASSUME NEW n \in Name, NEW e \in Entry, NEW updatePassword \in BOOLEAN,
             Save(n, e, updatePassword)
      PROVE  IInv'
  BY <1>2, SaveNewKeepsInv, SaveOldKeepsInv DEF Save
<1>3. ASSUME NEW n \in Name, Del(n)
      PROVE  IInv'
  BY <1>3, DelKeepsInv
<1>4. ASSUME NEW who \in {"task", "close"}, FlushBegins(who) \/ FileNotOpened(who)
      PROVE  IInv'
  BY <1>1, <1>4, TableStaysKeepsInv DEF FlushBegins, FileNotOpened, MayFlush, Running
<1>5. CASE FlushFails
  <2>1. UNCHANGED <<tableVars, stored>> /\ (UNCHANGED <<file, torn>> \/ Written)
    BY <1>5 DEF FlushFails
  <2>2. Running /\ up' \in {"up", "leaving", "flushed", "down", "failed"} /\ flushing' = "none"
    BY <1>1, <1>5 DEF FlushFails, Returns, Running
  <2> QED
    BY <2>1, <2>2, TableStaysKeepsInv
<1>6. CASE NothingToFlush \/ SignalArrives \/ Rests \/ UNCHANGED vars
  BY <1>1, <1>6, TableStaysKeepsInv DEF NothingToFlush, SignalArrives, Rests, vars, Running
<1>7. CASE Exits \/ Crash
  BY <1>7, StopsKeepInv DEF Exits, Crash
<1> QED
  BY <1>2, <1>3, <1>4, <1>5, <1>6, <1>7, ResetKeepsInv, FlushEndsKeepsInv DEF Next

\* IInv is inductive: what follows of it holds in every run, with stops and
\* crashes of the process at any step (manager.go and routetable.go).
THEOREM InvariantHolds == Spec => []IInv
  BY InitImpliesInv, NextKeepsInv, PTL DEF Spec

\* The state of a table and of its file is of its type.
THEOREM TypeCorrect == Spec => []TypeOK
<1>1. IInv => TypeOK
  BY DEF IInv
<1> QED
  BY <1>1, InvariantHolds, PTL

\* The list that All returns and Flush writes is the map (Save and Del of
\* manager.go and routetable.go keep both).
THEOREM ListStaysMap == Spec => []ListIsMap
<1>1. IInv => ListIsMap
  BY DEF IInv
<1> QED
  BY <1>1, InvariantHolds, PTL

\* The lists of changes a Flush hands to the provider bring what it stored
\* last up to date (Save, Del and Flush of manager.go and routetable.go).
THEOREM ChangesKeepExplaining == Spec => []ChangesExplainTable
<1>1. IInv => ChangesExplainTable
  BY DEF IInv
<1> QED
  BY <1>1, InvariantHolds, PTL

\* The file has every entry that is not pending, and a file cut short by a
\* failed write is pending (Flush empties the lists after a success only).
THEOREM FileKeepsTheRest == Spec => []FileHasTheRest
<1>1. IInv => FileHasTheRest
  BY DEF IInv
<1> QED
  BY <1>1, InvariantHolds, PTL
=============================================================================
