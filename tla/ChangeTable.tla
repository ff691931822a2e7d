---------------------------- MODULE ChangeTable -----------------------------
(***************************************************************************)
(* The tables of users (auth.manager) and of routes (route.routetable):    *)
(* the map and the list of the entries, the lists of what was saved and    *)
(* removed since the last Flush, the JSON provider that writes the table   *)
(* to its file, and the stops and crashes of the server that the file has  *)
(* to outlive.  The two tables run the same algorithm; what an entry says  *)
(* is a password and the rest of it, and a route has no password.          *)
(*                                                                         *)
(* Every operation holds the lock of the table.  Only a Flush is taken in  *)
(* two steps, because the process may die between them.                    *)
(***************************************************************************)
EXTENDS Integers, Sequences, FiniteSets

CONSTANTS
    Name,       \* names of users, patterns of routes
    Password,   \* what CopyFrom takes over when asked to
    Rest,       \* what CopyFrom always takes over
    NoEntry     \* no entry under a name

Entry == [password : Password, rest : Rest]

ASSUME TableAssumption ==
    /\ IsFiniteSet(Name)
    /\ NoEntry \notin Entry

Table == [Name -> Entry \cup {NoEntry}]
Listed == [name : Name, entry : Entry]
Empty == [n \in Name |-> NoEntry]

VARIABLES
    up,        \* the process: "up"; "leaving" and "flushed" in Service.Close;
               \* "down", or "failed" when it could not start
    m,         \* the map of the table
    l,         \* the list of the table, entries with their names
    saves,     \* the names in the list of changed entries
    removes,   \* the names in the list of removed entries
    flushing,  \* who is in a Flush, between the truncation and the write:
               \* the "task", the "close" of the service, or "none"
    file,      \* the file of the JSON provider: its table
    torn,      \* is the file truncated?
    stored     \* the table of the last Reset or Flush without error (history)

tableVars == <<m, l, saves, removes>>
fileVars  == <<flushing, file, torn, stored>>
vars == <<up, tableVars, fileVars>>

Names(t)    == {n \in Name : t[n] # NoEntry}
Elements(s) == {s[i] : i \in 1..Len(s)}
NoTwice(s)  == \A i, j \in 1..Len(s) : s[i] = s[j] => i = j

TypeOK ==
    /\ up \in {"up", "leaving", "flushed", "down", "failed"}
    /\ m \in Table
    /\ l \in Seq(Listed)
    /\ saves \in Seq(Name)
    /\ removes \in Seq(Name)
    /\ flushing \in {"none", "task", "close"}
    /\ file \in Table
    /\ torn \in BOOLEAN
    /\ stored \in Table

\* A file that the program wrote.  (Without a file, LoadAll makes up a table
\* of its own, which stands for the file here.)
Init ==
    /\ up = "down"
    /\ m = Empty
    /\ l = <<>>
    /\ saves = <<>>
    /\ removes = <<>>
    /\ flushing = "none"
    /\ file \in Table
    /\ torn = FALSE
    /\ stored = file

Running == up \in {"up", "leaving", "flushed"}
Locked  == flushing # "none"

-----------------------------------------------------------------------------
(* The operations.                                                         *)

\* s without its i-th element: append(s[:i], s[i+1:]...).
Without(s, i) == [j \in 1..(Len(s) - 1) |-> IF j < i THEN s[j] ELSE s[j+1]]

\* The loops over the lists drop the first of the entries they look for.
Drop(s, at) == IF at = {} THEN s ELSE Without(s, CHOOSE i \in at : \A j \in at : i <= j)

DropName(s, n)   == Drop(s, {i \in 1..Len(s) : s[i] = n})
DropListed(s, n) == Drop(s, {i \in 1..Len(s) : s[i].name = n})

\* Reset: the table is loaded from the file, in any order; a file that was
\* truncated is no JSON, and the program panics.
Reset ==
    /\ up = "down"
    /\ \/ /\ torn
          /\ up' = "failed"
          /\ UNCHANGED <<tableVars, stored>>
       \/ /\ ~torn
          /\ up' = "up"
          /\ stored' = file
          /\ m' = file
          /\ \E s \in [1..Cardinality(Names(file)) -> Names(file)] :
               /\ NoTwice(s) /\ Elements(s) = Names(file)
               /\ l' = [i \in 1..Len(s) |-> [name |-> s[i], entry |-> file[s[i]]]]
          /\ saves' = <<>>
          /\ removes' = <<>>
    /\ UNCHANGED <<flushing, file, torn>>

\* Mutant of SaveNew: the name stays in the list of removed entries.
SaveNewKeepsRemoved(n, e) ==
    /\ m[n] = NoEntry
    /\ m' = [m EXCEPT ![n] = e]
    /\ l' = Append(l, [name |-> n, entry |-> e])
    /\ saves' = Append(saves, n)
    /\ UNCHANGED removes

\* Save of a name that is not in the table.
SaveNew(n, e) ==
    /\ m[n] = NoEntry
    /\ m' = [m EXCEPT ![n] = e]
    /\ l' = Append(l, [name |-> n, entry |-> e])
    /\ saves' = Append(saves, n)
    /\ removes' = DropName(removes, n)

\* Mutant of SaveOld: without a new password the entry has none.
SaveOldClearsPassword(n, e, updatePassword) ==
    /\ m[n] # NoEntry
    /\ m' = [m EXCEPT ![n].rest = e.rest,
                      ![n].password = IF updatePassword THEN e.password ELSE NoEntry]
    /\ l' = [i \in 1..Len(l) |-> IF l[i].name = n THEN [l[i] EXCEPT !.entry = m'[n]] ELSE l[i]]
    /\ saves' = IF n \in Elements(saves) THEN saves ELSE Append(saves, n)
    /\ UNCHANGED removes

\* Save of a name that is: CopyFrom into the entry, which the lists share.
SaveOld(n, e, updatePassword) ==
    /\ m[n] # NoEntry
    /\ m' = [m EXCEPT ![n].rest = e.rest,
                      ![n].password = IF updatePassword THEN e.password ELSE @]
    /\ l' = [i \in 1..Len(l) |-> IF l[i].name = n THEN [l[i] EXCEPT !.entry = m'[n]] ELSE l[i]]
    /\ saves' = IF n \in Elements(saves) THEN saves ELSE Append(saves, n)
    /\ UNCHANGED removes

Save(n, e, updatePassword) ==
    /\ Running /\ ~Locked
    /\ SaveNew(n, e) \/ SaveOld(n, e, updatePassword)
    /\ UNCHANGED <<up, fileVars>>

\* Mutant of Del: the entry stays in the list of the table.
DelKeepsListed(n) ==
    /\ Running /\ ~Locked
    /\ m[n] # NoEntry
    /\ m' = [m EXCEPT ![n] = NoEntry]
    /\ saves' = DropName(saves, n)
    /\ removes' = Append(removes, n)
    /\ UNCHANGED <<up, l, fileVars>>

\* Del of a name in the table; of another it does nothing.
Del(n) ==
    /\ Running /\ ~Locked
    /\ m[n] # NoEntry
    /\ m' = [m EXCEPT ![n] = NoEntry]
    /\ l' = DropListed(l, n)
    /\ saves' = DropName(saves, n)
    /\ removes' = Append(removes, n)
    /\ UNCHANGED <<up, fileVars>>

-----------------------------------------------------------------------------
(* Flush, every 5 minutes and in Service.Close.                            *)

Changed == saves # <<>> \/ removes # <<>>

\* The periodic task, or Service.Close: it cancels the task, but not one
\* that has begun and comes to this table only now.
MayFlush(who) ==
    /\ up \in (IF who = "task" THEN {"up", "leaving", "flushed"} ELSE {"leaving"})
    /\ ~Locked
    /\ Changed

\* EncodeJSONFile opens the file and truncates it.
FlushBegins(who) ==
    /\ MayFlush(who)
    /\ flushing' = who
    /\ torn' = TRUE
    /\ UNCHANGED <<up, tableVars, file, stored>>

\* Mutant of FileNotOpened: the changes are forgotten as after a success.
FileNotOpenedForgets(who) ==
    /\ MayFlush(who)
    /\ up' = IF who = "close" THEN "flushed" ELSE up
    /\ saves' = <<>>
    /\ removes' = <<>>
    /\ UNCHANGED <<m, l, fileVars>>

\* It cannot open the file: Flush returns the error, which nobody reads.
FileNotOpened(who) ==
    /\ MayFlush(who)
    /\ up' = IF who = "close" THEN "flushed" ELSE up
    /\ UNCHANGED <<tableVars, fileVars>>

\* Service.Close goes on when its Flush has returned.
Returns ==
    /\ Locked
    /\ flushing' = "none"
    /\ up' = IF flushing = "close" THEN "flushed" ELSE up

\* The list of the table is written.
Written ==
    /\ file' = [n \in Name |-> IF \E i \in 1..Len(l) : l[i].name = n
                                 THEN (CHOOSE r \in Elements(l) : r.name = n).entry
                                 ELSE NoEntry]
    /\ torn' = FALSE

\* Mutant of FlushEnds: the lists of changes are not emptied.
FlushEndsKeepsChanges ==
    /\ Returns
    /\ Written
    /\ stored' = m
    /\ UNCHANGED tableVars

\* Flush forgets the changes it has stored.
FlushEnds ==
    /\ Returns
    /\ Written
    /\ stored' = m
    /\ saves' = <<>>
    /\ removes' = <<>>
    /\ UNCHANGED <<m, l>>

\* The write fails, or the Sync behind it: Flush keeps the changes.
FlushFails ==
    /\ Returns
    /\ Written \/ UNCHANGED <<file, torn>>
    /\ UNCHANGED <<tableVars, stored>>

\* The Flush of Service.Close finds nothing changed.
NothingToFlush ==
    /\ up = "leaving"
    /\ ~Locked
    /\ ~Changed
    /\ up' = "flushed"
    /\ UNCHANGED <<tableVars, fileVars>>

-----------------------------------------------------------------------------
(* The end of the process.                                                 *)

\* SIGTERM or SIGINT: Service.Close begins; requests are still served.
SignalArrives ==
    /\ up = "up"
    /\ up' = "leaving"
    /\ UNCHANGED <<tableVars, fileVars>>

Stops ==
    /\ up' = "down"
    /\ m' = Empty
    /\ l' = <<>>
    /\ saves' = <<>>
    /\ removes' = <<>>
    /\ flushing' = "none"
    /\ UNCHANGED <<file, torn, stored>>

\* os.Exit after Service.Close.
Exits == up = "flushed" /\ Stops

\* The process is killed, in a Flush or not.
Crash == Running /\ Stops

\* A server that cannot start stays down.
Rests == up = "failed" /\ UNCHANGED vars

Next ==
    \/ Reset
    \/ \E n \in Name, e \in Entry, updatePassword \in BOOLEAN : Save(n, e, updatePassword)
    \/ \E n \in Name : Del(n)
    \/ \E who \in {"task", "close"} : FlushBegins(who) \/ FileNotOpened(who)
    \/ FlushEnds
    \/ FlushFails
    \/ NothingToFlush
    \/ SignalArrives
    \/ Exits
    \/ Crash
    \/ Rests

\* The task runs every 5 minutes until Service.Close, and a disk does not
\* fail for ever.
Fairness ==
    /\ WF_vars(up = "up" /\ FlushBegins("task"))
    /\ SF_vars(FlushEnds)

Spec == Init /\ [][Next]_vars /\ Fairness

-----------------------------------------------------------------------------
(* Properties.                                                             *)

\* The list that All returns and the JSON provider writes is the map: every
\* entry once, as the map has it.
ListIsMap ==
    /\ \A i, j \in 1..Len(l) : l[i].name = l[j].name => i = j
    /\ {l[i].name : i \in 1..Len(l)} = Names(m)
    /\ \A i \in 1..Len(l) : l[i].entry = m[l[i].name]

\* What a provider is given at a Flush is enough to bring what it stored last
\* up to date, whatever was saved, removed and saved again meanwhile and
\* however often a Flush failed: the removed are gone from the table, the
\* changed are in it, and all others are as they were stored.
ChangesExplainTable ==
    Running =>
        /\ \A n \in Name :
             /\ n \in Elements(saves) => m[n] # NoEntry
             /\ n \in Elements(removes) => m[n] = NoEntry
             /\ n \notin Elements(saves) \cup Elements(removes) => m[n] = stored[n]
        /\ NoTwice(saves)
        /\ NoTwice(removes)

\* What is not pending is on the disk: the file has every entry that no list
\* of changes names, and a file that a failed write cut short is pending as a
\* whole.  So a stop or a crash loses pending changes at most, or leaves a
\* file that is cut short.
FileHasTheRest ==
    Running =>
        /\ torn => Changed
        /\ ~torn => \A n \in Name :
             n \notin Elements(saves) \cup Elements(removes) => file[n] = m[n]

\* A change is stored in the end, also when writes fail: the changes are kept
\* until one succeeds, or the process ends.
ChangesAreStored ==
    \A n \in Name :
        (n \in Elements(saves) \cup Elements(removes)) ~>
            (n \notin Elements(saves) \cup Elements(removes) \/ up # "up")
=============================================================================
