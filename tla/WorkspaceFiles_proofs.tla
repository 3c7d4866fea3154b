------------------------ MODULE WorkspaceFiles_proofs ------------------------
(***************************************************************************)
(* Proofs about WorkspaceFiles, for any sessions, apps, files and bounds.  *)
(*                                                                         *)
(* ScopeIsolation follows from where contents can be: what is in a         *)
(* session's channel, in its turn's last_files or with one of its          *)
(* subagents was written by that session, and a row is under the key its   *)
(* writer's scope gives it (Ledger).  The rest is a lemma on the scopes:   *)
(* whoever reads the key of a file shares it with its writer.              *)
(*                                                                         *)
(* TurnProjected holds once a turn is over; while it runs the rows agree   *)
(* with the session's files when its last root event came after its last   *)
(* change, was not refused, and no subagent is at work (ProjectionInv): a  *)
(* subagent projects copies of its own, but whatever it leaves in the rows *)
(* is written again after its return.  Of two files with the same row      *)
(* either may be the one it shows, so that the files a turn has noted must *)
(* all be the session's by then (NotedInv).                                *)
(***************************************************************************)
EXTENDS WorkspaceFiles, TLAPS

\* Files whose contents all come from one session.
Owned(by, s, files) ==
    \A p \in DOMAIN files : p \in Files /\ files[p] \in DOMAIN by /\ by[files[p]] = s

\* A row under its writer's key.
Keyed(by, k, row) ==
    /\ k[2] \in Names
    /\ row \in [content : Contents, by : Sessions]
    /\ row.content \in DOMAIN by
    /\ by[row.content] = row.by
    /\ k = <<ScopeKey(row.by, k[2]), k[2]>>

Ledger ==
    /\ authors \in Seq(Sessions) /\ Len(authors) <= MaxWrites
    /\ channel = [s \in Sessions |-> channel[s]]
    /\ last = [s \in Sessions |-> last[s]]
    /\ copies = [s \in Sessions |-> copies[s]]
    /\ \A s \in Sessions : Owned(authors, s, channel[s]) /\ Owned(authors, s, last[s])
    /\ \A s \in Sessions : \A k \in DOMAIN copies[s] : Owned(authors, s, copies[s][k])
    /\ \A k \in DOMAIN rows : Keyed(authors, k, rows[k])

-----------------------------------------------------------------------------
(* Scopes *)

\* A session that reads a key reads it of a session it shares the file with:
\* the key that _file_scope_key chooses, read by _query_db.
LEMMA KeysShared ==
    ASSUME NEW s \in Sessions, NEW t \in Sessions, NEW p \in Files,
           <<ScopeKey(t, Name(p)), Name(p)>> \in ReadKeys(s, p)
    PROVE  Shares(s, t, Name(p))
<1> USE ConstantsAssumption, ScopesAssumption DEF ConstantsAssumption, ScopesAssumption
<1> DEFINE n == Name(p)
<1> HIDE DEF n
<1>1. /\ n \in Globals => App[s] # NoApp /\ ScopeKey(t, n) = App[s]
      /\ n \notin Globals => ScopeKey(t, n) \in {s, Workspace[s]}
    <2>1. /\ n \in Globals => ReadKeys(s, p) \subseteq (IF App[s] = NoApp THEN {} ELSE {App[s]}) \X {n}
          /\ n \notin Globals => ReadKeys(s, p) \subseteq {s, Workspace[s]} \X {n}
        BY Zenon DEF ReadKeys, n
    <2>2. <<ScopeKey(t, n), n>> \in ReadKeys(s, p)
        BY DEF n
    <2> QED  BY <2>1, <2>2
<1>2. ScopeKey(t, n) \in {App[t], t}
    BY DEF ScopeKey
<1>3. CASE n \in Globals
    <2>1. App[s] # NoApp /\ ScopeKey(t, n) = App[s]
        BY <1>3, <1>1
    <2>2. App[s] \in Apps
        BY <2>1
    <2>3. App[t] = App[s]
        BY <1>2, <2>1, <2>2
    <2> QED  BY <1>3, <2>1, <2>3 DEF Shares, n
<1>4. CASE n \notin Globals
    <2>1. ScopeKey(t, n) \in {s, Workspace[s]}
        BY <1>4, <1>1
    <2>2. CASE Builder(t)
        <3>1. ScopeKey(t, n) = App[t] /\ App[t] \in Apps
            BY <2>2 DEF ScopeKey, Builder
        <3>2. Workspace[s] = App[t]
            BY <2>1, <3>1
        <3> QED  BY <2>2, <3>1, <3>2 DEF Shares, Builder
    <2>3. CASE ~Builder(t)
        BY <1>4, <2>1, <2>3 DEF ScopeKey, Shares
    <2> QED  BY <2>2, <2>3
<1> QED  BY <1>3, <1>4 DEF n

\* What a listing shows of the rows is what a read finds, file by file.
LEMMA ListedRows ==
    ASSUME NEW s \in Sessions, NEW p \in Files
    PROVE  (\E k \in ListedKeys(s) : k \in DOMAIN rows /\ AgentPath(k[2]) = p)
              <=> (\E k \in ReadKeys(s, p) : k \in DOMAIN rows)
<1> USE ConstantsAssumption DEF ConstantsAssumption
<1>1. CASE p # AgentPath(Name(p))
    <2>1. ReadKeys(s, p) = {}
        BY <1>1, Zenon DEF ReadKeys
    <2>2. \A n : AgentPath(n) # p
        BY <1>1 DEF AgentPath, Name
    <2> QED  BY <2>1, <2>2
<1>2. CASE p = AgentPath(Name(p))
    <2> DEFINE n == Name(p)
    <2>1. n \in Names /\ \A m : AgentPath(m) = p <=> m = n
        BY <1>2 DEF AgentPath, Name
    <2>2. CASE n \in Globals
        <3>1. ReadKeys(s, p) = (IF App[s] = NoApp THEN {} ELSE {App[s]}) \X {n}
            BY <1>2, <2>2, Zenon DEF ReadKeys
        <3> HIDE DEF n
        <3> QED  BY <2>1, <2>2, <3>1 DEF ListedKeys, Names
    <2>3. CASE n \in Paths
        <3>1. n \notin Globals
            BY <2>3
        <3>2. ReadKeys(s, p) = {s, Workspace[s]} \X {n}
            BY <1>2, <3>1, Zenon DEF ReadKeys
        <3> HIDE DEF n
        <3> QED  BY <2>1, <2>3, <3>1, <3>2 DEF ListedKeys
    <2> QED  BY <2>1, <2>2, <2>3 DEF Names
<1> QED  BY <1>1, <1>2

-----------------------------------------------------------------------------
(* Contents *)

\* One more content leaves whose the others are.
LEMMA OwnedGrows ==
    ASSUME NEW by \in Seq(Sessions), NEW t \in Sessions, NEW s \in Sessions, NEW files,
           Owned(by, s, files)
    PROVE  Owned(Append(by, t), s, files)
BY DEF Owned

LEMMA KeyedGrows ==
    ASSUME NEW by \in Seq(Sessions), NEW t \in Sessions, NEW k, NEW row, Keyed(by, k, row)
    PROVE  Keyed(Append(by, t), k, row)
BY DEF Keyed

\* The newest content is its author's.
LEMMA OwnedNew ==
    ASSUME NEW by \in Seq(Sessions), NEW s \in Sessions, NEW p \in Files
    PROVE  Owned(Append(by, s), s, [q \in {p} |-> Len(by) + 1])
BY DEF Owned

\* Files over files of the same session.
LEMMA OwnedOver ==
    ASSUME NEW by, NEW s, NEW new, NEW old, Owned(by, s, new), Owned(by, s, old)
    PROVE  Owned(by, s, Over(new, old))
BY DEF Owned, Over

\* The rows after a projection.
LEMMA UpsertedCases ==
    ASSUME NEW s, NEW files, NEW new \in Upserts(s, files)
    PROVE  /\ DOMAIN rows \subseteq DOMAIN new
           /\ \A k \in DOMAIN new :
                 \/ k \in DOMAIN rows /\ new[k] = rows[k]
                 \/ \E p \in DOMAIN files : /\ k = <<ScopeKey(s, Name(p)), Name(p)>>
                                            /\ new[k] = [content |-> files[p], by |-> s]
           /\ \A p \in DOMAIN files :
                 LET k == <<ScopeKey(s, Name(p)), Name(p)>>
                 IN  /\ k \in DOMAIN new
                     /\ \E q \in DOMAIN files :
                           Name(q) = Name(p) /\ new[k] = [content |-> files[q], by |-> s]
<1> DEFINE names == {Name(p) : p \in DOMAIN files}
           keys == {<<ScopeKey(s, n), n>> : n \in names}
<1>1. PICK kept \in [names -> DOMAIN files] :
          /\ \A n \in names : Name(kept[n]) = n
          /\ new = [k \in DOMAIN rows \cup keys |->
                       IF k \in keys THEN [content |-> files[kept[k[2]]], by |-> s] ELSE rows[k]]
    BY DEF Upserts
<1>2. ASSUME NEW n \in names
      PROVE  LET k == <<ScopeKey(s, n), n>>
             IN  /\ k \in DOMAIN new
                 /\ \E q \in DOMAIN files :
                       Name(q) = n /\ new[k] = [content |-> files[q], by |-> s]
    <2>1. kept[n] \in DOMAIN files /\ Name(kept[n]) = n
        BY <1>1
    <2>2. <<ScopeKey(s, n), n>> \in keys
        OBVIOUS
    <2> DEFINE k == <<ScopeKey(s, n), n>>
    <2>3. k \in keys /\ k[2] = n
        BY <2>2
    <2> HIDE DEF k, keys, names
    <2>4. k \in DOMAIN new /\ new[k] = [content |-> files[kept[n]], by |-> s]
        BY <1>1, <2>3
    <2> QED  BY <2>1, <2>4 DEF k
<1>3. ASSUME NEW k \in DOMAIN new, k \notin keys
      PROVE  k \in DOMAIN rows /\ new[k] = rows[k]
    <2> HIDE DEF keys, names
    <2> QED  BY <1>1, <1>3
<1>4. ASSUME NEW k \in keys
      PROVE  \E p \in DOMAIN files : /\ k = <<ScopeKey(s, Name(p)), Name(p)>>
                                     /\ new[k] = [content |-> files[p], by |-> s]
    <2>1. PICK n \in names : k = <<ScopeKey(s, n), n>>
        OBVIOUS
    <2>2. PICK q \in DOMAIN files : Name(q) = n /\ new[k] = [content |-> files[q], by |-> s]
        BY <1>2, <2>1
    <2> QED  BY <2>1, <2>2
<1>5. DOMAIN rows \subseteq DOMAIN new
    <2> HIDE DEF keys, names
    <2> QED  BY <1>1
<1>6. \A p \in DOMAIN files : Name(p) \in names
    OBVIOUS
<1> HIDE DEF keys, names
<1> QED  BY <1>2, <1>3, <1>4, <1>5, <1>6

\* A projection writes the session's files under its own keys.
LEMMA KeyedUpserted ==
    ASSUME NEW by \in Seq(Sessions), Len(by) <= MaxWrites, NEW s \in Sessions, NEW files,
           Owned(by, s, files), \A k \in DOMAIN rows : Keyed(by, k, rows[k]),
           NEW new \in Upserts(s, files)
    PROVE  \A k \in DOMAIN new : Keyed(by, k, new[k])
<1> SUFFICES ASSUME NEW k \in DOMAIN new
             PROVE  Keyed(by, k, new[k])
    OBVIOUS
<1>1. \/ k \in DOMAIN rows /\ new[k] = rows[k]
      \/ \E p \in DOMAIN files : /\ k = <<ScopeKey(s, Name(p)), Name(p)>>
                                 /\ new[k] = [content |-> files[p], by |-> s]
    BY UpsertedCases
<1>2. ASSUME NEW p \in DOMAIN files, k = <<ScopeKey(s, Name(p)), Name(p)>>,
             new[k] = [content |-> files[p], by |-> s]
      PROVE  Keyed(by, k, new[k])
    <2>1. files[p] \in Contents
        BY ConstantsAssumption DEF ConstantsAssumption, Owned, Contents
    <2>2. Name(p) \in Names
        BY ConstantsAssumption DEF ConstantsAssumption, Owned, Name
    <2> QED  BY <1>2, <2>1, <2>2 DEF Keyed, Owned
<1> QED  BY <1>1, <1>2

-----------------------------------------------------------------------------
(* The ledger *)

\* The parts of the ledger, for one session at a time.
OwnedBy(by, s) ==
    /\ Owned(by, s, channel[s])
    /\ Owned(by, s, last[s])
    /\ \A k \in DOMAIN copies[s] : Owned(by, s, copies[s][k])

LEMMA LedgerParts ==
    ASSUME Ledger
    PROVE  /\ \A s \in Sessions : OwnedBy(authors, s)
           /\ \A k \in DOMAIN rows : Keyed(authors, k, rows[k])
BY DEF Ledger, OwnedBy

\* A content more.
LEMMA AuthorGrows ==
    ASSUME Ledger, NEW s \in Sessions, Author(s)
    PROVE  /\ authors' = Append(authors, s)
           /\ authors' \in Seq(Sessions) /\ Len(authors') <= MaxWrites
           /\ \A t \in Sessions : OwnedBy(authors', t)
           /\ \A k \in DOMAIN rows : Keyed(authors', k, rows[k])
           /\ \A p \in Files : Owned(authors', s, [q \in {p} |-> NewContent])
<1>1. authors \in Seq(Sessions) /\ Len(authors) < MaxWrites /\ authors' = Append(authors, s)
    BY DEF Ledger, Author
<1>2. authors' \in Seq(Sessions) /\ Len(authors') <= MaxWrites
    BY <1>1, ConstantsAssumption DEF ConstantsAssumption
<1>3. \A t \in Sessions : OwnedBy(authors', t)
    BY <1>1, LedgerParts, OwnedGrows DEF OwnedBy
<1>4. \A k \in DOMAIN rows : Keyed(authors', k, rows[k])
    BY <1>1, LedgerParts, KeyedGrows
<1>5. \A p \in Files : Owned(authors', s, [q \in {p} |-> NewContent])
    BY <1>1, OwnedNew DEF NewContent
<1> QED  BY <1>1, <1>2, <1>3, <1>4, <1>5

\* Where the files and the rows go, whatever the step.
LEMMA LedgerFrom ==
    ASSUME Ledger, NEW s \in Sessions,
           authors' \in Seq(Sessions), Len(authors') <= MaxWrites,
           \A t \in Sessions : OwnedBy(authors', t),
           NEW c, channel' = [channel EXCEPT ![s] = c], Owned(authors', s, c),
           NEW l, last' = [last EXCEPT ![s] = l], Owned(authors', s, l),
           NEW w, copies' = [copies EXCEPT ![s] = w],
           \A k \in DOMAIN w : Owned(authors', s, w[k]),
           \A k \in DOMAIN rows' : Keyed(authors', k, rows'[k])
    PROVE  Ledger'
<1>1. /\ channel' = [t \in Sessions |-> channel'[t]]
      /\ last' = [t \in Sessions |-> last'[t]]
      /\ copies' = [t \in Sessions |-> copies'[t]]
    BY DEF Ledger
<1>2. ASSUME NEW t \in Sessions
      PROVE  /\ Owned(authors', t, channel'[t])
             /\ Owned(authors', t, last'[t])
             /\ \A k \in DOMAIN copies'[t] : Owned(authors', t, copies'[t][k])
    <2>1. CASE t = s
        BY <2>1 DEF Ledger
    <2>2. CASE t # s
        <3>1. channel'[t] = channel[t] /\ last'[t] = last[t] /\ copies'[t] = copies[t]
            BY <2>2 DEF Ledger
        <3> QED  BY <3>1 DEF OwnedBy
    <2> QED  BY <2>1, <2>2
<1> QED  BY <1>1, <1>2 DEF Ledger

\* A session's own files as they are.
LEMMA LedgerSame ==
    ASSUME Ledger, NEW s \in Sessions
    PROVE  /\ channel = [channel EXCEPT ![s] = channel[s]]
           /\ last = [last EXCEPT ![s] = last[s]]
           /\ copies = [copies EXCEPT ![s] = copies[s]]
BY DEF Ledger

LEMMA OwnedEmpty == ASSUME NEW by, NEW s PROVE Owned(by, s, Empty)
BY DEF Owned, Empty

\* A step that writes nothing and changes no files.
LEMMA LedgerStutter ==
    Ledger /\ UNCHANGED <<rows, channel, last, copies, authors>> => Ledger'
BY DEF Ledger, Owned, Keyed

LEMMA LedgerWrite ==
    ASSUME Ledger, NEW s \in Sessions, NEW p \in Files, Write(s, p)
    PROVE  Ledger'
<1>1. Author(s) /\ UNCHANGED <<rows, last, copies>>
    BY DEF Write
<1>2. channel' = [channel EXCEPT ![s] = Over([q \in {p} |-> NewContent], channel[s])]
    BY DEF Write
<1>3. Owned(authors', s, Over([q \in {p} |-> NewContent], channel[s]))
    BY <1>1, AuthorGrows, OwnedOver DEF OwnedBy
<1> QED  BY <1>1, <1>2, <1>3, AuthorGrows, LedgerFrom, LedgerSame DEF OwnedBy

LEMMA LedgerToolWrite ==
    ASSUME Ledger, NEW s \in Sessions, NEW n \in Names, ToolWrite(s, n)
    PROVE  Ledger'
<1> DEFINE key == <<ScopeKey(s, n), n>>
           row == [content |-> NewContent, by |-> s]
<1>1. Author(s) /\ UNCHANGED <<channel, last, copies>>
    BY DEF ToolWrite
<1>2. rows' = Over([k \in {key} |-> row], rows)
    BY DEF ToolWrite
<1>3. Keyed(authors', key, row)
    <2>1. NewContent \in DOMAIN authors' /\ authors'[NewContent] = s
        BY <1>1, AuthorGrows DEF NewContent, Ledger
    <2>2. NewContent \in Contents
        BY <1>1, <2>1, AuthorGrows, ConstantsAssumption DEF ConstantsAssumption, Contents
    <2> QED  BY <2>1, <2>2 DEF Keyed
<1>4. \A k \in DOMAIN rows' : Keyed(authors', k, rows'[k])
    BY <1>1, <1>2, <1>3, AuthorGrows DEF Over
<1> QED  BY <1>1, <1>4, AuthorGrows, LedgerFrom, LedgerSame DEF OwnedBy

LEMMA LedgerSubagentWrite ==
    ASSUME Ledger, NEW s \in Sessions, NEW j \in Subagents, NEW p \in Files,
           SubagentWrite(s, j, p)
    PROVE  Ledger'
<1> DEFINE files == Over([q \in {p} |-> NewContent], copies[s][j])
           w == [copies[s] EXCEPT ![j] = files]
<1>1. Author(s) /\ j \in DOMAIN copies[s] /\ UNCHANGED channel
    BY DEF SubagentWrite
<1>2. /\ copies' = [copies EXCEPT ![s] = w]
      /\ last' = [last EXCEPT ![s] = Over(files, last[s])]
      /\ rows' = rows \/ rows' \in Upserts(s, files)
    BY DEF SubagentWrite, Project
<1>3. Owned(authors', s, files)
    BY <1>1, AuthorGrows, OwnedOver DEF OwnedBy
<1>4. \A k \in DOMAIN w : Owned(authors', s, w[k])
    BY <1>1, <1>3, AuthorGrows DEF OwnedBy
<1>5. Owned(authors', s, Over(files, last[s]))
    BY <1>1, <1>3, AuthorGrows, OwnedOver DEF OwnedBy
<1>6. \A k \in DOMAIN rows' : Keyed(authors', k, rows'[k])
    BY <1>1, <1>2, <1>3, AuthorGrows, KeyedUpserted
<1> HIDE DEF files, w
<1> QED  BY <1>1, <1>2, <1>4, <1>5, <1>6, AuthorGrows, LedgerFrom, LedgerSame DEF OwnedBy

\* Steps that move files and write none.
LEMMA LedgerMove ==
    ASSUME Ledger, NEW s \in Sessions,
           \/ \E j \in Subagents : Delegate(s, j) \/ SubagentEvent(s, j) \/ Return(s, j)
           \/ RootEvent(s) \/ End(s) \/ Stop(s)
    PROVE  Ledger'
<1>1. authors \in Seq(Sessions) /\ Len(authors) <= MaxWrites
    BY DEF Ledger
<1>2. authors' = authors
    BY DEF Delegate, SubagentEvent, Return, RootEvent, End, Stop
<1>3. ASSUME NEW j \in Subagents, Delegate(s, j)
      PROVE  Ledger'
    <2> DEFINE w == Over([i \in {j} |-> channel[s]], copies[s])
    <2>1. copies' = [copies EXCEPT ![s] = w] /\ UNCHANGED <<rows, channel, last>>
        BY <1>3 DEF Delegate
    <2>2. \A k \in DOMAIN w : Owned(authors, s, w[k])
        BY LedgerParts DEF OwnedBy, Over
    <2> HIDE DEF w
    <2> QED  BY <1>1, <1>2, <2>1, <2>2, LedgerParts, LedgerFrom, LedgerSame DEF OwnedBy
<1>4. ASSUME NEW j \in Subagents, Return(s, j)
      PROVE  Ledger'
    <2> DEFINE w == Restrict(copies[s], DOMAIN copies[s] \ {j})
               c == Over(copies[s][j], channel[s])
    <2>1. /\ j \in DOMAIN copies[s]
          /\ channel' = [channel EXCEPT ![s] = c]
          /\ copies' = [copies EXCEPT ![s] = w]
          /\ UNCHANGED <<rows, last>>
        BY <1>4 DEF Return
    <2>2. \A k \in DOMAIN w : Owned(authors, s, w[k])
        BY LedgerParts DEF OwnedBy, Restrict
    <2>3. Owned(authors, s, c)
        BY <2>1, LedgerParts, OwnedOver DEF OwnedBy
    <2> HIDE DEF w, c
    <2> QED  BY <1>1, <1>2, <2>1, <2>2, <2>3, LedgerParts, LedgerFrom, LedgerSame DEF OwnedBy
<1>5. CASE RootEvent(s)
    <2> DEFINE l == Over(channel[s], last[s])
    <2>1. /\ last' = [last EXCEPT ![s] = l]
          /\ rows' = rows \/ rows' \in Upserts(s, l)
          /\ UNCHANGED <<channel, copies>>
        BY <1>5 DEF RootEvent, Project, Noted
    <2>2. Owned(authors, s, l)
        BY LedgerParts, OwnedOver DEF OwnedBy
    <2>3. \A k \in DOMAIN rows' : Keyed(authors, k, rows'[k])
        BY <1>1, <2>1, <2>2, LedgerParts, KeyedUpserted
    <2> HIDE DEF l
    <2> QED  BY <1>1, <1>2, <2>1, <2>2, <2>3, LedgerParts, LedgerFrom, LedgerSame DEF OwnedBy
<1>6. CASE End(s)
    <2>1. last' = [last EXCEPT ![s] = Empty] /\ UNCHANGED <<rows, channel, copies>>
        BY <1>6 DEF End
    <2> QED  BY <1>1, <1>2, <2>1, LedgerParts, LedgerFrom, LedgerSame, OwnedEmpty DEF OwnedBy
<1>7. CASE Stop(s)
    <2>1. /\ last' = [last EXCEPT ![s] = Empty]
          /\ copies' = [copies EXCEPT ![s] = Empty]
          /\ UNCHANGED <<rows, channel>>
        BY <1>7 DEF Stop
    <2>2. DOMAIN Empty = {}
        BY DEF Empty
    <2> QED  BY <1>1, <1>2, <2>1, <2>2, LedgerParts, LedgerFrom, LedgerSame, OwnedEmpty DEF OwnedBy
<1>8. ASSUME NEW j \in Subagents, SubagentEvent(s, j)
      PROVE  Ledger'
    <2> DEFINE l == Over(copies[s][j], last[s])
    <2>1. /\ j \in DOMAIN copies[s]
          /\ last' = [last EXCEPT ![s] = l]
          /\ rows' = rows \/ rows' \in Upserts(s, copies[s][j])
          /\ UNCHANGED <<channel, copies>>
        BY <1>8 DEF SubagentEvent, Project
    <2>2. Owned(authors, s, copies[s][j])
        BY <2>1, LedgerParts DEF OwnedBy
    <2>3. Owned(authors, s, l)
        BY <2>2, LedgerParts, OwnedOver DEF OwnedBy
    <2>4. \A k \in DOMAIN rows' : Keyed(authors, k, rows'[k])
        BY <1>1, <2>1, <2>2, LedgerParts, KeyedUpserted
    <2> HIDE DEF l
    <2> QED  BY <1>1, <1>2, <2>1, <2>3, <2>4, LedgerParts, LedgerFrom, LedgerSame DEF OwnedBy
<1> QED  BY <1>3, <1>4, <1>5, <1>6, <1>7, <1>8

LEMMA LedgerStep == Ledger /\ [Next]_vars => Ledger'
<1> SUFFICES ASSUME Ledger, [Next]_vars PROVE Ledger'
    OBVIOUS
<1>1. CASE UNCHANGED vars
    BY <1>1, LedgerStutter DEF vars
<1>2. ASSUME NEW s \in Sessions, Begin(s) PROVE Ledger'
    BY <1>2, LedgerStutter DEF Begin
<1>3. ASSUME NEW s \in Sessions, NEW p \in Files, Write(s, p) \/ Edit(s, p)
      PROVE  Ledger'
    BY <1>3, LedgerWrite DEF Edit
<1> QED  BY <1>1, <1>2, <1>3, LedgerToolWrite, LedgerSubagentWrite, LedgerMove DEF Next

LEMMA LedgerInit == Init => Ledger
<1> SUFFICES ASSUME Init PROVE Ledger
    OBVIOUS
<1>1. DOMAIN Empty = {} /\ DOMAIN rows = {}
    BY DEF Init, Empty
<1>2. authors \in Seq(Sessions) /\ Len(authors) = 0
    BY DEF Init
<1> QED  BY <1>1, <1>2, OwnedEmpty, ConstantsAssumption DEF ConstantsAssumption, Init, Ledger

-----------------------------------------------------------------------------
(* Theorems *)

LEMMA LedgerHolds == Spec => []Ledger
BY LedgerInit, LedgerStep, PTL DEF Spec

\* No session reads what a session outside its scope wrote, for any sessions of
\* any apps (_file_scope_key and _query_db).
THEOREM Isolated == Spec => []ScopeIsolation
<1>1. Ledger => ScopeIsolation
    <2> SUFFICES ASSUME Ledger, NEW s \in Sessions, NEW p \in Files, NEW c \in Reads(s, p)
                 PROVE  Shares(s, authors[c], Name(p))
        BY DEF ScopeIsolation
    <2>1. CASE p \in DOMAIN channel[s]
        BY <2>1 DEF Reads, Ledger, Owned, Shares
    <2>2. CASE p \notin DOMAIN channel[s]
        <3>1. PICK k \in ReadKeys(s, p) \cap DOMAIN rows : c = rows[k].content
            BY <2>2 DEF Reads, Stored
        <3>2. Keyed(authors, k, rows[k])
            BY <3>1, LedgerParts
        <3>3. k[2] = Name(p)
            <4>1. \/ ReadKeys(s, p) = {}
                  \/ ReadKeys(s, p) = (IF App[s] = NoApp THEN {} ELSE {App[s]}) \X {Name(p)}
                  \/ ReadKeys(s, p) = {s, Workspace[s]} \X {Name(p)}
                BY Zenon DEF ReadKeys
            <4> QED  BY <3>1, <4>1
        <3>4. authors[c] \in Sessions /\ k = <<ScopeKey(authors[c], Name(p)), Name(p)>>
            BY <3>1, <3>2, <3>3 DEF Keyed
        <3> QED  BY <3>1, <3>4, KeysShared
    <2> QED  BY <2>1, <2>2
<1> QED  BY <1>1, LedgerHolds, PTL

\* What ls and glob list can be read, and the other way round, for any files
\* (_scope_condition and _query_db).
THEOREM ListedReadable == Spec => []ListedIsReadable
<1>1. Ledger => ListedIsReadable
    <2> SUFFICES ASSUME NEW s \in Sessions, NEW p \in Files
                 PROVE  p \in Listed(s) <=> Reads(s, p) # {}
        BY DEF ListedIsReadable
    <2>1. CASE p \in DOMAIN channel[s]
        BY <2>1 DEF Listed, Reads
    <2>2. CASE p \notin DOMAIN channel[s]
        <3>1. p \in Listed(s) <=> \E k \in ListedKeys(s) : k \in DOMAIN rows /\ AgentPath(k[2]) = p
            BY <2>2 DEF Listed
        <3>2. Reads(s, p) # {} <=> \E k \in ReadKeys(s, p) : k \in DOMAIN rows
            BY <2>2 DEF Reads, Stored
        <3> QED  BY <3>1, <3>2, ListedRows
    <2> QED  BY <2>1, <2>2
<1> QED  BY <1>1, LedgerHolds, PTL

-----------------------------------------------------------------------------
(* What a turn leaves in the database *)

\* A content of one of the session's files that the row of a path is for.
Held(s, p, content) == \E q \in DOMAIN channel[s] : Name(q) = Name(p) /\ content = channel[s][q]

\* Every file of the session has its row, with what the session holds of it
\* where the row is its own.
Projected(s) ==
    \A p \in DOMAIN channel[s] :
        LET k == <<ScopeKey(s, Name(p)), Name(p)>>
        IN  k \in DOMAIN rows /\ (rows[k].by = s => Held(s, p, rows[k].content))

\* What a turn has noted is in the session's channel, or comes with a subagent.
NotedInv ==
    \A s \in Sessions : \A p \in DOMAIN last[s] :
        p \in DOMAIN channel[s] \/ \E k \in DOMAIN copies[s] : p \in DOMAIN copies[s][k]

\* A turn with nothing left to project: its last root event came after its last
\* change, was written, and no subagent still projects files of its own.
Quiet(s) == s \in running \ (fresh \cup missed) /\ copies[s] = Empty

ProjectionInv ==
    /\ outages \in Nat
    /\ fresh \subseteq running
    /\ settled \subseteq Sessions \ running
    /\ \A s \in Sessions : s \in settled \/ Quiet(s) => Projected(s)

\* A step that writes no row over one of another session leaves what that
\* session has projected, if its files stay as they are.
LEMMA ProjectedKept ==
    ASSUME NEW s \in Sessions, NEW t \in Sessions, t # s, Projected(t),
           channel'[t] = channel[t],
           DOMAIN rows \subseteq DOMAIN rows',
           \A k \in DOMAIN rows : rows'[k] = rows[k] \/ rows'[k].by = s
    PROVE  Projected(t)'
<1> SUFFICES ASSUME NEW p \in DOMAIN channel[t]
             PROVE  /\ <<ScopeKey(t, Name(p)), Name(p)>> \in DOMAIN rows'
                    /\ rows'[<<ScopeKey(t, Name(p)), Name(p)>>].by = t
                            => Held(t, p, rows'[<<ScopeKey(t, Name(p)), Name(p)>>].content)
    BY DEF Projected, ScopeKey, Builder, Held
<1> DEFINE k == <<ScopeKey(t, Name(p)), Name(p)>>
<1>1. k \in DOMAIN rows /\ (rows[k].by = t => Held(t, p, rows[k].content))
    BY DEF Projected
<1>2. rows'[k] = rows[k] \/ rows'[k].by = s
    BY <1>1
<1> HIDE DEF k
<1>3. k \in DOMAIN rows' /\ (rows'[k].by = t => Held(t, p, rows'[k].content))
    BY <1>1, <1>2
<1> QED  BY <1>3 DEF k

\* An upsert replaces rows by rows of its session, and no others.
LEMMA UpsertedRows ==
    ASSUME NEW s, NEW files, NEW new \in Upserts(s, files)
    PROVE  /\ DOMAIN rows \subseteq DOMAIN new
           /\ \A k \in DOMAIN rows : new[k] = rows[k] \/ new[k].by = s
           /\ \A p \in DOMAIN files :
                 LET k == <<ScopeKey(s, Name(p)), Name(p)>>
                 IN  /\ k \in DOMAIN new
                     /\ \E q \in DOMAIN files : Name(q) = Name(p) /\ new[k].content = files[q]
<1>1. DOMAIN rows \subseteq DOMAIN new
    BY UpsertedCases
<1>2. ASSUME NEW k \in DOMAIN rows PROVE new[k] = rows[k] \/ new[k].by = s
    <2>1. k \in DOMAIN new
        BY <1>1
    <2>2. new[k] = rows[k] \/ \E p \in DOMAIN files : new[k] = [content |-> files[p], by |-> s]
        BY <2>1, UpsertedCases
    <2>3. \A content : [content |-> content, by |-> s].by = s
        OBVIOUS
    <2> QED  BY <2>2, <2>3
<1>3. ASSUME NEW p \in DOMAIN files
      PROVE  LET k == <<ScopeKey(s, Name(p)), Name(p)>>
             IN  /\ k \in DOMAIN new
                 /\ \E q \in DOMAIN files : Name(q) = Name(p) /\ new[k].content = files[q]
    <2> DEFINE k == <<ScopeKey(s, Name(p)), Name(p)>>
    <2>1. /\ k \in DOMAIN new
          /\ \E q \in DOMAIN files :
                Name(q) = Name(p) /\ new[k] = [content |-> files[q], by |-> s]
        BY UpsertedCases
    <2> HIDE DEF k
    <2>2. \E q \in DOMAIN files : Name(q) = Name(p) /\ new[k].content = files[q]
        BY <2>1
    <2> QED  BY <2>1, <2>2 DEF k
<1> QED  BY <1>1, <1>2, <1>3

\* What a step of one session's turn must see to: the others keep what they
\* have projected, and its own session when nothing is left to project.
LEMMA ProjectionFrom ==
    ASSUME ProjectionInv, NEW s \in Sessions,
           outages' \in Nat,
           fresh' \subseteq running',
           settled' \subseteq Sessions \ running',
           \A t \in Sessions \ {s} :
               /\ t \in settled' => t \in settled
               /\ t \in running' => t \in running
               /\ t \in fresh => t \in fresh'
               /\ t \in missed => t \in missed'
               /\ channel'[t] = channel[t] /\ copies'[t] = copies[t],
           DOMAIN rows \subseteq DOMAIN rows',
           \A k \in DOMAIN rows : rows'[k] = rows[k] \/ rows'[k].by = s,
           s \in settled' \/ Quiet(s)' => Projected(s)'
    PROVE  ProjectionInv'
<1>1. ASSUME NEW t \in Sessions, t \in settled' \/ Quiet(t)'
      PROVE  Projected(t)'
    <2>1. CASE t = s
        BY <1>1, <2>1
    <2>2. CASE t # s
        <3>1. t \in settled \/ Quiet(t)
            BY <1>1, <2>2 DEF Quiet
        <3>2. Projected(t) /\ channel'[t] = channel[t]
            BY <2>2, <3>1 DEF ProjectionInv
        <3> QED  BY <2>2, <3>2, ProjectedKept
    <2> QED  BY <2>1, <2>2
<1> QED  BY <1>1 DEF ProjectionInv

\* A session whose projection nobody touched.
LEMMA ProjectedSame ==
    ASSUME NEW s, Projected(s), channel'[s] = channel[s], rows' = rows
    PROVE  Projected(s)'
BY DEF Projected, ScopeKey, Builder, Held

LEMMA ProjectionInit == Init => ProjectionInv
BY DEF Init, ProjectionInv, Quiet

\* A turn begins, and ends one way or the other.
LEMMA ProjectionTurn ==
    ASSUME Ledger, ProjectionInv, NEW s \in Sessions, Begin(s) \/ End(s) \/ Stop(s)
    PROVE  ProjectionInv'
<1> USE DEF ProjectionInv
<1>1. UNCHANGED <<rows, channel, outages, missed>>
    BY DEF Begin, End, Stop
<1>2. \A t \in Sessions \ {s} : copies'[t] = copies[t]
    BY DEF Begin, End, Stop, Ledger
<1>3. CASE Begin(s)
    <2>1. s \notin settled' /\ s \in fresh'
        BY <1>3 DEF Begin
    <2> QED  BY <1>1, <1>2, <1>3, <2>1, ProjectionFrom DEF Begin, Quiet
<1>4. CASE End(s)
    <2>1. s \in settled' => s \in settled \/ Quiet(s)
        BY <1>4 DEF End, Quiet
    <2>2. s \notin running'
        BY <1>4 DEF End
    <2>3. s \in settled' \/ Quiet(s)' => Projected(s)'
        BY <1>1, <2>1, <2>2, ProjectedSame DEF Quiet
    <2> QED  BY <1>1, <1>2, <1>4, <2>3, ProjectionFrom DEF End
<1>5. CASE Stop(s)
    <2>1. s \notin settled' /\ s \notin running'
        BY <1>5 DEF Stop
    <2> QED  BY <1>1, <1>2, <1>5, <2>1, ProjectionFrom DEF Stop, Quiet
<1> QED  BY <1>3, <1>4, <1>5

\* A change leaves the session a root event to come, or a subagent that is to
\* return its files first.
LEMMA ProjectionChange ==
    ASSUME Ledger, ProjectionInv, NEW s \in Sessions,
           \/ (\E p \in Files : Write(s, p)) \/ (\E n \in Names : ToolWrite(s, n))
           \/ \E j \in Subagents : Delegate(s, j) \/ SubagentEvent(s, j) \/ Return(s, j)
           \/ \E j \in Subagents, p \in Files : SubagentWrite(s, j, p)
    PROVE  ProjectionInv'
<1> USE DEF ProjectionInv
<1>1. /\ outages' \in Nat /\ s \in running
      /\ fresh' \in {fresh, fresh \cup {s}}
      /\ UNCHANGED <<running, settled, missed>>
    <2>1. ASSUME NEW p \in Files, Write(s, p)
          PROVE  <1>1!1 /\ <1>1!2 /\ <1>1!3
        BY <2>1 DEF Write
    <2>4. ASSUME NEW n \in Names, ToolWrite(s, n)
          PROVE  <1>1!1 /\ <1>1!2 /\ <1>1!3
        BY <2>4 DEF ToolWrite
    <2>2. ASSUME NEW j \in Subagents, Delegate(s, j) \/ SubagentEvent(s, j) \/ Return(s, j)
          PROVE  <1>1!1 /\ <1>1!2 /\ <1>1!3
        BY <2>2 DEF Delegate, SubagentEvent, Return, Project
    <2>3. ASSUME NEW j \in Subagents, NEW p \in Files, SubagentWrite(s, j, p)
          PROVE  <1>1!1 /\ <1>1!2 /\ <1>1!3
        BY <2>3 DEF SubagentWrite, Project
    <2> QED  BY <2>1, <2>2, <2>3, <2>4
<1>2. \A t \in Sessions \ {s} : channel'[t] = channel[t] /\ copies'[t] = copies[t]
    BY DEF Write, ToolWrite, Delegate, Return, SubagentWrite, SubagentEvent, Ledger
<1>3. /\ DOMAIN rows \subseteq DOMAIN rows'
      /\ \A k \in DOMAIN rows : rows'[k] = rows[k] \/ rows'[k].by = s
    <2>1. ASSUME NEW n \in Names, ToolWrite(s, n)
          PROVE  <1>3!1 /\ <1>3!2
        BY <2>1 DEF ToolWrite, Over
    <2>2. ASSUME NEW j \in Subagents,
                 SubagentEvent(s, j) \/ \E p \in Files : SubagentWrite(s, j, p)
          PROVE  <1>3!1 /\ <1>3!2
        <3>1. \E files : rows' = rows \/ rows' \in Upserts(s, files)
            BY <2>2 DEF SubagentWrite, SubagentEvent, Project
        <3> QED  BY <3>1, UpsertedRows
    <2>3. rows' = rows \/ (\E n \in Names : ToolWrite(s, n))
            \/ \E j \in Subagents : SubagentEvent(s, j) \/ \E p \in Files : SubagentWrite(s, j, p)
        BY DEF Write, Delegate, Return
    <2> QED  BY <2>1, <2>2, <2>3
<1>4. ~Quiet(s)'
    <2>1. s \in fresh' \/ copies'[s] # Empty
        <3>1. ASSUME NEW j \in Subagents, j \in DOMAIN copies'[s]
              PROVE  copies'[s] # Empty
            BY <3>1 DEF Empty
        <3>2. ASSUME NEW j \in Subagents, Delegate(s, j)
              PROVE  j \in DOMAIN copies'[s]
            BY <3>2 DEF Delegate, Over, Ledger
        <3>3. ASSUME NEW j \in Subagents, NEW p \in Files, SubagentWrite(s, j, p)
              PROVE  j \in DOMAIN copies'[s]
            BY <3>3 DEF SubagentWrite, Ledger
        <3>5. ASSUME NEW j \in Subagents, SubagentEvent(s, j)
              PROVE  j \in DOMAIN copies'[s]
            BY <3>5 DEF SubagentEvent
        <3>4. \/ s \in fresh' \/ \E j \in Subagents : Delegate(s, j) \/ SubagentEvent(s, j)
              \/ \E j \in Subagents, p \in Files : SubagentWrite(s, j, p)
            BY DEF Write, ToolWrite, Return
        <3> QED  BY <3>1, <3>2, <3>3, <3>4, <3>5
    <2> QED  BY <2>1 DEF Quiet
<1>5. s \notin settled'
    BY <1>1
<1> QED  BY <1>1, <1>2, <1>3, <1>4, <1>5, ProjectionFrom

\* RootValuesHandler: what is projected is what the session holds, whatever was
\* projected for its subagents before.
LEMMA ProjectionRootEvent ==
    ASSUME Ledger, NotedInv, ProjectionInv, NEW s \in Sessions, RootEvent(s)
    PROVE  ProjectionInv'
<1> USE DEF ProjectionInv
<1>1. /\ s \in running /\ fresh' = fresh \ {s}
      /\ UNCHANGED <<channel, running, copies, settled>>
      /\ missed' = IF outages' = outages THEN missed \ {s} ELSE missed \cup {s}
      /\ Project(s, Noted(s))
    BY DEF RootEvent
<1>2. outages' \in Nat
    BY <1>1 DEF Project
<1>3. /\ DOMAIN rows \subseteq DOMAIN rows'
      /\ \A k \in DOMAIN rows : rows'[k] = rows[k] \/ rows'[k].by = s
    BY <1>1, UpsertedRows DEF Project
<1>4. ASSUME Quiet(s)' PROVE Projected(s)'
    <2>1. rows' \in Upserts(s, Noted(s)) /\ copies[s] = Empty
        BY <1>1, <1>2, <1>4 DEF Quiet, Project
    <2>2. DOMAIN Noted(s) = DOMAIN channel[s] /\ \A q \in DOMAIN channel[s] : Noted(s)[q] = channel[s][q]
        <3>1. DOMAIN last[s] \subseteq DOMAIN channel[s]
            BY <2>1 DEF NotedInv, Empty
        <3> QED  BY <3>1 DEF Noted, Over
    <2>3. SUFFICES ASSUME NEW p \in DOMAIN channel[s]
                   PROVE  /\ <<ScopeKey(s, Name(p)), Name(p)>> \in DOMAIN rows'
                          /\ Held(s, p, rows'[<<ScopeKey(s, Name(p)), Name(p)>>].content)
        BY <1>1 DEF Projected, ScopeKey, Builder, Held
    <2> DEFINE k == <<ScopeKey(s, Name(p)), Name(p)>>
    <2>4. /\ k \in DOMAIN rows'
          /\ \E q \in DOMAIN Noted(s) : Name(q) = Name(p) /\ rows'[k].content = Noted(s)[q]
        BY <2>1, <2>2, UpsertedRows
    <2> HIDE DEF k
    <2>5. Held(s, p, rows'[k].content)
        BY <2>2, <2>4 DEF Held
    <2> QED  BY <2>4, <2>5 DEF k
<1>5. s \notin settled'
    BY <1>1
<1> QED  BY <1>1, <1>2, <1>3, <1>4, <1>5, ProjectionFrom

\* Whatever a turn notes it has from its channel or from a subagent.
LEMMA NotedStep == Ledger /\ NotedInv /\ [Next]_vars => NotedInv'
<1> SUFFICES ASSUME Ledger, NotedInv, [Next]_vars PROVE NotedInv'
    OBVIOUS
<1>1. ASSUME NEW s \in Sessions,
             \A t \in Sessions \ {s} : /\ last'[t] = last[t] /\ channel'[t] = channel[t]
                                       /\ copies'[t] = copies[t],
             \A p \in DOMAIN last'[s] :
                 p \in DOMAIN channel'[s] \/ \E k \in DOMAIN copies'[s] : p \in DOMAIN copies'[s][k]
      PROVE  NotedInv'
    BY <1>1 DEF NotedInv
<1>2. ASSUME NEW s \in Sessions, NEW p \in Files, Write(s, p)
      PROVE  NotedInv'
    <2>1. /\ channel' = [channel EXCEPT ![s] = Over([q \in {p} |-> NewContent], channel[s])]
          /\ UNCHANGED <<last, copies>>
        BY <1>2 DEF Write
    <2>2. DOMAIN channel[s] \subseteq DOMAIN channel'[s]
        BY <2>1 DEF Over, Ledger
    <2>3. \A t \in Sessions \ {s} : channel'[t] = channel[t]
        BY <2>1 DEF Ledger
    <2> QED  BY <1>1, <2>1, <2>2, <2>3 DEF NotedInv
<1>3. ASSUME NEW s \in Sessions, NEW n \in Names, ToolWrite(s, n)
      PROVE  NotedInv'
    BY <1>3 DEF ToolWrite, NotedInv
<1>4. ASSUME NEW s \in Sessions, NEW j \in Subagents, Delegate(s, j)
      PROVE  NotedInv'
    <2>1. /\ j \notin DOMAIN copies[s]
          /\ copies' = [copies EXCEPT ![s] = Over([i \in {j} |-> channel[s]], copies[s])]
          /\ UNCHANGED <<last, channel>>
        BY <1>4 DEF Delegate
    <2>2. \A k \in DOMAIN copies[s] : k \in DOMAIN copies'[s] /\ copies'[s][k] = copies[s][k]
        BY <2>1 DEF Over, Ledger
    <2>3. \A t \in Sessions \ {s} : copies'[t] = copies[t]
        BY <2>1 DEF Ledger
    <2> QED  BY <1>1, <2>1, <2>2, <2>3 DEF NotedInv
<1>5. ASSUME NEW s \in Sessions, NEW j \in Subagents, SubagentEvent(s, j)
      PROVE  NotedInv'
    <2>1. /\ j \in DOMAIN copies[s]
          /\ last' = [last EXCEPT ![s] = Over(copies[s][j], last[s])]
          /\ UNCHANGED <<channel, copies>>
        BY <1>5 DEF SubagentEvent
    <2>2. DOMAIN last'[s] = DOMAIN copies[s][j] \cup DOMAIN last[s]
        BY <2>1 DEF Over, Ledger
    <2>3. \A t \in Sessions \ {s} : last'[t] = last[t]
        BY <2>1 DEF Ledger
    <2> QED  BY <1>1, <2>1, <2>2, <2>3 DEF NotedInv
<1>6. ASSUME NEW s \in Sessions, NEW j \in Subagents, NEW p \in Files, SubagentWrite(s, j, p)
      PROVE  NotedInv'
    <2> DEFINE files == Over([q \in {p} |-> NewContent], copies[s][j])
    <2>1. /\ j \in DOMAIN copies[s]
          /\ last' = [last EXCEPT ![s] = Over(files, last[s])]
          /\ copies' = [copies EXCEPT ![s][j] = files]
          /\ UNCHANGED channel
        BY <1>6 DEF SubagentWrite
    <2>2. DOMAIN last'[s] = DOMAIN files \cup DOMAIN last[s]
        BY <2>1 DEF Over, Ledger
    <2>3. /\ DOMAIN copies'[s] = DOMAIN copies[s] /\ copies'[s][j] = files
          /\ \A k \in DOMAIN copies[s] \ {j} : copies'[s][k] = copies[s][k]
        <3> HIDE DEF files
        <3> QED  BY <2>1 DEF Ledger
    <2>4. DOMAIN copies[s][j] \subseteq DOMAIN files
        BY DEF Over
    <2>5. \A t \in Sessions \ {s} : last'[t] = last[t] /\ copies'[t] = copies[t]
        BY <2>1 DEF Ledger
    <2> HIDE DEF files
    <2>6. ASSUME NEW q \in DOMAIN last'[s]
          PROVE  q \in DOMAIN channel'[s] \/ \E k \in DOMAIN copies'[s] : q \in DOMAIN copies'[s][k]
        <3>1. CASE q \in DOMAIN files
            BY <2>1, <2>3, <3>1
        <3>2. CASE q \in DOMAIN last[s] /\ q \notin DOMAIN channel[s]
            <4>1. PICK k \in DOMAIN copies[s] : q \in DOMAIN copies[s][k]
                BY <3>2 DEF NotedInv
            <4> QED  BY <2>1, <2>3, <2>4, <4>1
        <3> QED  BY <2>1, <2>2, <2>6, <3>1, <3>2
    <2> QED  BY <1>1, <2>1, <2>5, <2>6
<1>7. ASSUME NEW s \in Sessions, NEW j \in Subagents, Return(s, j)
      PROVE  NotedInv'
    <2>1. /\ j \in DOMAIN copies[s]
          /\ channel' = [channel EXCEPT ![s] = Over(copies[s][j], channel[s])]
          /\ copies' = [copies EXCEPT ![s] = Restrict(copies[s], DOMAIN copies[s] \ {j})]
          /\ UNCHANGED last
        BY <1>7 DEF Return
    <2>2. DOMAIN channel'[s] = DOMAIN copies[s][j] \cup DOMAIN channel[s]
        BY <2>1 DEF Over, Ledger
    <2>3. \A k \in DOMAIN copies[s] \ {j} : k \in DOMAIN copies'[s] /\ copies'[s][k] = copies[s][k]
        BY <2>1 DEF Restrict, Ledger
    <2>4. \A t \in Sessions \ {s} : channel'[t] = channel[t] /\ copies'[t] = copies[t]
        BY <2>1 DEF Ledger
    <2>5. ASSUME NEW q \in DOMAIN last'[s]
          PROVE  q \in DOMAIN channel'[s] \/ \E k \in DOMAIN copies'[s] : q \in DOMAIN copies'[s][k]
        <3>1. CASE q \in DOMAIN channel[s]
            BY <2>2, <3>1
        <3>2. CASE q \notin DOMAIN channel[s]
            <4>1. PICK k \in DOMAIN copies[s] : q \in DOMAIN copies[s][k]
                BY <2>1, <3>2 DEF NotedInv
            <4> QED  BY <2>2, <2>3, <4>1
        <3> QED  BY <3>1, <3>2
    <2>6. \A t \in Sessions \ {s} : last'[t] = last[t]
        BY <2>1
    <2> QED  BY <1>1, <2>4, <2>5, <2>6
<1>8. ASSUME NEW s \in Sessions, RootEvent(s)
      PROVE  NotedInv'
    <2>1. /\ last' = [last EXCEPT ![s] = Over(channel[s], last[s])]
          /\ UNCHANGED <<channel, copies>>
        BY <1>8 DEF RootEvent
    <2>2. DOMAIN last'[s] = DOMAIN channel[s] \cup DOMAIN last[s]
        BY <2>1 DEF Over, Ledger
    <2>3. \A t \in Sessions \ {s} : last'[t] = last[t]
        BY <2>1 DEF Ledger
    <2> QED  BY <1>1, <2>1, <2>2, <2>3 DEF NotedInv
<1>9. ASSUME NEW s \in Sessions, End(s) \/ Stop(s)
      PROVE  NotedInv'
    <2>1. last'[s] = Empty /\ UNCHANGED channel
        BY <1>9 DEF End, Stop, Ledger
    <2>2. \A t \in Sessions \ {s} : last'[t] = last[t] /\ copies'[t] = copies[t]
        BY <1>9 DEF End, Stop, Ledger
    <2>3. DOMAIN last'[s] = {}
        BY <2>1 DEF Empty
    <2> QED  BY <1>1, <2>1, <2>2, <2>3
<1>10. ASSUME UNCHANGED <<channel, last, copies>>
       PROVE  NotedInv'
    BY <1>10 DEF NotedInv
<1>11. CASE UNCHANGED vars
    BY <1>10, <1>11 DEF vars
<1>12. ASSUME NEW s \in Sessions, Begin(s)
       PROVE  NotedInv'
    BY <1>10, <1>12 DEF Begin
<1> QED  BY <1>2, <1>3, <1>4, <1>5, <1>6, <1>7, <1>8, <1>9, <1>11, <1>12 DEF Next, Edit

LEMMA ProjectionStep == Ledger /\ NotedInv /\ ProjectionInv /\ [Next]_vars => ProjectionInv'
<1> SUFFICES ASSUME Ledger, NotedInv, ProjectionInv, [Next]_vars PROVE ProjectionInv'
    OBVIOUS
<1>1. CASE UNCHANGED vars
    BY <1>1, ProjectedSame DEF vars, ProjectionInv, Quiet
<1>2. ASSUME NEW s \in Sessions,
             (\E p \in Files : Write(s, p) \/ Edit(s, p)) \/ \E n \in Names : ToolWrite(s, n)
      PROVE  ProjectionInv'
    BY <1>2, ProjectionChange DEF Edit
<1>3. ASSUME NEW s \in Sessions, NEW j \in Subagents,
             \/ Delegate(s, j) \/ SubagentEvent(s, j) \/ Return(s, j)
             \/ \E p \in Files : SubagentWrite(s, j, p)
      PROVE  ProjectionInv'
    BY <1>3, ProjectionChange
<1> QED  BY <1>1, <1>2, <1>3, ProjectionTurn, ProjectionRootEvent DEF Next

LEMMA ProjectionHolds == Spec => [](NotedInv /\ ProjectionInv)
<1>1. Init => NotedInv /\ ProjectionInv
    BY ProjectionInit DEF Init, NotedInv, Empty
<1>2. Ledger /\ NotedInv /\ ProjectionInv /\ [Next]_vars => (NotedInv /\ ProjectionInv)'
    BY NotedStep, ProjectionStep
<1> QED  BY <1>1, <1>2, LedgerHolds, PTL DEF Spec

\* A turn that ended without a refusal of its last event has its session's
\* files in the database, for any subagents and sessions beside it
\* (RootValuesHandler, write_agent_output_files): where two of its files have
\* one row, with what one of them holds.
THEOREM LeftInDatabase == Spec => []TurnProjected
<1>1. ProjectionInv => TurnProjected
    BY DEF ProjectionInv, TurnProjected, Projected, Held
<1> QED  BY <1>1, ProjectionHolds, PTL

\* The files are typed, and a turn that runs is not settled, for any sessions.
THEOREM TypeCorrect == Spec => []TypeOK
<1> DEFINE Known == missed \subseteq Sessions
<1>1. Init => Known
    BY DEF Init
<1>2. Known /\ [Next]_vars => Known'
    BY ZenonT(60)
       DEF Next, Begin, Write, Edit, ToolWrite, Delegate, SubagentWrite, SubagentEvent, Return,
           RootEvent, End, Stop, vars
<1>3. Ledger /\ ProjectionInv /\ Known => TypeOK
    BY DEF Ledger, ProjectionInv, TypeOK, Owned, Keyed
<1> QED  BY <1>1, <1>2, <1>3, LedgerHolds, ProjectionHolds, PTL DEF Spec
=============================================================================
