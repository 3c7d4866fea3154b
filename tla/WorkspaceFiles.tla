--------------------------- MODULE WorkspaceFiles ---------------------------
(***************************************************************************)
(* The files of sessions whose workspace is kept in the database.  Agents  *)
(* write to the files channel of their session's state; the handlers of    *)
(* the run's values events project it to agent_output_files; DBBackend     *)
(* reads the channel first and the rows of the session's scope after it.   *)
(*                                                                         *)
(* The rows are shared: builder sessions of an app key every file by the   *)
(* app, others only what is under .global/.  They are named without the    *)
(* path's root, so that two files of a channel may share one.  deepagents' *)
(* channel is external: a subagent works on a copy of its parent's files   *)
(* and returns all of them.                                                *)
(***************************************************************************)
EXTENDS Integers, Sequences, FiniteSets, Functions

CONSTANTS
    Sessions,       \* session ids
    Apps,           \* app ids
    Workspace,      \* the workspace id of each session: an app's or a session's
    App,            \* its app, or NoApp
    NoApp,
    Paths,          \* names of rows outside .global/
    Globals,        \* and under .global/
    Files,          \* the paths agents use: a root, and the row's name
    Subagents,      \* subagents of one session that may run at once
    MaxActive,      \* bound on the sessions that take part
    MaxWrites,      \* bound on the contents written
    MaxOutages      \* bound on projections the database refuses

\* A row's name is the path without its root.
Names == Paths \cup Globals

Roots == {"/workspace/", "/home/ubuntu/", "/"}

ASSUME ConstantsAssumption ==
    /\ Workspace \in [Sessions -> Apps \cup Sessions]
    /\ App \in [Sessions -> Apps \cup {NoApp}]
    /\ NoApp \notin Apps
    /\ Paths \cap Globals = {}
    /\ Files \subseteq Roots \X Names
    /\ {MaxActive, MaxWrites, MaxOutages} \subseteq Nat

\* The platform gives the ids: a session works in its own app's workspace or in
\* a session's, and no app has a session's id.
ASSUME ScopesAssumption ==
    /\ Sessions \cap Apps = {}
    /\ \A s \in Sessions : Workspace[s] \in Apps => Workspace[s] = App[s]

VARIABLES
    rows,       \* agent_output_files: scope key and name to content and session
    channel,    \* state["files"] of each session's thread
    running,    \* sessions with a turn
    last,       \* last_files of the turn's ExecutionState
    fresh,      \* sessions whose next root event carries new messages
    copies,     \* the files of each running subagent
    authors,    \* who wrote each content, by the content's number
    settled,    \* sessions whose last turn ended with everything projected
    missed,     \* sessions whose last root event was not projected
    outages

vars == <<rows, channel, running, last, fresh, copies, authors, settled, missed, outages>>

Name(p) == p[2]

\* _format_agent_path
AgentPath(n) == <<"/workspace/", n>>

Empty == [p \in {} |-> 0]

-----------------------------------------------------------------------------
(* Scopes *)

Builder(s) == App[s] # NoApp /\ Workspace[s] = App[s]

\* Mutated: every file of a session with an app is the app's.
ScopeKey_App(s, n) == IF App[s] # NoApp THEN App[s] ELSE s

\* _file_scope_key, and _scope_key of the CLI tools
ScopeKey(s, n) ==
    IF Builder(s) \/ (App[s] # NoApp /\ n \in Globals) THEN App[s] ELSE s

\* Mutated: the workspace's rows are listed whatever their path.
ListedKeys_Global(s) ==
    {<<k, n>> : k \in {s, Workspace[s]}, n \in Names}
        \cup (IF App[s] = NoApp THEN {} ELSE {App[s]} \X Globals)

\* _scope_condition: the rows that ls, glob and grep see.
ListedKeys(s) ==
    ({s, Workspace[s]} \X Paths) \cup (IF App[s] = NoApp THEN {} ELSE {App[s]} \X Globals)

\* The rows _query_db sees for one path: _normalize_db_path takes off the root
\* of the workspace only, and no row is named by any other.
ReadKeys(s, p) ==
    CASE p # AgentPath(Name(p)) -> {}
      [] p = AgentPath(Name(p)) /\ Name(p) \in Globals ->
            (IF App[s] = NoApp THEN {} ELSE {App[s]}) \X {Name(p)}
      [] OTHER -> {s, Workspace[s]} \X {Name(p)}

\* What _query_db may return: the row created last of those of the scope.
Stored(s, p) == {rows[k].content : k \in ReadKeys(s, p) \cap DOMAIN rows}

\* read: the channel, and the database only for a file that is not in it.
Reads(s, p) == IF p \in DOMAIN channel[s] THEN {channel[s][p]} ELSE Stored(s, p)

\* ls and glob
Listed(s) == DOMAIN channel[s] \cup {AgentPath(k[2]) : k \in ListedKeys(s) \cap DOMAIN rows}

\* grep for text of one content: the channel's matches, and those of the rows,
\* of which only a match on the same LINE of the same file is left out.
Greps(s, content) ==
    {p \in DOMAIN channel[s] : channel[s][p] = content}
        \cup {AgentPath(k[2]) :
                  k \in {k \in ListedKeys(s) \cap DOMAIN rows : rows[k].content = content}}

-----------------------------------------------------------------------------
(* Writing and projecting *)

Init ==
    /\ rows = Empty
    /\ channel = [s \in Sessions |-> Empty]
    /\ running = {}
    /\ last = [s \in Sessions |-> Empty]
    /\ fresh = {}
    /\ copies = [s \in Sessions |-> Empty]
    /\ authors = <<>>
    /\ settled = {}
    /\ missed = {}
    /\ outages = 0

\* New contents over old: the reducer of the channel, and dict.update.
Over(new, old) == [p \in DOMAIN new \cup DOMAIN old |-> IF p \in DOMAIN new THEN new[p] ELSE old[p]]

\* write_agent_output_files: an upsert of each file's row.  Of the files that
\* share one, the last of the dict stays, whichever that is.
Upserts(s, files) ==
    LET names == {Name(p) : p \in DOMAIN files}
        keys == {<<ScopeKey(s, n), n>> : n \in names}
    IN  {[k \in DOMAIN rows \cup keys |->
             IF k \in keys THEN [content |-> files[kept[k[2]]], by |-> s] ELSE rows[k]] :
            kept \in {f \in [names -> DOMAIN files] : \A n \in names : Name(f[n]) = n}}

\* A refused batch is logged and left out.
Project(s, files) ==
    \/ rows' \in Upserts(s, files) /\ UNCHANGED outages
    \/ outages < MaxOutages /\ outages' = outages + 1 /\ UNCHANGED rows

NewContent == Len(authors) + 1

Author(s) == Len(authors) < MaxWrites /\ authors' = Append(authors, s)

\* A turn begins with an ExecutionState of its own; the user's message is new.
Begin(s) ==
    /\ s \notin running
    /\ Cardinality(running \cup settled \cup missed \cup Range(authors) \cup {s}) <= MaxActive
    /\ running' = running \cup {s}
    /\ fresh' = fresh \cup {s}
    /\ settled' = settled \ {s}
    /\ UNCHANGED <<rows, channel, last, copies, authors, missed, outages>>

\* write_file of the agent itself
Write(s, p) ==
    /\ s \in running
    /\ Author(s)
    /\ channel' = [channel EXCEPT ![s] = Over([q \in {p} |-> NewContent], @)]
    /\ fresh' = fresh \cup {s}
    /\ UNCHANGED <<rows, running, last, copies, settled, missed, outages>>

\* edit: what the session reads, brought into the channel and changed.
Edit(s, p) == Reads(s, p) # {} /\ Write(s, p)

\* A tool of the command line writes the row itself (write_artifact_to_db).
ToolWrite(s, n) ==
    /\ s \in running
    /\ Author(s)
    /\ rows' = Over([k \in {<<ScopeKey(s, n), n>>} |-> [content |-> NewContent, by |-> s]], rows)
    /\ fresh' = fresh \cup {s}
    /\ UNCHANGED <<channel, running, last, copies, settled, missed, outages>>

\* The task tool: the subagent starts on the files as they are.
Delegate(s, k) ==
    /\ s \in running
    /\ k \notin DOMAIN copies[s]
    /\ copies' = [copies EXCEPT ![s] = Over([j \in {k} |-> channel[s]], @)]
    /\ UNCHANGED <<rows, channel, running, last, fresh, authors, settled, missed, outages>>

\* A subagent writes, and its values event: all its files are projected.
SubagentWrite(s, k, p) ==
    /\ s \in running
    /\ k \in DOMAIN copies[s]
    /\ Author(s)
    /\ LET files == Over([q \in {p} |-> NewContent], copies[s][k])
       IN  /\ copies' = [copies EXCEPT ![s][k] = files]
           /\ last' = [last EXCEPT ![s] = Over(files, @)]
           /\ Project(s, files)
    /\ UNCHANGED <<channel, running, fresh, settled, missed>>

\* A values event of a subagent projects its files again, those it was given
\* included.
SubagentEvent(s, k) ==
    /\ s \in running
    /\ k \in DOMAIN copies[s]
    /\ copies[s][k] # Empty
    /\ last' = [last EXCEPT ![s] = Over(copies[s][k], @)]
    /\ Project(s, copies[s][k])
    /\ UNCHANGED <<channel, running, fresh, copies, authors, settled, missed>>

\* Its result brings all its files into the session's channel.
Return(s, k) ==
    /\ s \in running
    /\ k \in DOMAIN copies[s]
    /\ channel' = [channel EXCEPT ![s] = Over(copies[s][k], @)]
    /\ copies' = [copies EXCEPT ![s] = Restrict(@, DOMAIN @ \ {k})]
    /\ fresh' = fresh \cup {s}
    /\ UNCHANGED <<rows, running, last, authors, settled, missed, outages>>

\* Mutated: the event's own files are noted only after they are projected.
Noted_Late(s) == last[s]

\* last_files once the event's files are in it
Noted(s) == Over(channel[s], last[s])

\* RootValuesHandler: only an event with new messages projects, and it
\* projects every file of the turn.
RootEvent(s) ==
    /\ s \in fresh
    /\ fresh' = fresh \ {s}
    /\ last' = [last EXCEPT ![s] = Over(channel[s], @)]
    /\ Project(s, Noted(s))
    /\ missed' = IF outages' = outages THEN missed \ {s} ELSE missed \cup {s}
    /\ UNCHANGED <<channel, running, copies, authors, settled>>

\* The stream is drained.
End(s) ==
    /\ s \in running \ fresh
    /\ copies[s] = Empty
    /\ running' = running \ {s}
    /\ last' = [last EXCEPT ![s] = Empty]
    /\ settled' = IF s \in missed THEN settled ELSE settled \cup {s}
    /\ UNCHANGED <<rows, channel, fresh, copies, authors, missed, outages>>

\* A stop leaves the channel as checkpointed, and drops the subagents.
Stop(s) ==
    /\ s \in running
    /\ running' = running \ {s}
    /\ fresh' = fresh \ {s}
    /\ copies' = [copies EXCEPT ![s] = Empty]
    /\ last' = [last EXCEPT ![s] = Empty]
    /\ UNCHANGED <<rows, channel, authors, settled, missed, outages>>

Next ==
    \E s \in Sessions :
        \/ Begin(s) \/ RootEvent(s) \/ End(s) \/ Stop(s)
        \/ \E p \in Files : Write(s, p) \/ Edit(s, p)
        \/ \E n \in Names : ToolWrite(s, n)
        \/ \E k \in Subagents :
              \/ Delegate(s, k) \/ SubagentEvent(s, k) \/ Return(s, k)
              \/ \E p \in Files : SubagentWrite(s, k, p)

Spec == Init /\ [][Next]_vars

-----------------------------------------------------------------------------
(* Properties *)

Contents == 1..MaxWrites

TypeOK ==
    /\ \A k \in DOMAIN rows : k[2] \in Names /\ rows[k] \in [content : Contents, by : Sessions]
    /\ \A s \in Sessions : DOMAIN channel[s] \subseteq Files /\ DOMAIN last[s] \subseteq Files
    /\ fresh \subseteq running
    /\ authors \in Seq(Sessions)
    /\ settled \subseteq Sessions \ running
    /\ missed \subseteq Sessions

\* What ls and glob show an agent it can read, and what it can read they show,
\* wherever the file is: in its channel, in its scope's rows, under .global/.
\* The queries that decide it are written apart.
ListedIsReadable == \A s \in Sessions : \A p \in Files : p \in Listed(s) <=> Reads(s, p) # {}

\* Whose files a session may see: its own, its app's globals, those of the
\* builder sessions of its app when it is one, those of its workspace's session.
Shares(s, t, n) ==
    \/ s = t
    \/ Workspace[s] = t
    \/ App[s] # NoApp /\ App[s] = App[t] /\ (n \in Globals \/ (Builder(s) /\ Builder(t)))

\* No session reads what a session outside its scope wrote, through the key the
\* projection chose and the query a reader makes of it.
ScopeIsolation ==
    \A s \in Sessions : \A p \in Files : \A c \in Reads(s, p) : Shares(s, authors[c], Name(p))

\* A turn that ended has projected its session's files, unless the database
\* refused its last event: each has its row, and where the session wrote it
\* last, with what its agents left in the file, or in another of its files that
\* has the same row (which of them is the order of a dict's).  Stale copies
\* projected for a subagent in the meantime are gone, and what an earlier
\* refusal left out is there.
TurnProjected ==
    \A s \in settled : \A p \in DOMAIN channel[s] :
        LET k == <<ScopeKey(s, Name(p)), Name(p)>>
        IN  /\ k \in DOMAIN rows
            /\ rows[k].by = s =>
                  \E q \in DOMAIN channel[s] :
                      Name(q) = Name(p) /\ rows[k].content = channel[s][q]

\* "deduplicated by file path": grep finds in a file only what read shows of it.
GrepAgreesWithRead ==
    \A s \in Sessions : \A c \in Contents : \A p \in Greps(s, c) : c \in Reads(s, p)

=============================================================================
