------------------------------ MODULE FileServer ------------------------------
(***************************************************************************)
(* aiocoap's file server (cli/fileserver.py): files read block by block,   *)
(* written as a whole under conditions, deleted, and observed by looking   *)
(* at them every 10 seconds.                                               *)
(*                                                                         *)
(* A handler never awaits, so requests are rendered one at a time; other   *)
(* processes of the host may change the files between any two of its       *)
(* system calls.  A version is the content that one write gave a file; the *)
(* time stamps of two writes differ (what hash_stat expects of a change),  *)
(* so that a version is what stat and an ETag tell of it.                  *)
(***************************************************************************)
EXTENDS Integers, Sequences, FiniteSets

CONSTANTS
  Readers,     \* the clients
  Initially,   \* per path, the kind of what is there
  MaxVersion,  \* a bound on the writes
  FileScenes   \* each says if --write is given, what each client may ask for, if the disk fills up
               \* and if the server ends, and bounds what other processes do

VARIABLES
  mode,
  file,     \* per path, what is there
  version,  \* the last that was written
  spool,    \* the temporary files in the directories
  watched,  \* _observations: per path, the version last seen, and who is called back
  refresh,  \* the task of check_files_for_refreshes
  handler,  \* the request being rendered
  reader,   \* per client, what it has been told
  misled    \* history: writes whose condition did not hold of what they replaced

fileVars == <<mode, file, version, spool, watched, refresh, handler, reader, misled>>

FilePaths == DOMAIN Initially
\* An operation: its method and path, whether that ends in a slash, the block, whether it observes
\* or has the client's last ETag with it, its condition, the ETag of either, and the size of its
\* body in blocks.
Request(method, path) ==
  [method |-> method, path |-> path, slash |-> FALSE, block |-> 0, observe |-> FALSE,
   etags |-> FALSE, condition |-> "none", known |-> 0, size |-> 1]

Unseen == 0  \* last_stat is None
Absent == [kind |-> "none", version |-> 0, size |-> 0]
NoHandler == [step |-> "idle", by |-> "none", ask |-> Request("none", "none"), again |-> FALSE,
              etag |-> 0, data |-> 0, more |-> FALSE, crossed |-> FALSE]
Ignorant == [of |-> "none", etag |-> 0, body |-> <<>>, whole |-> FALSE, crossed |-> FALSE,
             observes |-> Request("none", "none"), shown |-> 0, blind |-> FALSE,
             triggered |-> FALSE]

InitFiles ==
  /\ mode \in FileScenes
  /\ file = [p \in FilePaths |-> IF Initially[p] = "none" THEN Absent
                               ELSE [kind |-> Initially[p], version |-> 1, size |-> 2]]
  /\ version = 1
  /\ spool = {}
  /\ watched = [p \in FilePaths |-> [last |-> Unseen, callbacks |-> {}]]
  /\ refresh = "alive"
  /\ handler = NoHandler
  /\ reader = [c \in Readers |-> Ignorant]
  /\ misled = {}

At(step) == handler.step = step
Ask == handler.ask
Here == file[Ask.path]
Exists(p) == file[p].kind # "none"
Observing(c) == reader[c].observes.method # "none"
Steps(step) == handler' = [handler EXCEPT !.step = step]

\* What ends a rendering: its client has a response.  One that is not successful, or for which
\* nothing was accepted, ends an observation (_render_to_pipe); Last says what is known then.
Stops(c) ==
  watched' = [p \in FilePaths |-> [watched[p] EXCEPT !.callbacks = @ \ {c}]]
Respond(known) ==
  /\ handler' = NoHandler
  /\ reader' = [reader EXCEPT ![handler.by] = known]
Me == reader[handler.by]
Unobserved(known) ==
  [known EXCEPT !.observes = Request("none", "none"), !.triggered = FALSE, !.blind = FALSE]
Refused ==
  /\ IF Ask.observe THEN Stops(handler.by) /\ Respond(Unobserved(Me))
     ELSE UNCHANGED watched /\ Respond(Me)
  /\ UNCHANGED <<mode, file, version, spool, refresh, misled>>

-----------------------------------------------------------------------------
\* A request arrives.  The name must be one of a file below the root; one that observes is noted
\* before it is rendered, whatever it is for.
Tagged(ask) == ask.etags \/ ask.condition = "match"
Sensible(c, ask) ==
  /\ ask.observe => ~Observing(c)
  /\ Tagged(ask) => reader[c].etag # 0 /\ reader[c].of = ask.path
  /\ ask.block > 0 =>
       reader[c].of = ask.path /\ ~reader[c].whole /\ Len(reader[c].body) = ask.block
  /\ ask.method = "PUT" => version + mode.locals < MaxVersion
Arrive(c, ask) ==
  /\ At("idle") /\ refresh # "stopped" /\ Sensible(c, ask)
  /\ handler' = [NoHandler EXCEPT !.step = ask.method, !.by = c,
                   !.ask = [ask EXCEPT !.known = IF Tagged(ask) THEN reader[c].etag ELSE 0]]
  /\ IF ask.observe /\ ask.path \in FilePaths
       THEN /\ watched' = [watched EXCEPT ![ask.path].callbacks = @ \cup {c}]
            /\ reader' = [reader EXCEPT ![c].observes = handler'.ask]
       ELSE UNCHANGED <<watched, reader>>
  /\ UNCHANGED <<mode, file, version, spool, refresh, misled>>
\* A trigger has the request of the observation rendered again.
Notify(c) ==
  /\ At("idle") /\ reader[c].triggered
  /\ reader' = [reader EXCEPT ![c].triggered = FALSE]
  /\ handler' = [NoHandler EXCEPT !.step = "GET", !.by = c, !.ask = reader[c].observes, !.again = TRUE]
  /\ UNCHANGED <<mode, file, version, spool, watched, refresh, misled>>
\* The client has no more interest: the callback is removed, the path stays.
Leave(c) ==
  /\ At("idle") /\ Observing(c)
  /\ Stops(c)
  /\ reader' = [reader EXCEPT ![c] = Unobserved(@)]
  /\ UNCHANGED <<mode, file, version, spool, refresh, handler, misled>>

\* request_to_localpath, and a method on what is not a file to be written.
Misplaced ==
  /\ handler.step \in {"GET", "PUT", "DELETE"}
  /\ \/ Ask.path = "outside"
     \/ Ask.method # "GET" /\ (~mode.write \/ Ask.slash)
  /\ Refused
\* The link to the index, without looking at any file.
GetCore ==
  /\ At("GET") /\ Ask.path = "core"
  /\ Respond(Me)
  /\ UNCHANGED <<mode, file, version, spool, watched, refresh, misled>>

\* render_get: stat, and what it decides.
Valid == Ask.etags /\ Ask.known = Here.version
GetNothing == At("GET") /\ Ask.path \in FilePaths /\ ~Exists(Ask.path) /\ Refused
GetValid ==
  /\ At("GET") /\ Ask.path \in FilePaths /\ Exists(Ask.path) /\ Valid
  /\ Respond(IF Ask.observe
               THEN [Me EXCEPT !.shown = Here.version,
                               !.blind = @ \/ watched[Ask.path].last = Unseen]
               ELSE Me)
  /\ UNCHANGED <<mode, file, version, spool, watched, refresh, misled>>
\* A directory is listed (an observation of it is accepted all the same); a directory without and a
\* file with a trailing slash are not served, and what is neither leaves no response to return.
GetDirectory ==
  /\ At("GET") /\ Ask.path \in FilePaths /\ Here.kind = "directory" /\ ~Valid /\ Ask.slash
  /\ Respond([Me EXCEPT !.of = Ask.path, !.etag = Here.version, !.body = <<>>, !.whole = FALSE])
  /\ UNCHANGED <<mode, file, version, spool, watched, refresh, misled>>
GetMisnamed ==
  /\ At("GET") /\ Ask.path \in FilePaths /\ ~Valid
  /\ \/ Here.kind = "directory" /\ ~Ask.slash
     \/ Here.kind = "file" /\ Ask.slash
     \/ Here.kind = "special"
  /\ Refused
Stat ==
  /\ At("GET") /\ Ask.path \in FilePaths /\ ~Valid
  /\ Here.kind = "file" /\ ~Ask.slash
  /\ handler' = [handler EXCEPT !.step = "open", !.etag = Here.version]
  /\ UNCHANGED <<mode, file, version, spool, watched, refresh, reader, misled>>
\* render_get_file: the file is opened, and a block of it read.
OpenFails ==
  /\ At("open") /\ Here.kind # "file"
  /\ Refused
Read ==
  /\ At("open") /\ Here.kind = "file"
  /\ handler' = [handler EXCEPT !.step = "look", !.data = Here.version,
                                !.more = Here.size > Ask.block + 1]
  /\ UNCHANGED <<mode, file, version, spool, watched, refresh, reader, misled>>
\* An observation that nothing is known for begins with the state after the reading.
\* Mutant: whatever was known.
LooksAlways == watched[Ask.path].callbacks # {}
LooksAgain == watched[Ask.path].callbacks # {} /\ watched[Ask.path].last = Unseen
LookAgain ==
  /\ At("look") /\ LooksAgain
  /\ \/ /\ Exists(Ask.path)
        /\ watched' = [watched EXCEPT ![Ask.path].last = Here.version]
        /\ Steps("answer")
        /\ UNCHANGED <<mode, file, version, spool, refresh, reader, misled>>
     \/ ~Exists(Ask.path) /\ Refused
LookNot ==
  /\ At("look") /\ ~LooksAgain
  /\ Steps("answer")
  /\ UNCHANGED <<mode, file, version, spool, watched, refresh, reader, misled>>
\* The client puts blocks together as long as they have one ETag (protocol.py's blockwise requests).
Assembled ==
  IF Ask.block = 0 THEN <<handler.data>>
  ELSE IF Me.etag = handler.etag THEN Append(Me.body, handler.data) ELSE <<>>
Answer ==
  /\ At("answer")
  /\ Respond([Me EXCEPT !.of = Ask.path, !.etag = handler.etag, !.body = Assembled,
                        !.whole = ~handler.more /\ Len(Assembled) = Ask.block + 1,
                        !.crossed = handler.crossed \/ (Ask.block > 0 /\ @),
                        !.shown = IF Ask.observe THEN handler.data ELSE @,
                        !.blind = @ \/ (Ask.observe /\ handler.crossed)])
  /\ UNCHANGED <<mode, file, version, spool, watched, refresh, misled>>

-----------------------------------------------------------------------------
\* If-None-Match and If-Match, where they hold.
Fulfilled ==
  /\ Ask.condition = "absent" => ~Exists(Ask.path)
  /\ Ask.condition = "match" => Exists(Ask.path) /\ Here.version = Ask.known
Writing == handler.step \in {"PUT", "DELETE"} /\ Ask.path \in FilePaths /\ mode.write /\ ~Ask.slash
PreconditionFails == Writing /\ ~Fulfilled /\ Refused
Checked ==
  /\ Writing /\ Fulfilled
  /\ Steps(IF Ask.method = "PUT" THEN "spool" ELSE "unlink")
  /\ UNCHANGED <<mode, file, version, spool, watched, refresh, reader, misled>>

\* The body goes to a temporary file; one that is not written completely is left behind.
Spool ==
  /\ At("spool")
  /\ version' = version + 1
  /\ spool' = spool \cup {version + 1}
  /\ handler' = [handler EXCEPT !.step = "rename", !.data = version + 1]
  /\ UNCHANGED <<mode, file, watched, refresh, reader, misled>>
SpoolFails ==
  /\ At("spool") /\ mode.full
  /\ version' = version + 1
  /\ spool' = spool \cup {version + 1}
  /\ Respond(Me)
  /\ UNCHANGED <<mode, file, watched, refresh, misled>>
\* And is renamed, which replaces what is there in one step, or fails.
Intended ==
  /\ Ask.condition = "match" => file[Ask.path].version = reader[handler.by].etag
  /\ Ask.condition = "absent" => file[Ask.path].kind = "none"
Judged == misled' = IF Intended THEN misled ELSE misled \cup {[crossed |-> handler.crossed]}
Rename ==
  /\ At("rename") /\ Here.kind # "directory"
  /\ file' = [file EXCEPT ![Ask.path] = [kind |-> "file", version |-> handler.data, size |-> Ask.size]]
  /\ spool' = spool \ {handler.data}
  /\ Judged
  /\ Steps("stat")
  /\ UNCHANGED <<mode, version, watched, refresh, reader>>
RenameFails ==
  /\ At("rename") /\ Here.kind = "directory"
  /\ spool' = spool \ {handler.data}
  /\ Respond(Me)
  /\ UNCHANGED <<mode, file, version, watched, refresh, misled>>
\* The ETag of what is there then.
StatNew ==
  /\ At("stat")
  /\ Respond(IF Exists(Ask.path)
               THEN [Me EXCEPT !.of = Ask.path, !.etag = Here.version, !.body = <<>>,
                               !.whole = FALSE]
               ELSE Me)
  /\ UNCHANGED <<mode, file, version, spool, watched, refresh, misled>>
\* render_delete.
Unlink ==
  /\ At("unlink")
  /\ IF Here.kind \in {"none", "directory"} THEN UNCHANGED <<file, misled>>
     ELSE file' = [file EXCEPT ![Ask.path] = Absent] /\ Judged
  /\ Respond(Me)
  /\ UNCHANGED <<mode, version, spool, watched, refresh>>

-----------------------------------------------------------------------------
\* check_files_for_refreshes, every 10 s: what changed is noted, and told.
Changed == {p \in FilePaths : watched[p].last # Unseen /\ file[p].version # watched[p].last}
Gone == {p \in FilePaths : watched[p].last # Unseen /\ ~Exists(p)}
Check ==
  /\ At("idle") /\ refresh = "alive" /\ Gone = {} /\ Changed # {}
  /\ watched' = [p \in FilePaths |->
                   IF p \in Changed THEN [watched[p] EXCEPT !.last = file[p].version] ELSE watched[p]]
  /\ reader' = [c \in Readers |->
                  [reader[c] EXCEPT !.triggered = @ \/ \E p \in Changed : c \in watched[p].callbacks]]
  /\ UNCHANGED <<mode, file, version, spool, refresh, handler, misled>>
\* For one that is not there any more there is no stat to compare, which ends the task; those before
\* it in the dictionary have been told.
CheckFails ==
  /\ At("idle") /\ refresh = "alive" /\ Gone # {}
  /\ refresh' = "dead"
  /\ \E told \in SUBSET (Changed \ Gone) :
       /\ watched' = [p \in FilePaths |->
                        IF p \in told THEN [watched[p] EXCEPT !.last = file[p].version] ELSE watched[p]]
       /\ reader' = [c \in Readers |->
                       [reader[c] EXCEPT !.triggered = @ \/ \E p \in told : c \in watched[p].callbacks]]
  /\ UNCHANGED <<mode, file, version, spool, handler, misled>>

\* Another process of the host writes or deletes a file, in a handler's way or not.
Local(p, there) ==
  /\ mode.locals > 0
  /\ file[p].kind \in {"none", "file"} /\ file[p] # there
  /\ mode' = [mode EXCEPT !.locals = @ - 1]
  /\ file' = [file EXCEPT ![p] = there]
  /\ version' = version + 1
  /\ handler' = IF At("idle") THEN handler ELSE [handler EXCEPT !.crossed = TRUE]
  /\ UNCHANGED <<spool, watched, refresh, reader, misled>>
LocalWrite(p) == Local(p, [kind |-> "file", version |-> version + 1, size |-> 2])
LocalDelete(p) == Local(p, Absent)

\* shutdown: the task is cancelled, and the context ends its requests.
Stop ==
  /\ At("idle") /\ refresh # "stopped" /\ mode.ends
  /\ refresh' = "stopped"
  /\ watched' = [p \in FilePaths |-> [watched[p] EXCEPT !.callbacks = {}]]
  /\ reader' = [c \in Readers |-> Unobserved(reader[c])]
  /\ UNCHANGED <<mode, file, version, spool, handler, misled>>

Rendering ==
  \/ Misplaced \/ GetCore \/ GetNothing \/ GetValid \/ GetDirectory \/ GetMisnamed
  \/ Stat \/ OpenFails \/ Read \/ LookAgain \/ LookNot \/ Answer
  \/ PreconditionFails \/ Checked \/ Spool \/ SpoolFails \/ Rename \/ RenameFails \/ StatNew \/ Unlink
NextFiles ==
  \/ Rendering
  \/ \E c \in Readers : \/ Notify(c) \/ Leave(c)
                        \/ \E ask \in mode.asks[c] : Arrive(c, ask)
  \/ Check \/ CheckFails \/ Stop
  \/ \E p \in FilePaths : LocalWrite(p) \/ LocalDelete(p)

-----------------------------------------------------------------------------
TypeOK ==
  /\ version \in 1..MaxVersion
  /\ spool \subseteq 1..MaxVersion
  /\ refresh \in {"alive", "dead", "stopped"}
  /\ \A c \in Readers : reader[c].etag \in 0..MaxVersion /\ reader[c].shown \in 0..MaxVersion
  /\ \A p \in FilePaths : watched[p].last \in 0..MaxVersion /\ watched[p].callbacks \subseteq Readers

\* Blocks of one ETag are blocks of one version, the one the ETag is of, unless another process
\* wrote while a block was read (fileserver.py:156 and 277).
BodyIntact ==
  \A c \in Readers : reader[c].whole /\ ~reader[c].crossed
    => \A i \in DOMAIN reader[c].body : reader[c].body[i] = reader[c].etag

\* A write replaces, and a deletion removes, only what its condition speaks of: no client undoes a
\* change it does not know of, unless another process comes between (fileserver.py:184, 191, 235).
NoLostChange == \A m \in misled : m.crossed

\* Who observes a file has been shown it as it is known to be, or is about to be, while the task
\* runs; save who was told at first that what it had is valid, and where a write crossed the first
\* reading (fileserver.py:107 and 281).
Told ==
  \A c \in Readers :
    (/\ Observing(c) /\ handler.by # c /\ refresh = "alive"
     /\ ~reader[c].blind
     /\ watched[reader[c].observes.path].last = file[reader[c].observes.path].version
     /\ file[reader[c].observes.path].kind = "file")
    => reader[c].triggered \/ reader[c].shown = file[reader[c].observes.path].version

\* Callbacks are those of the observations there are; temporary files go with their request, unless
\* the disk was full; and a request that has begun can go on.
CallbacksMatch ==
  At("idle") => \A p \in FilePaths :
    watched[p].callbacks = {c \in Readers : Observing(c) /\ reader[c].observes.path = p}
NothingLeft == At("idle") /\ ~mode.full => spool = {}
NeverStuck == At("idle") \/ ENABLED Rendering

FilesInv ==
  TypeOK /\ BodyIntact /\ NoLostChange /\ Told /\ CallbacksMatch /\ NothingLeft /\ NeverStuck
==============================================================================
