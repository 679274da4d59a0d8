---------------------------- MODULE EventStream ----------------------------
(***************************************************************************)
(* The path of an event from the engine to the screen: the workspace       *)
(* watcher and the agents' token streams publish into the daemon's         *)
(* broadcast list; the streaming server's push thread drains the list and  *)
(* writes every envelope to every connection; a terminal's LiveFeed thread *)
(* reads frames with a time-out and marshals each envelope onto the UI     *)
(* thread, where the panels apply it.                                      *)
(*                                                                         *)
(* A frame travels as two pieces (what a read has returned when it times   *)
(* out, and the rest), because a time-out between them loses the first.    *)
(***************************************************************************)
EXTENDS Integers, Sequences, FiniteSets, SequencesExt

CONSTANTS
    Feeds,      \* the terminals, each with one LiveFeed and one Bridge
    Paths,      \* the watched files
    Contents,   \* what a file can hold
    MaxInputs,  \* bound: changes to the workspace and tokens streamed
    SockBuf     \* frame pieces a socket buffers before sendall blocks

Absent == "absent"
Git    == "git"
NoOne  == "no connection"

\* Git stands for the repository's state and is not one of the files.
ASSUME StreamAssumption ==
    /\ MaxInputs \in Nat /\ SockBuf \in Nat \ {0}
    /\ IsFiniteSet(Paths) /\ Git \notin Paths

VARIABLES
    files,      \* the workspace: a file's content, and the git state under Git
    inputs,     \* changes made and tokens streamed so far
    watch,      \* the WorkspaceWatcher
    server,     \* the engine process: "down", "up", "gone"
    broadcast,  \* the daemon's _broadcast list
    push,       \* the push thread
    conns,      \* the server's _conns
    sock,       \* each terminal's connection: "none", "open", "closed", "eof"
    wire,       \* the pieces of frames under way to each terminal
    feed,       \* each LiveFeed and its reader thread
    ui,         \* each terminal's UI thread: "on", "unmounting", "gone"
    applied,    \* the envelopes each Bridge has applied, in order
    log,        \* every envelope published so far
    joined      \* how much of the log had been sent when a connection joined

workspaceVars == <<files, inputs>>
serverVars    == <<server, broadcast, push, conns, log, joined>>
netVars       == <<sock, wire>>
terminalVars  == <<feed, ui, applied>>
vars == <<workspaceVars, watch, serverVars, netVars, terminalVars>>

\* active_branch and uncommitted_count, as one value.
GitStates == {"clean", "dirty"}

Items == Paths \cup {Git}
Fingerprints ==
    {f \in [Items -> Contents \cup {Absent} \cup GitStates] :
        f[Git] \in GitStates /\ \A p \in Paths : f[p] \in Contents \cup {Absent}}

(* A token's length is the provider's choice, so its frame may exceed the   *)
(* limit of its type; paths and git states never do.                        *)
Tokens == [type : {"AGENT_TOKEN_STREAM"}, big : BOOLEAN]
FileChanges ==
    [type : {"FILE_CHANGE"}, path : Paths,
     change : {"created", "modified", "deleted"}]
GitUpdates == [type : {"GIT_STATUS_UPDATE"}, git : GitStates]

FrameTooLarge(e) == e.payload \in Tokens /\ e.payload.big

(* An engine may be built without a watcher ("absent"), and a terminal may  *)
(* never be opened ("gone").                                                *)
Init ==
    /\ files = [i \in Items |-> IF i = Git THEN "clean" ELSE Absent]
    /\ inputs = 0
    /\ watch \in [thread : {"none", "absent"}, primed : {FALSE},
                  prints : {files}, scan : {files}, todo : {<<>>}]
    /\ server = "down"
    /\ broadcast = <<>>
    /\ push = [thread |-> "none", batch |-> <<>>, copied |-> FALSE,
               targets |-> {}, at |-> NoOne, left |-> <<>>, half |-> FALSE]
    /\ conns = {}
    /\ sock = [f \in Feeds |-> "none"]
    /\ wire = [f \in Feeds |-> <<>>]
    /\ feed = [f \in Feeds |-> [pc |-> "off", stop |-> FALSE, torn |-> FALSE]]
    /\ ui \in [Feeds -> {"on", "gone"}]
    /\ applied = [f \in Feeds |-> <<>>]
    /\ log = <<>>
    /\ joined = [f \in Feeds |-> 0]

----------------------------------------------------------------------------
(* The publishers. daemon.publish appends under the broadcast lock.         *)

publish(payload) ==
    LET e == [n |-> Len(log) + 1, payload |-> payload] IN
    /\ broadcast' = Append(broadcast, e)
    /\ log' = Append(log, e)

\* StreamBridge.forward emits one envelope per chunk of the provider's stream.
StreamToken ==
    /\ server = "up" /\ inputs < MaxInputs
    /\ \E t \in Tokens : publish(t)
    /\ inputs' = inputs + 1
    /\ UNCHANGED <<files, watch, server, push, conns, joined, netVars,
                   terminalVars>>

\* An agent, an editor or git changes the workspace, if anyone is to notice.
Write(i, v) ==
    /\ server = "up" /\ inputs < MaxInputs /\ watch.thread # "absent"
    /\ v # files[i] /\ [files EXCEPT ![i] = v] \in Fingerprints
    /\ files' = [files EXCEPT ![i] = v]
    /\ inputs' = inputs + 1
    /\ UNCHANGED <<watch, serverVars, netVars, terminalVars>>

change_type(old, new) ==
    CASE old = Absent -> "created"
      [] new = Absent -> "deleted"
      [] OTHER        -> "modified"

\* Sorted by path in the code; any fixed order will do.
file_changes(old, new) ==
    LET changed == SetToSeq({p \in Paths : old[p] # new[p]})
    IN  [i \in DOMAIN changed |->
           [type |-> "FILE_CHANGE", path |-> changed[i],
            change |-> change_type(old[changed[i]], new[changed[i]])]]

git_change(old, new) ==
    IF old[Git] = new[Git] THEN <<>>
    ELSE <<[type |-> "GIT_STATUS_UPDATE", git |-> new[Git]]>>

(* start returns early while it remembers a thread, even a dead one. It is  *)
(* not called while a stopped thread is still in its last scan (nothing in  *)
(* the repository starts a watcher twice): two loops would share a baseline.*)
WatcherStart ==
    /\ server = "up" /\ watch.thread = "none" /\ watch.todo = <<>>
    /\ watch' = [watch EXCEPT !.thread = "run"]
    /\ UNCHANGED <<workspaceVars, serverVars, netVars, terminalVars>>

\* stop: its join is bounded, so a scan under way may emit after it returns.
WatcherStop ==
    /\ server = "up" /\ watch.thread \in {"run", "dead"}
    /\ watch' = [watch EXCEPT !.thread = "none"]
    /\ UNCHANGED <<workspaceVars, serverVars, netVars, terminalVars>>

(* scan_once up to its first envelope: the fingerprints, then git, which    *)
(* raises when the repository cannot be read and ends the loop's thread.    *)
(* The first scan only records the baseline.                                *)
ScanOnce ==
    /\ server = "up" /\ watch.thread = "run" /\ watch.todo = <<>>
    /\ \/ watch' = [watch EXCEPT !.thread = "dead"]
       \/ /\ ~watch.primed
          /\ watch' = [watch EXCEPT !.primed = TRUE, !.prints = files]
       \/ /\ watch.primed /\ files # watch.prints
          /\ watch' = [watch EXCEPT
                !.scan = files,
                !.todo = file_changes(watch.prints, files)
                           \o git_change(watch.prints, files)]
    /\ UNCHANGED <<workspaceVars, serverVars, netVars, terminalVars>>

\* Mutant of EmitChange: the baseline is read again after the envelopes.
EmitChangeRescan ==
    /\ server = "up" /\ watch.todo # <<>>
    /\ publish(Head(watch.todo))
    /\ watch' = [watch EXCEPT
          !.todo = Tail(@),
          !.prints = IF Len(watch.todo) = 1 THEN files ELSE @]
    /\ UNCHANGED <<workspaceVars, server, push, conns, joined, netVars,
                   terminalVars>>

\* _envelope; after the last one scan_once keeps what it saw as the baseline.
EmitChange ==
    /\ server = "up" /\ watch.todo # <<>>
    /\ publish(Head(watch.todo))
    /\ watch' = [watch EXCEPT
          !.todo = Tail(@),
          !.prints = IF Len(watch.todo) = 1 THEN watch.scan ELSE @]
    /\ UNCHANGED <<workspaceVars, server, push, conns, joined, netVars,
                   terminalVars>>

----------------------------------------------------------------------------
(* The streaming server.                                                    *)

ServerStart ==
    /\ server = "down"
    /\ server' = "up"
    /\ push' = [push EXCEPT !.thread = "run"]
    /\ UNCHANGED <<workspaceVars, watch, broadcast, conns, log, joined, netVars,
                   terminalVars>>

(* The engine ends: its threads die with the process, what was not sent is  *)
(* lost, and a connection reads end-of-file after what was already written. *)
ServerEnd ==
    /\ server = "up"
    /\ server' = "gone"
    /\ watch' = [watch EXCEPT !.thread = "none", !.todo = <<>>]
    /\ push' = [push EXCEPT !.thread = "dead"]
    /\ sock' = [f \in Feeds |-> IF sock[f] = "open" THEN "eof" ELSE sock[f]]
    /\ UNCHANGED <<workspaceVars, broadcast, conns, log, joined, wire, terminalVars>>

(* _handle_conn begins: the connection joins the broadcast set, in time for *)
(* the batches whose list of connections is not yet copied.                 *)
HandleConn(f) ==
    /\ server = "up" /\ sock[f] # "none" /\ joined[f] = 0 /\ f \notin conns
    /\ conns' = conns \cup {f}
    /\ joined' = [joined EXCEPT ![f] =
          1 + Len(log) - Len(broadcast)
            - (IF push.copied THEN 0 ELSE Len(push.batch))]
    /\ UNCHANGED <<workspaceVars, watch, server, broadcast, push, log, netVars,
                   terminalVars>>

\* _handle_conn ends: read_frame met the peer's end-of-file.
PeerClosed(f) ==
    /\ server = "up" /\ sock[f] = "closed" /\ f \in conns
    /\ conns' = conns \ {f}
    /\ UNCHANGED <<workspaceVars, watch, server, broadcast, push, log, joined,
                   netVars, terminalVars>>

\* _drain_broadcast takes the whole list, whether or not anyone is connected.
PushDrain ==
    /\ push.thread = "run" /\ push.batch = <<>> /\ broadcast # <<>>
    /\ push' = [push EXCEPT !.batch = broadcast, !.copied = FALSE]
    /\ broadcast' = <<>>
    /\ UNCHANGED <<workspaceVars, watch, server, conns, log, joined, netVars,
                   terminalVars>>

\* conns = list(self._conns), under the lock.
PushCopy ==
    /\ push.thread = "run" /\ push.batch # <<>> /\ ~push.copied
    /\ push' = [push EXCEPT !.copied = TRUE, !.targets = conns]
    /\ UNCHANGED <<workspaceVars, watch, server, broadcast, conns, log, joined,
                   netVars, terminalVars>>

\* Mutant of PushNext: the batch survives the poll.
PushNextAgain ==
    /\ push.thread = "run" /\ push.copied /\ push.left = <<>> /\ push.batch # <<>>
    /\ \/ \E f \in push.targets :
             push' = [push EXCEPT !.targets = @ \ {f}, !.at = f,
                                  !.left = push.batch]
       \/ /\ push.targets = {}
          /\ push' = [push EXCEPT !.at = NoOne, !.copied = FALSE]
    /\ UNCHANGED <<workspaceVars, watch, server, broadcast, conns, log, joined,
                   netVars, terminalVars>>

\* The outer loop: the next connection, or the next poll after the last one.
PushNext ==
    /\ push.thread = "run" /\ push.copied /\ push.left = <<>> /\ push.batch # <<>>
    /\ \/ \E f \in push.targets :
             push' = [push EXCEPT !.targets = @ \ {f}, !.at = f,
                                  !.left = push.batch]
       \/ /\ push.targets = {}
          /\ push' = [push EXCEPT !.batch = <<>>, !.at = NoOne, !.copied = FALSE]
    /\ UNCHANGED <<workspaceVars, watch, server, broadcast, conns, log, joined,
                   netVars, terminalVars>>

\* Mutant of PushSend: an envelope a dead peer refused is tried again.
PushSendRetry ==
    /\ push.thread = "run" /\ push.left # <<>>
    /\ LET e == Head(push.left) f == push.at IN
       \/ /\ FrameTooLarge(e)
          /\ push' = [push EXCEPT !.thread = "dead"]
          /\ UNCHANGED <<wire, conns>>
       \/ /\ ~FrameTooLarge(e) /\ sock[f] = "open" /\ Len(wire[f]) < SockBuf
          /\ wire' = [wire EXCEPT ![f] = Append(@, [e |-> e, last |-> push.half])]
          /\ push' = [push EXCEPT !.half = ~@,
                                  !.left = IF push.half THEN Tail(@) ELSE @]
          /\ UNCHANGED conns
       \/ /\ ~FrameTooLarge(e) /\ sock[f] # "open"
          /\ conns' = conns \ {f}
          /\ push' = [push EXCEPT !.half = FALSE]
          /\ UNCHANGED wire
    /\ UNCHANGED <<workspaceVars, watch, server, broadcast, log, joined, sock,
                   terminalVars>>

(* conn.sendall(encode(env)), piece by piece: it blocks on a full socket; a *)
(* dead peer drops the connection and the inner loop goes on; a frame above *)
(* its limit raises FrameTooLargeError, which ends the thread.              *)
PushSend ==
    /\ push.thread = "run" /\ push.left # <<>>
    /\ LET e == Head(push.left) f == push.at IN
       \/ /\ FrameTooLarge(e)
          /\ push' = [push EXCEPT !.thread = "dead"]
          /\ UNCHANGED <<wire, conns>>
       \/ /\ ~FrameTooLarge(e) /\ sock[f] = "open" /\ Len(wire[f]) < SockBuf
          /\ wire' = [wire EXCEPT ![f] = Append(@, [e |-> e, last |-> push.half])]
          /\ push' = [push EXCEPT !.half = ~@,
                                  !.left = IF push.half THEN Tail(@) ELSE @]
          /\ UNCHANGED conns
       \/ /\ ~FrameTooLarge(e) /\ sock[f] # "open"
          /\ conns' = conns \ {f}
          /\ push' = [push EXCEPT !.half = FALSE, !.left = Tail(@)]
          /\ UNCHANGED wire
    /\ UNCHANGED <<workspaceVars, watch, server, broadcast, log, joined, sock,
                   terminalVars>>

----------------------------------------------------------------------------
(* A terminal: LiveFeed's reader thread, the Bridge and the UI thread.      *)

FeedStart(f) ==
    /\ ui[f] = "on" /\ feed[f].pc = "off"
    /\ feed' = [feed EXCEPT ![f].pc = "connecting"]
    /\ UNCHANGED <<workspaceVars, watch, serverVars, netVars, ui, applied>>

(* IpcClient._connect retries for ever and does not look at _stop; as a     *)
(* daemon thread it ends with the application.                              *)
Connect(f) ==
    /\ feed[f].pc = "connecting" /\ server = "up" /\ ui[f] # "gone"
    /\ sock' = [sock EXCEPT ![f] = "open"]
    /\ feed' = [feed EXCEPT ![f].pc = "reading"]
    /\ UNCHANGED <<workspaceVars, watch, serverVars, wire, ui, applied>>

Readable(f) == wire[f] # <<>>

\* read_frame: the first bytes of a frame.
ReadFirst(f) ==
    /\ feed[f].pc = "reading" /\ ~feed[f].stop /\ Readable(f)
    /\ ~Head(wire[f]).last
    /\ wire' = [wire EXCEPT ![f] = Tail(@)]
    /\ feed' = [feed EXCEPT ![f].pc = "inside"]
    /\ UNCHANGED <<workspaceVars, watch, serverVars, sock, ui, applied>>

(* read_frame: the rest of it. bridge.push then waits in call_from_thread   *)
(* until the UI thread has run _apply.                                      *)
ReadRest(f) ==
    /\ feed[f].pc = "inside" /\ Readable(f) /\ Head(wire[f]).last
    /\ feed' = [feed EXCEPT ![f].pc = "pushing"]
    /\ UNCHANGED <<workspaceVars, watch, serverVars, netVars, ui, applied>>

\* _apply, on the UI thread; the piece stays on the wire until it is applied.
Apply(f) ==
    /\ feed[f].pc = "pushing" /\ ui[f] = "on"
    /\ applied' = [applied EXCEPT ![f] = Append(@, Head(wire[f]).e)]
    /\ wire' = [wire EXCEPT ![f] = Tail(@)]
    /\ feed' = [feed EXCEPT ![f].pc = "reading"]
    /\ UNCHANGED <<workspaceVars, watch, serverVars, sock, ui>>

\* NoActiveAppError: the envelope is counted as dropped.
PushRefused(f) ==
    /\ feed[f].pc = "pushing" /\ ui[f] = "gone"
    /\ wire' = [wire EXCEPT ![f] = Tail(@)]
    /\ feed' = [feed EXCEPT ![f].pc = "reading"]
    /\ UNCHANGED <<workspaceVars, watch, serverVars, sock, ui, applied>>

(* The 0.2 s time-out inside a frame: read() returns None and the bytes     *)
(* read so far are gone, so the next read starts in the middle of a frame.  *)
ReadTimeout(f) ==
    /\ feed[f].pc = "inside" /\ ~Readable(f) /\ sock[f] = "open"
    /\ feed' = [feed EXCEPT ![f].pc = "reading", ![f].torn = TRUE]
    /\ UNCHANGED <<workspaceVars, watch, serverVars, netVars, ui, applied>>

(* Bytes taken for a length prefix: above the ceiling, or not JSON, and the *)
(* feed ends; or a length that swallows what follows until it times out.    *)
ReadGarbage(f) ==
    /\ feed[f].pc = "reading" /\ ~feed[f].stop /\ Readable(f) /\ Head(wire[f]).last
    /\ \/ /\ feed' = [feed EXCEPT ![f].pc = "ended"]
          /\ UNCHANGED wire
       \/ /\ \E k \in 1..Len(wire[f]) :
                wire' = [wire EXCEPT ![f] = SubSeq(@, k + 1, Len(@))]
          /\ UNCHANGED feed
    /\ UNCHANGED <<workspaceVars, watch, serverVars, sock, ui, applied>>

\* End-of-file, or _stop seen at the top of the loop.
FeedEnd(f) ==
    /\ \/ feed[f].pc \in {"reading", "inside"} /\ ~Readable(f)
             /\ sock[f] \in {"eof", "closed"}
       \/ feed[f].pc = "reading" /\ feed[f].stop
    /\ feed' = [feed EXCEPT ![f].pc = "ended"]
    /\ UNCHANGED <<workspaceVars, watch, serverVars, netVars, ui, applied>>

(* on_unmount, on the UI thread: feed.stop sets _stop and joins the reader, *)
(* which may itself be waiting for the UI thread.                           *)
Unmount(f) ==
    /\ ui[f] = "on"
    /\ ui' = [ui EXCEPT ![f] = "unmounting"]
    /\ feed' = [feed EXCEPT ![f].stop = TRUE]
    /\ UNCHANGED <<workspaceVars, watch, serverVars, netVars, applied>>

\* Mutant of Unmounted: the join has no time-out.
UnmountedJoins(f) ==
    /\ ui[f] = "unmounting" /\ feed[f].pc \in {"off", "ended"}
    /\ ui' = [ui EXCEPT ![f] = "gone"]
    /\ sock' = [sock EXCEPT ![f] = IF @ = "none" THEN @ ELSE "closed"]
    /\ UNCHANGED <<workspaceVars, watch, serverVars, wire, feed, applied>>

(* The join is bounded: stop goes on, whether or not the thread has ended,  *)
(* and closes the client.                                                   *)
Unmounted(f) ==
    /\ ui[f] = "unmounting"
    /\ ui' = [ui EXCEPT ![f] = "gone"]
    /\ sock' = [sock EXCEPT ![f] = IF @ = "none" THEN @ ELSE "closed"]
    /\ UNCHANGED <<workspaceVars, watch, serverVars, wire, feed, applied>>

----------------------------------------------------------------------------
Publisher == StreamToken \/ WatcherStart \/ WatcherStop \/ ScanOnce \/ EmitChange
PushLoop  == PushDrain \/ PushCopy \/ PushNext \/ PushSend
Reader(f) ==
    \/ Connect(f) \/ ReadFirst(f) \/ ReadRest(f) \/ PushRefused(f)
    \/ ReadTimeout(f) \/ ReadGarbage(f) \/ FeedEnd(f)

Next ==
    \/ \E i \in Items, v \in Contents \cup {Absent} \cup GitStates : Write(i, v)
    \/ Publisher
    \/ ServerStart \/ ServerEnd
    \/ PushLoop
    \/ \E f \in Feeds :
          \/ HandleConn(f) \/ PeerClosed(f)
          \/ FeedStart(f) \/ Reader(f) \/ Apply(f)
          \/ Unmount(f) \/ Unmounted(f)

(* Threads are scheduled: the watcher's, the server's, each terminal's      *)
(* reader and UI thread. Nothing makes a user start, write or quit.         *)
Fairness ==
    /\ WF_vars(EmitChange) /\ WF_vars(PushLoop)
    /\ \A f \in Feeds :
          /\ WF_vars(HandleConn(f)) /\ WF_vars(PeerClosed(f))
          /\ WF_vars(Reader(f)) /\ WF_vars(Apply(f)) /\ WF_vars(Unmounted(f))

Spec == Init /\ [][Next]_vars /\ Fairness

----------------------------------------------------------------------------
\* What a panel knows of an item: the payload of the last envelope about it.
About(e, i) ==
    \/ e.payload \in FileChanges /\ e.payload.path = i
    \/ e.payload \in GitUpdates /\ i = Git
Told(f, i) == {k \in DOMAIN applied[f] : About(applied[f][k], i)}
Panel(f, i) == applied[f][Max(Told(f, i))].payload

\* Nothing is under way to terminal f, and no time-out tore one of its frames.
Settled(f) ==
    /\ f \in conns /\ sock[f] = "open" /\ wire[f] = <<>>
    /\ feed[f].pc = "reading" /\ ~feed[f].torn
    /\ push.thread = "run" /\ push.batch = <<>> /\ broadcast = <<>>
    /\ watch.todo = <<>>

(* Whenever the path to a terminal is empty, it has applied exactly the     *)
(* envelopes published since its connection joined, in order, and what the  *)
(* repository panel shows of a file or of git is what the watcher last saw  *)
(* (scan_once, _push_loop, _handle_conn, LiveFeed._run, RepoManager).       *)
PanelTruth ==
    \A f \in Feeds : Settled(f) =>
        /\ applied[f] = SubSeq(log, joined[f], Len(log))
        /\ \A p \in Paths : Told(f, p) # {} =>
              (Panel(f, p).change = "deleted" <=> watch.prints[p] = Absent)
        /\ Told(f, Git) # {} => Panel(f, Git).git = watch.prints[Git]

(* The stream is a lossy channel: across time-outs that tear frames, late   *)
(* connections and a dying engine, a terminal never applies an envelope     *)
(* twice, out of order, or one that was not published.                      *)
Channel == INSTANCE LossyFifo WITH
    Sources <- {"daemon"}, Receivers <- Feeds,
    sent <- [s \in {"daemon"} |-> Len(log)],
    got <- [f \in Feeds |-> [s \in {"daemon"} |->
              IF applied[f] = <<>> THEN 0 ELSE Last(applied[f]).n]]
StreamInOrder == Channel!Spec

\* The path to terminal f is empty, whatever a torn frame lost on it before.
PathEmpty(f) ==
    /\ wire[f] = <<>> /\ feed[f].pc = "reading"
    /\ push.batch = <<>> /\ broadcast = <<>> /\ watch.todo = <<>>

(* The push thread waits in sendall for a reader that has ended on garbage  *)
(* and left its connection open: nothing but that terminal's exit frees it. *)
HeadOfLine ==
    /\ push.thread = "run" /\ push.left # <<>>
    /\ sock[push.at] = "open" /\ feed[push.at].pc = "ended"
    /\ Len(wire[push.at]) = SockBuf

(* What is published reaches a connected terminal in the end, so that its   *)
(* path empties again and again. Only these prevent it: the push thread has *)
(* died (FrameTooLargeError, or the engine ended), it is blocked behind a   *)
(* terminal whose reader has ended, this terminal's own reader has ended,   *)
(* or the terminal is leaving. No slow, late or quitting terminal and no    *)
(* order of threads does (_push_loop, LiveFeed._run, Bridge.push).          *)
StreamSettles ==
    \A f \in Feeds :
        joined[f] > 0 ~>
            \/ PathEmpty(f)
            \/ push.thread = "dead" \/ HeadOfLine
            \/ feed[f].pc = "ended" \/ ui[f] # "on"

(* Quitting ends: the UI thread waits in stop for a reader that may be      *)
(* waiting in call_from_thread for the UI thread.                           *)
UnmountEnds == \A f \in Feeds : ui[f] = "unmounting" ~> ui[f] = "gone"
=============================================================================
