---------------------------- MODULE PluginMessages ----------------------------
(***************************************************************************)
(* The two System V message queues of the plugin system.  The command line *)
(* tool (plugins_ui.c) sends one message per line of a manifest to the     *)
(* manager thread of ospfd (plugins_manager.c); pluglets send measurements *)
(* with send_data (ospf_plugins_api.c) to the monitoring server.           *)
(*                                                                         *)
(* plugins_manager.c and ospf_plugins_api.c both define a global called    *)
(* message without an initialiser.  Linked into ospfd they are one object: *)
(* the manager thread decodes a request in the buffer in which the main    *)
(* thread puts together its data.  Every access to it is a step.           *)
(***************************************************************************)
EXTENDS Integers, Sequences

CONSTANTS
    Manifests,      \* manifests: sequences of [file, point, anchor] or Invalid
    Invalid,        \* a line without exactly three words
    Data,           \* what pluglets send: [type, data]
    NoData,         \* a NULL data pointer
    IntMod,         \* 2^32, the width of int
    QueueLimit,     \* messages a queue holds
    MaxData,        \* bound on the calls of send_data
    MaxSignals      \* bound on the signals that interrupt msgrcv

(* Words of a line are numbers where the tool calls atoi. *)
ASSUME MessagesAssumption ==
    /\ \A m \in Manifests :
          /\ Len(m) \in Nat
          /\ \A n \in 1 .. Len(m) : m[n] # Invalid =>
                /\ m[n] = [file |-> m[n].file, point |-> m[n].point, anchor |-> m[n].anchor]
                /\ m[n].point \in Int /\ m[n].anchor \in Int
    /\ \A d \in Data : d.type \in Int
    /\ IntMod \in Nat \ {0} /\ IntMod % 2 = 0
    /\ QueueLimit \in Nat /\ MaxData \in Nat /\ MaxSignals \in Nat

VARIABLES
    manifest,   \* the file the user names
    ui,         \* the tool: number of the line it reads, or 0 when it ended
    requests,   \* queue 64, tool to manager
    mgr,        \* manager: recv, sleep, anchor, point, inject, ended
    anchor,     \* its local variables
    point,
    message,    \* the buffer the two threads share
    main,       \* main thread: idle, type, data, send
    call,       \* arguments of the running send_data
    calls,      \* calls of send_data so far
    measures,   \* queue 65, pluglets to server
    server,     \* monitoring server: TRUE while it runs
    signals,    \* interrupted calls of msgrcv so far
    injected,   \* history: the injections, in order
    accepted,   \* history: the data msgsnd took, in order
    delivered,  \* history: the messages the server printed, in order
    mixed       \* history: one thread wrote the buffer while the other used it

msgVars == <<manifest, ui, requests, mgr, anchor, point, message, main, call, calls, measures,
             server, signals, injected, accepted, delivered, mixed>>

toolVars   == <<manifest, ui, requests>>
mgrVars    == <<mgr, anchor, point, signals, injected>>
mainVars   == <<main, call, calls, accepted>>
serverVars == <<server, delivered>>

-----------------------------------------------------------------------------
(* mesg_type of a line. *)
Encode(l) == l.point * 100 + l.anchor

(* The cast to int, and the remainder of C, which has the sign of a. *)
ToInt(n)    == ((n + IntMod \div 2) % IntMod) - IntMod \div 2
Rem(a, b)   == IF a >= 0 THEN a % b ELSE -((-a) % b)

(* Seeded fault: one decimal digit of anchor. *)
DecodeAnchor_short(type) == Rem(ToInt(type), 10)

(* How the manager reads a type. *)
DecodeAnchor(type)   == Rem(ToInt(type), 100)
DecodePoint(type, a) ==
    LET n == ToInt(type) - a
    IN  IF n >= 0 THEN n \div 100 ELSE -((-n) \div 100)

(* Lines whose position survives the encoding: two decimal digits of anchor, *)
(* and a type msgsnd accepts and int can hold.                               *)
WellFormed(l) ==
    /\ l # Invalid
    /\ l.anchor \in 0 .. 99
    /\ Encode(l) \in 1 .. IntMod \div 2 - 1

-----------------------------------------------------------------------------
MsgInit ==
    /\ manifest \in Manifests
    /\ ui = 1
    /\ requests = <<>>
    /\ mgr = "recv"
    /\ anchor = 0 /\ point = 0
    /\ message = [type |-> 0, text |-> NoData]
    /\ main = "idle"
    /\ call = [type |-> 0, data |-> NoData]
    /\ calls = 0
    /\ measures = <<>>
    /\ server = TRUE
    /\ signals = 0
    /\ injected = <<>>
    /\ accepted = <<>>
    /\ delivered = <<>>
    /\ mixed = FALSE

(* Seeded fault: may stop before the last line. *)
ui_stop_early ==
    /\ ui # 0
    /\ ui >= Len(manifest)
    /\ ui' = 0
    /\ UNCHANGED <<manifest, requests, message, measures, mixed>>
    /\ UNCHANGED mgrVars /\ UNCHANGED mainVars /\ UNCHANGED serverVars

(* The tool stops at the end of the manifest, at a line that is not three  *)
(* words, and when msgsnd refuses a type below one.                        *)
ui_stop ==
    /\ ui # 0
    /\ ui <= Len(manifest) /\ manifest[ui] # Invalid => Encode(manifest[ui]) < 1
    /\ ui' = 0
    /\ UNCHANGED <<manifest, requests, message, measures, mixed>>
    /\ UNCHANGED mgrVars /\ UNCHANGED mainVars /\ UNCHANGED serverVars

(* msgsnd blocks while the queue is full. *)
ui_send ==
    /\ ui \in 1 .. Len(manifest)
    /\ manifest[ui] # Invalid
    /\ Encode(manifest[ui]) >= 1
    /\ Len(requests) < QueueLimit
    /\ requests' = Append(requests, [type |-> Encode(manifest[ui]),
                                     text |-> manifest[ui].file])
    /\ ui' = ui + 1
    /\ UNCHANGED <<manifest, message, measures, mixed>>
    /\ UNCHANGED mgrVars /\ UNCHANGED mainVars /\ UNCHANGED serverVars

-----------------------------------------------------------------------------
(* Manager thread *)

manager_receive ==
    /\ mgr = "recv" /\ requests # <<>>
    /\ message' = Head(requests)
    /\ requests' = Tail(requests)
    /\ mgr' = "anchor"
    /\ mixed' = (mixed \/ main # "idle")
    /\ UNCHANGED <<manifest, ui, anchor, point, signals, injected, measures>>
    /\ UNCHANGED mainVars /\ UNCHANGED serverVars

(* FRR's signals interrupt the call; it sleeps and calls again. *)
manager_interrupted ==
    /\ mgr = "recv" /\ signals < MaxSignals
    /\ mgr' = "sleep"
    /\ signals' = signals + 1
    /\ UNCHANGED <<anchor, point, injected, message, measures, mixed>>
    /\ UNCHANGED toolVars /\ UNCHANGED mainVars /\ UNCHANGED serverVars

manager_awake ==
    /\ mgr = "sleep"
    /\ mgr' = "recv"
    /\ UNCHANGED <<anchor, point, signals, injected, message, measures, mixed>>
    /\ UNCHANGED toolVars /\ UNCHANGED mainVars /\ UNCHANGED serverVars

(* Any other error ends the thread. *)
manager_failed ==
    /\ mgr = "recv"
    /\ mgr' = "ended"
    /\ UNCHANGED <<anchor, point, signals, injected, message, measures, mixed>>
    /\ UNCHANGED toolVars /\ UNCHANGED mainVars /\ UNCHANGED serverVars

(* The type is read once for the anchor and once for the insertion point. *)
decode_anchor ==
    /\ mgr = "anchor"
    /\ anchor' = DecodeAnchor(message.type)
    /\ mgr' = "point"
    /\ UNCHANGED <<point, signals, injected, message, measures, mixed>>
    /\ UNCHANGED toolVars /\ UNCHANGED mainVars /\ UNCHANGED serverVars

decode_point ==
    /\ mgr = "point"
    /\ point' = DecodePoint(message.type, anchor)
    /\ mgr' = "inject"
    /\ UNCHANGED <<anchor, signals, injected, message, measures, mixed>>
    /\ UNCHANGED toolVars /\ UNCHANGED mainVars /\ UNCHANGED serverVars

(* inject_pluglet opens the file the buffer names now. *)
inject ==
    /\ mgr = "inject"
    /\ injected' = Append(injected, [file |-> message.text, point |-> point,
                                     anchor |-> anchor])
    /\ mgr' = "recv"
    /\ UNCHANGED <<anchor, point, signals, message, measures, mixed>>
    /\ UNCHANGED toolVars /\ UNCHANGED mainVars /\ UNCHANGED serverVars

-----------------------------------------------------------------------------
(* Main thread, inside a pluglet *)

ManagerUsesBuffer == mgr \in {"anchor", "point", "inject"}

send_data(d) ==
    /\ main = "idle" /\ calls < MaxData
    /\ call' = d
    /\ calls' = calls + 1
    /\ main' = "type"
    /\ UNCHANGED <<accepted, message, measures, mixed>>
    /\ UNCHANGED toolVars /\ UNCHANGED mgrVars /\ UNCHANGED serverVars

send_type ==
    /\ main = "type"
    /\ message' = [message EXCEPT !.type = call.type]
    /\ main' = "data"
    /\ mixed' = (mixed \/ ManagerUsesBuffer)
    /\ UNCHANGED <<call, calls, accepted, measures>>
    /\ UNCHANGED toolVars /\ UNCHANGED mgrVars /\ UNCHANGED serverVars

(* Seeded fault: the test for NULL is inverted. *)
send_text_null ==
    /\ main = "data"
    /\ message' = IF call.data # NoData THEN message
                  ELSE [message EXCEPT !.text = call.data]
    /\ main' = "send"
    /\ mixed' = (mixed \/ ManagerUsesBuffer)
    /\ UNCHANGED <<call, calls, accepted, measures>>
    /\ UNCHANGED toolVars /\ UNCHANGED mgrVars /\ UNCHANGED serverVars

(* The memcpy; with a NULL pointer the old text stays. *)
send_text ==
    /\ main = "data"
    /\ message' = IF call.data = NoData THEN message
                  ELSE [message EXCEPT !.text = call.data]
    /\ main' = "send"
    /\ mixed' = (mixed \/ ManagerUsesBuffer)
    /\ UNCHANGED <<call, calls, accepted, measures>>
    /\ UNCHANGED toolVars /\ UNCHANGED mgrVars /\ UNCHANGED serverVars

(* Seeded fault: without IPC_NOWAIT. *)
send_message_wait ==
    /\ main = "send" /\ Len(measures) < QueueLimit
    /\ main' = "idle"
    /\ measures' = Append(measures, message)
    /\ accepted' = Append(accepted, call)
    /\ UNCHANGED <<call, calls, message, mixed>>
    /\ UNCHANGED toolVars /\ UNCHANGED mgrVars /\ UNCHANGED serverVars

(* IPC_NOWAIT: a full queue drops the message, and a type below one is      *)
(* refused.  send_data returns 1 all the same.                              *)
send_message ==
    /\ main = "send"
    /\ main' = "idle"
    /\ IF Len(measures) < QueueLimit /\ message.type >= 1
       THEN measures' = Append(measures, message) /\ accepted' = Append(accepted, call)
       ELSE UNCHANGED <<measures, accepted>>
    /\ UNCHANGED <<call, calls, message, mixed>>
    /\ UNCHANGED toolVars /\ UNCHANGED mgrVars /\ UNCHANGED serverVars

-----------------------------------------------------------------------------
(* Monitoring server *)

server_receive ==
    /\ server /\ measures # <<>>
    /\ delivered' = Append(delivered, Head(measures))
    /\ measures' = Tail(measures)
    /\ UNCHANGED <<server, message, mixed>>
    /\ UNCHANGED toolVars /\ UNCHANGED mgrVars /\ UNCHANGED mainVars

(* Any error of msgrcv, an interrupt included, ends it. *)
server_failed ==
    /\ server
    /\ server' = FALSE
    /\ UNCHANGED <<delivered, message, measures, mixed>>
    /\ UNCHANGED toolVars /\ UNCHANGED mgrVars /\ UNCHANGED mainVars

(* It can be started again; the queue is the kernel's and is still there. *)
server_start ==
    /\ ~server
    /\ server' = TRUE
    /\ UNCHANGED <<delivered, message, measures, mixed>>
    /\ UNCHANGED toolVars /\ UNCHANGED mgrVars /\ UNCHANGED mainVars

-----------------------------------------------------------------------------
tool == ui_stop \/ ui_send

manager ==
    \/ manager_receive
    \/ manager_awake
    \/ decode_anchor
    \/ decode_point
    \/ inject

pluglet == send_type \/ send_text \/ send_message

MsgNext ==
    \/ tool
    \/ manager
    \/ manager_interrupted
    \/ manager_failed
    \/ \E d \in Data : send_data(d)
    \/ pluglet
    \/ server_receive
    \/ server_failed
    \/ server_start

MsgSpec == MsgInit /\ [][MsgNext]_msgVars

(* The kernel schedules the tool and both threads, and wakes a thread that  *)
(* waits for a queue; nothing makes pluglets run or the server live.        *)
MsgFairSpec == MsgSpec /\ WF_msgVars(tool) /\ WF_msgVars(manager) /\ WF_msgVars(pluglet)

-----------------------------------------------------------------------------
(* Properties *)

(* The positions of the threads and the queues hold values the code can     *)
(* give them; in particular no queue outgrows its limit.                    *)
MsgTypeOK ==
    /\ ui \in 0 .. Len(manifest) + 1
    /\ Len(requests) <= QueueLimit
    /\ mgr \in {"recv", "sleep", "anchor", "point", "inject", "ended"}
    /\ main \in {"idle", "type", "data", "send"}
    /\ calls \in 0 .. MaxData
    /\ Len(measures) <= QueueLimit
    /\ server \in BOOLEAN
    /\ signals \in 0 .. MaxSignals
    /\ mixed \in BOOLEAN

(* The n-th injection is the n-th line. *)
Faithful(n) == WellFormed(manifest[n]) => injected[n] = manifest[n]

(* What the manager injected is what the lines of the manifest say, line by *)
(* line: no request is lost, repeated or overtaken, and none is changed by  *)
(* the encoding, as long as no pluglet sends data meanwhile.                *)
InjectionsFollowManifest ==
    ~mixed => \A n \in 1 .. Len(injected) : n <= Len(manifest) /\ Faithful(n)

(* Message m is what the call c of send_data was given. *)
Carries(m, c) == m.type = c.type /\ (c.data # NoData => m.text = c.data)

(* The server prints exactly the data the queue took, in the order in which *)
(* pluglets sent it, over any number of failures and restarts of the server *)
(* and although a full queue drops messages, as long as no request is       *)
(* served meanwhile.                                                        *)
MeasuresInOrder ==
    ~mixed =>
        LET got == delivered \o measures
        IN  /\ Len(got) = Len(accepted)
            /\ \A n \in 1 .. Len(got) : Carries(got[n], accepted[n])

(* A monitoring server that has ended never blocks ospfd: send_data returns *)
(* also when the queue stays full.                                          *)
SendDataReturns == main # "idle" ~> main = "idle"

(* Every well-formed manifest is worked off to its end, interrupts of       *)
(* msgrcv included, unless the manager thread ends.                         *)
ManifestServed ==
    (\A n \in 1 .. Len(manifest) : WellFormed(manifest[n]))
        => <>(Len(injected) = Len(manifest) \/ mgr = "ended")

(* "react accordingly by injecting plugins at specific positions": a        *)
(* pluglet is injected from the file and at the position of its line.       *)
InjectedAsAsked == \A n \in 1 .. Len(injected) : Faithful(n)
=============================================================================
