------------------------------ MODULE PluginTab ------------------------------
(***************************************************************************)
(* The table of plugins and the two threads of ospfd that share it without *)
(* a lock.  The manager thread (plugins_manager.c) injects one pluglet per *)
(* request.  The main thread passes the insertion points of the OSPF code, *)
(* runs the pluglets it finds there (exec_loaded_code, under               *)
(* lock_current_context), and releases everything on SIGINT.               *)
(*                                                                         *)
(* A guarded insertion point sets up its argument and heap, tests every    *)
(* slot before it runs it, and has PRE, REP and POST.  A bare one          *)
(* (SEND_PACKET, RCV_PACKET, MAIN) runs pluglets_PRE[0] as it is.          *)
(*                                                                         *)
(* Steps are the accesses to the table the other thread can see.  A read   *)
(* of memory nobody has written yet is a choice; running a pluglet that is *)
(* not completely set up ends the daemon and is recorded in fault.         *)
(***************************************************************************)
EXTENDS Naturals

CONSTANTS
    Guarded,            \* insertion points with a complete prologue
    Bare,               \* insertion points that run pluglets_PRE[0] only
    EarlyReturn,        \* guarded points whose OSPF code may skip POST
    MAX_NBR_PLUGLETS,   \* slots of PRE and of POST
    Requests,           \* what users ask: [point, anchor]
    MaxRequests         \* bound on the number of requests

ASSUME TabConstants ==
    /\ Guarded \cap Bare = {}
    /\ EarlyReturn \subseteq Guarded
    /\ MAX_NBR_PLUGLETS \in Nat \ {0}
    /\ MaxRequests \in Nat
    /\ Guarded \cup Bare # {}
    /\ Requests # {}

Point    == Guarded \cup Bare
Anchor   == {"PRE", "REP", "POST"}
Index    == 1 .. MAX_NBR_PLUGLETS
Slot     == Anchor \X Index

(* null: no pluglet; raw: allocated, nothing written; loaded: code loaded,   *)
(* no context yet; ready: context set; broken: load failed, the pointer to   *)
(* the freed or never written pluglet stays in the table.                    *)
SlotState == {"null", "raw", "loaded", "ready", "broken"}

(* absent: NULL in the table; raw: published before its fields are written. *)
Stage == {"absent", "raw", "set"}

VARIABLES
    stage,      \* stage[p] of the plugin at point p
    arguments,  \* points whose plugin has its argument and heap
    slot,       \* slot[p][s], the pluglets of the plugin at p
    mpc,        \* manager thread: where it is in inject_pluglet
    req,        \* the request it serves
    target,     \* the slot it fills
    sent,       \* requests received so far
    pc,         \* main thread: where it is
    at,         \* the insertion point it is in
    cursor,     \* the slot it looks at
    lock,       \* lock_current_context: free, held, or left locked
    fault,      \* what ended the daemon, or none
    overlap     \* history: an injection at this point overlapped the passage

injectorVars == <<mpc, req, target, sent>>
passageVars  == <<pc, at, cursor>>
tabVars      == <<stage, arguments, slot, mpc, req, target, sent, pc, at, cursor,
                  lock, fault, overlap>>

Empty == [s \in Slot |-> "null"]

(* REP is a single pointer, PRE and POST are arrays. *)
Capacity(anchor) == IF anchor = "REP" THEN 1 ELSE MAX_NBR_PLUGLETS

(* Seeded fault: a REP that is taken counts as free. *)
FreeSlots_rep(p, anchor) ==
    {i \in 1 .. Capacity(anchor) : anchor = "REP" \/ slot[p][<<anchor, i>>] = "null"}

FreeSlots(p, anchor) ==
    {i \in 1 .. Capacity(anchor) : slot[p][<<anchor, i>>] = "null"}

TabInit ==
    /\ stage = [p \in Point |-> "absent"]
    /\ arguments = {}
    /\ slot = [p \in Point |-> Empty]
    /\ mpc = "recv"
    /\ req = CHOOSE r \in Requests : TRUE
    /\ target = <<"PRE", 1>>
    /\ sent = 0
    /\ pc = "idle"
    /\ at = CHOOSE p \in Point : TRUE
    /\ cursor = <<"PRE", 1>>
    /\ lock = "free"
    /\ fault = "none"
    /\ overlap = FALSE

Running == fault = "none"

(* The manager is inside inject_pluglet for point p. *)
Injecting(p) == mpc # "recv" /\ req.point = p

-----------------------------------------------------------------------------
(* Manager thread *)

(* msgrcv returns; inject_pluglet refuses an id outside the table. *)
receive(r) ==
    /\ Running /\ mpc = "recv" /\ sent < MaxRequests
    /\ req' = r
    /\ sent' = sent + 1
    /\ mpc' = IF r.point \in Point THEN "create" ELSE "recv"
    /\ overlap' = (overlap \/ (pc # "idle" /\ r.point = at))
    /\ UNCHANGED <<stage, arguments, slot, target, lock, fault>>
    /\ UNCHANGED passageVars

(* The new plugin is in the table before any of its fields is written. *)
create_plugin ==
    /\ Running /\ mpc = "create"
    /\ IF stage[req.point] = "absent"
       THEN mpc' = "clear" /\ stage' = [stage EXCEPT ![req.point] = "raw"]
       ELSE mpc' = "slot" /\ UNCHANGED stage
    /\ UNCHANGED <<arguments, slot, req, target, sent, lock, fault, overlap>>
    /\ UNCHANGED passageVars

(* The manager works on tab->plugins[id] although the main thread may have *)
(* released it.                                                            *)
plugin_gone ==
    /\ Running /\ mpc \in {"clear", "slot", "load", "context"}
    /\ stage[req.point] = "absent"
    /\ fault' = "manager"
    /\ UNCHANGED <<stage, arguments, slot, lock, overlap>>
    /\ UNCHANGED injectorVars /\ UNCHANGED passageVars

clear_plugin ==
    /\ Running /\ mpc = "clear" /\ stage[req.point] # "absent"
    /\ stage' = [stage EXCEPT ![req.point] = "set"]
    /\ arguments' = arguments \ {req.point}
    /\ slot' = [slot EXCEPT ![req.point] = Empty]
    /\ mpc' = "slot"
    /\ UNCHANGED <<req, target, sent, lock, fault, overlap>>
    /\ UNCHANGED passageVars

(* Seeded fault: looks for room again and again. *)
refuse_retry ==
    /\ Running /\ mpc = "slot" /\ stage[req.point] # "absent"
    /\ req.anchor \in Anchor => FreeSlots(req.point, req.anchor) = {}
    /\ mpc' = "create"
    /\ UNCHANGED <<stage, arguments, slot, req, target, sent, lock, fault, overlap>>
    /\ UNCHANGED passageVars

(* A wrong anchor, a full array or a REP that is taken: the request ends,  *)
(* and the plugin, perhaps without any pluglet, stays.                     *)
refuse ==
    /\ Running /\ mpc = "slot" /\ stage[req.point] # "absent"
    /\ req.anchor \in Anchor => FreeSlots(req.point, req.anchor) = {}
    /\ mpc' = "recv"
    /\ UNCHANGED <<stage, arguments, slot, req, target, sent, lock, fault, overlap>>
    /\ UNCHANGED passageVars

(* Seeded fault: fills the array from the back. *)
take_slot_last ==
    /\ Running /\ mpc = "slot" /\ stage[req.point] # "absent"
    /\ req.anchor \in Anchor
    /\ \E i \in FreeSlots(req.point, req.anchor) :
        /\ \A j \in FreeSlots(req.point, req.anchor) : j <= i
        /\ target' = <<req.anchor, i>>
        /\ slot' = [slot EXCEPT ![req.point][<<req.anchor, i>>] = "raw"]
    /\ mpc' = "load"
    /\ UNCHANGED <<stage, arguments, req, sent, lock, fault, overlap>>
    /\ UNCHANGED passageVars

take_slot ==
    /\ Running /\ mpc = "slot" /\ stage[req.point] # "absent"
    /\ req.anchor \in Anchor
    /\ \E i \in FreeSlots(req.point, req.anchor) :
        /\ \A j \in FreeSlots(req.point, req.anchor) : i <= j
        /\ target' = <<req.anchor, i>>
        /\ slot' = [slot EXCEPT ![req.point][<<req.anchor, i>>] = "raw"]
    /\ mpc' = "load"
    /\ UNCHANGED <<stage, arguments, req, sent, lock, fault, overlap>>
    /\ UNCHANGED passageVars

(* Seeded fault: the injection ends after the load, without a context. *)
load_elf_file_only(ok) ==
    /\ Running /\ mpc = "load" /\ stage[req.point] # "absent"
    /\ slot' = [slot EXCEPT ![req.point][target] = IF ok THEN "loaded" ELSE "broken"]
    /\ mpc' = "recv"
    /\ UNCHANGED <<stage, arguments, req, target, sent, lock, fault, overlap>>
    /\ UNCHANGED passageVars

load_elf_file(ok) ==
    /\ Running /\ mpc = "load" /\ stage[req.point] # "absent"
    /\ slot' = [slot EXCEPT ![req.point][target] = IF ok THEN "loaded" ELSE "broken"]
    /\ mpc' = IF ok THEN "context" ELSE "recv"
    /\ UNCHANGED <<stage, arguments, req, target, sent, lock, fault, overlap>>
    /\ UNCHANGED passageVars

set_context ==
    /\ Running /\ mpc = "context" /\ stage[req.point] # "absent"
    /\ slot' = [slot EXCEPT ![req.point][target] = "ready"]
    /\ mpc' = "recv"
    /\ UNCHANGED <<stage, arguments, req, target, sent, lock, fault, overlap>>
    /\ UNCHANGED passageVars

inject_pluglet ==
    \/ create_plugin
    \/ plugin_gone
    \/ clear_plugin
    \/ refuse
    \/ take_slot
    \/ \E ok \in BOOLEAN : load_elf_file(ok)
    \/ set_context

-----------------------------------------------------------------------------
(* Main thread *)

(* Seeded fault: the prologue does not set the argument and heap. *)
enter_bare(p) ==
    /\ Running /\ pc = "idle"
    /\ at' = p
    /\ overlap' = Injecting(p)
    /\ cursor' = <<"PRE", 1>>
    /\ pc' = "test"
    /\ UNCHANGED <<stage, arguments, slot, lock, fault>>
    /\ UNCHANGED injectorVars

(* The prologue.  The argument pointer of a raw plugin is garbage: it is   *)
(* taken for NULL and replaced, or it is written through.                  *)
enter(p) ==
    /\ Running /\ pc = "idle"
    /\ at' = p
    /\ overlap' = Injecting(p)
    /\ cursor' = <<"PRE", 1>>
    /\ \/ /\ p \in Guarded
          /\ pc' = "test"
          /\ arguments' = IF stage[p] = "absent" THEN arguments ELSE arguments \cup {p}
          /\ UNCHANGED fault
       \/ /\ p \in Guarded /\ stage[p] = "raw"
          /\ pc' = "test"
          /\ fault' = "raw"
          /\ UNCHANGED arguments
       \/ /\ p \in Bare
          /\ pc' = IF stage[p] = "absent" THEN "idle" ELSE "exec"
          /\ UNCHANGED <<arguments, fault>>
    /\ UNCHANGED <<stage, slot, lock>>
    /\ UNCHANGED injectorVars

(* After a slot was run: the next slot of the array, or the next phase.    *)
AfterSlot ==
    IF at \in Bare
    THEN pc' = "idle" /\ UNCHANGED cursor
    ELSE IF cursor[2] < Capacity(cursor[1])
         THEN pc' = "test" /\ cursor' = <<cursor[1], cursor[2] + 1>>
         ELSE CASE cursor[1] = "PRE"  -> pc' = "test" /\ cursor' = <<"REP", 1>>
                [] cursor[1] = "REP"  -> pc' = "test" /\ cursor' = <<"POST", 1>>
                [] cursor[1] = "POST" -> pc' = "idle" /\ UNCHANGED cursor

(* A slot that reads as NULL ends PRE and POST; for REP the OSPF code      *)
(* itself runs.                                                            *)
AfterNull ==
    CASE cursor[1] = "PRE"  -> pc' = "test" /\ cursor' = <<"REP", 1>>
      [] cursor[1] = "REP"  -> pc' = "native" /\ UNCHANGED cursor
      [] cursor[1] = "POST" -> pc' = "idle" /\ UNCHANGED cursor

(* Seeded fault: the slot is run without a test for NULL. *)
test_slot_untested ==
    /\ Running /\ pc = "test"
    /\ \/ stage[at] = "absent" /\ AfterNull
       \/ stage[at] # "absent" /\ pc' = "exec" /\ UNCHANGED cursor
    /\ UNCHANGED <<stage, arguments, slot, at, lock, fault, overlap>>
    /\ UNCHANGED injectorVars

test_slot ==
    /\ Running /\ pc = "test"
    /\ \/ /\ stage[at] = "absent" \/ stage[at] = "raw" \/ slot[at][cursor] = "null"
          /\ AfterNull
       \/ /\ stage[at] = "raw" \/ (stage[at] = "set" /\ slot[at][cursor] # "null")
          /\ pc' = "exec"
          /\ UNCHANGED cursor
    /\ UNCHANGED <<stage, arguments, slot, at, lock, fault, overlap>>
    /\ UNCHANGED injectorVars

native ==
    /\ Running /\ pc = "native"
    /\ \/ pc' = "test" /\ cursor' = <<"POST", 1>>
       \/ at \in EarlyReturn /\ pc' = "idle" /\ UNCHANGED cursor
    /\ UNCHANGED <<stage, arguments, slot, at, lock, fault, overlap>>
    /\ UNCHANGED injectorVars

(* exec_loaded_code reads the slot a second time.  With a NULL pluglet it   *)
(* returns and leaves the mutex locked.                                     *)
exec_null ==
    /\ Running /\ pc = "exec" /\ lock = "free"
    /\ stage[at] = "raw" \/ slot[at][cursor] = "null"
    /\ lock' = "left"
    /\ AfterSlot
    /\ UNCHANGED <<stage, arguments, slot, at, fault, overlap>>
    /\ UNCHANGED injectorVars

exec_start ==
    /\ Running /\ pc = "exec" /\ lock = "free"
    /\ stage[at] = "set" /\ slot[at][cursor] = "ready"
    /\ lock' = "held"
    /\ pc' = "run"
    /\ UNCHANGED <<stage, arguments, slot, at, cursor, fault, overlap>>
    /\ UNCHANGED injectorVars

exec_unready ==
    /\ Running /\ pc = "exec" /\ lock = "free"
    /\ \/ stage[at] = "raw" /\ fault' = "raw"
       \/ /\ stage[at] = "set"
          /\ slot[at][cursor] \in {"raw", "loaded", "broken"}
          /\ fault' = slot[at][cursor]
    /\ lock' = "held"
    /\ UNCHANGED <<stage, arguments, slot, overlap>>
    /\ UNCHANGED injectorVars /\ UNCHANGED passageVars

(* Seeded fault: returns without unlocking the mutex. *)
exec_end_locked ==
    /\ Running /\ pc = "run"
    /\ AfterSlot
    /\ UNCHANGED <<stage, arguments, slot, at, lock, fault, overlap>>
    /\ UNCHANGED injectorVars

(* The pluglet returns, the context is reset and the mutex unlocked. *)
exec_end ==
    /\ Running /\ pc = "run"
    /\ lock' = "free"
    /\ AfterSlot
    /\ UNCHANGED <<stage, arguments, slot, at, fault, overlap>>
    /\ UNCHANGED injectorVars

(* SIGINT, handled between two events: release_elf destroys the VM of every *)
(* pointer it finds, whatever it points to.  The pointers of a raw plugin   *)
(* are garbage, and may read as NULL.                                       *)
release_all_plugins ==
    /\ Running /\ pc = "idle"
    /\ pc' = "terminated"
    /\ \/ /\ \/ \E p \in Point : stage[p] = "raw"
             \/ \E p \in Point, s \in Slot : slot[p][s] \in {"raw", "broken"}
          /\ fault' = "release"
       \/ /\ \A p \in Point, s \in Slot : slot[p][s] \notin {"raw", "broken"}
          /\ UNCHANGED fault
    /\ stage' = [p \in Point |-> "absent"]
    /\ slot' = [p \in Point |-> Empty]
    /\ arguments' = {}
    /\ UNCHANGED <<at, cursor, lock, overlap>>
    /\ UNCHANGED injectorVars

main_thread ==
    \/ test_slot
    \/ native
    \/ exec_null
    \/ exec_start
    \/ exec_unready
    \/ exec_end

TabNext ==
    \/ \E r \in Requests : receive(r)
    \/ inject_pluglet
    \/ \E p \in Point : enter(p)
    \/ main_thread
    \/ release_all_plugins

TabSpec == TabInit /\ [][TabNext]_tabVars

(* Both threads are scheduled by the kernel; an event loop need not enter an *)
(* insertion point, but one that is entered is executed on.                  *)
TabFairSpec == TabSpec /\ WF_tabVars(inject_pluglet) /\ WF_tabVars(main_thread)

-----------------------------------------------------------------------------
(* Properties *)

(* The table, the positions of the two threads and the lock hold values the *)
(* code can give them.                                                      *)
TabTypeOK ==
    /\ stage \in [Point -> Stage]
    /\ arguments \subseteq Point
    /\ slot \in [Point -> [Slot -> SlotState]]
    /\ mpc \in {"recv", "create", "clear", "slot", "load", "context"}
    /\ req \in Requests
    /\ mpc # "recv" => req.point \in Point
    /\ target \in Slot
    /\ sent \in 0 .. MaxRequests
    /\ pc \in {"idle", "test", "exec", "run", "native", "terminated"}
    /\ at \in Point
    /\ cursor \in Slot
    /\ lock \in {"free", "held", "left"}
    /\ fault \in {"none", "raw", "loaded", "broken", "release", "manager"}
    /\ overlap \in BOOLEAN

(* The pluglets of an anchor fill its array from the front, so the loops    *)
(* that stop at the first NULL run every pluglet that was injected.         *)
SlotsArePrefix ==
    \A p \in Point, a \in Anchor, i, j \in Index :
        i <= j /\ slot[p][<<a, i>>] = "null" => slot[p][<<a, j>>] = "null"

(* The main thread meets a plugin or pluglet that is not set up only if an  *)
(* injection at the same insertion point overlaps its passage: injections   *)
(* that are over, refused ones included, leave nothing half built except    *)
(* pluglets whose load failed.                                              *)
UnreadyOnlyInRace == fault \in {"raw", "loaded"} => overlap

(* A pluglet of a guarded insertion point finds the argument and the heap   *)
(* of its plugin, unless an injection overlaps the passage: the prologue is *)
(* not repeated for a plugin that appears after it.                         *)
HeapWhenRunning == pc = "run" /\ at \in Guarded /\ ~overlap => at \in arguments

(* exec_loaded_code leaves the mutex locked only where pluglets_PRE[0] is   *)
(* run without a test, or where an injection overlaps the passage.          *)
LockLeftOnlyUntested ==
    [][lock = "free" /\ lock' = "left" => at \in Bare \/ overlap]_tabVars

(* A pluglet that is set up stays in its slot until the daemon terminates:  *)
(* no later injection replaces or unlinks it.                               *)
ReadyStays ==
    [][\A p \in Point, s \in Slot :
        slot[p][s] = "ready" => slot'[p][s] = "ready" \/ pc' = "terminated"]_tabVars

(* A passage through an insertion point comes to its end, unless the daemon *)
(* met undefined behaviour or the mutex was left locked before.             *)
PassageEnds ==
    pc \in {"test", "exec", "run", "native"} ~>
        pc \in {"idle", "terminated"} \/ fault # "none" \/ lock = "left"

(* inject_pluglet returns to msgrcv, whatever the main thread does.         *)
InjectionEnds == mpc # "recv" ~> mpc = "recv" \/ fault # "none"

(* "Lock for the current_context of execution of a pluglet": the mutex is   *)
(* locked only while a pluglet executes.                                    *)
LockedOnlyWhileRunning == lock # "free" => pc = "run" \/ ~Running
=============================================================================
