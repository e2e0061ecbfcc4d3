---------------------------- MODULE ServerProcess ----------------------------
(***************************************************************************)
(* The server process around the IOCP service: main (GT_Server_Wapper) with *)
(* the module wrapper's Initialize, StartGTService and ExitGTService, the   *)
(* event with which GT_ExitHelper asks for the end, the question on the     *)
(* console, and the callbacks, which are registered and unregistered by     *)
(* main while workers test and call them.                                   *)
(***************************************************************************)
EXTENDS IOCPService

VARIABLES
    process,                \* where main is, outside the service's functions
    m_event,                \* the global event: "none", "clear" or "set"
    read_event_call_back_,  \* the read callback is not nullptr
    calling,                \* workers that have tested the callback
    undelivered             \* history: an event with data found no callback

processVars == <<process, m_event, read_event_call_back_, calling, undelivered>>
allVars == <<vars, processVars>>

ProcessStates == {"initialize", "start", "create_event", "wait", "ask", "spin",
                  "unregister", "exit", "exiting"}

ProcessTypeOK ==
    /\ TypeOK
    /\ process \in ProcessStates
    /\ m_event \in {"none", "clear", "set"}
    /\ read_event_call_back_ \in BOOLEAN
    /\ calling \subseteq Threads
    /\ undelivered \in BOOLEAN

ProcessInit ==
    /\ Init
    /\ process = "initialize"
    /\ m_event = "none"
    /\ read_event_call_back_ = FALSE
    /\ calling = {}
    /\ undelivered = FALSE

-----------------------------------------------------------------------------
(* main                                                                     *)

ProcessGoes(from, to) ==
    /\ main # "crashed"
    /\ process = from
    /\ process' = to

\* Fault: the callbacks are not registered.
StartUnregistered ==
    /\ main \in {"inited", "failed"}
    /\ ProcessGoes("initialize", IF main = "inited" THEN "start" ELSE "unregister")
    /\ UNCHANGED <<vars, read_event_call_back_, m_event, calling, undelivered>>

\* GT_Module_Wrapper::Initialize, when GTIOCP_Initialize has returned.
RegisterCallbacks ==
    /\ main \in {"inited", "failed"}
    /\ ProcessGoes("initialize", IF main = "inited" THEN "start" ELSE "unregister")
    /\ read_event_call_back_' = TRUE
    /\ UNCHANGED <<vars, m_event, calling, undelivered>>

StartGTService ==
    /\ ProcessGoes("start", "create_event")
    /\ GTStartService
    /\ UNCHANGED <<m_event, read_event_call_back_, calling, undelivered>>

\* CreateEvent returns NULL when it fails, which is not what the result is
\* compared with: the loop then waits on no object, which fails at once.
CreateGlobalEvent ==
    /\ \/ ProcessGoes("create_event", "wait") /\ m_event' = "clear"
       \/ ProcessGoes("create_event", "spin") /\ UNCHANGED m_event
    /\ UNCHANGED <<vars, read_event_call_back_, calling, undelivered>>

WaitForSingleObject ==
    /\ m_event = "set"
    /\ ProcessGoes("wait", "ask")
    /\ UNCHANGED <<vars, m_event, read_event_call_back_, calling, undelivered>>

\* The user means to end the service.
AnswerYes ==
    /\ ProcessGoes("ask", "unregister")
    /\ m_event' = "none"
    /\ UNCHANGED <<vars, read_event_call_back_, calling, undelivered>>

\* ResetEvent, which also forgets a request that came during the question.
AnswerNo ==
    /\ ProcessGoes("ask", "wait")
    /\ m_event' = "clear"
    /\ UNCHANGED <<vars, read_event_call_back_, calling, undelivered>>

\* ExitGTService, before it stops the service.
UnregisterCallbacks ==
    /\ ProcessGoes("unregister", "exit")
    /\ read_event_call_back_' = FALSE
    /\ UNCHANGED <<vars, m_event, calling, undelivered>>

Uninitialize ==
    /\ ProcessGoes("exit", "exiting")
    /\ ExitGTService
    /\ UNCHANGED <<m_event, read_event_call_back_, calling, undelivered>>

\* What main does without being asked.
ProcessStep ==
    \/ RegisterCallbacks \/ StartGTService \/ CreateGlobalEvent
    \/ WaitForSingleObject \/ UnregisterCallbacks \/ Uninitialize
    \/ (InitializeStep \/ StopServiceStep) /\ UNCHANGED processVars

\* GT_ExitHelper: finds the event, or finds none and sets nothing.
SetEvent ==
    /\ m_event \in {"clear", "set"}
    /\ main # "crashed"
    /\ m_event' = "set"
    /\ UNCHANGED <<vars, process, read_event_call_back_, calling, undelivered>>

-----------------------------------------------------------------------------
(* A worker: DispatchEvent in the middle of an event.                       *)

\* An event without data, and the ends of the others, go without a call.
HandleOtherEvent(t) ==
    /\ t \notin calling
    /\ HandleEvent(t)
    /\ UNCHANGED processVars

\* The test for nullptr.
TestCallback(t) ==
    /\ main # "crashed"
    /\ thread[t] = "event"
    /\ t \notin calling
    /\ IF read_event_call_back_
       THEN /\ calling' = calling \cup {t}
            /\ UNCHANGED <<vars, undelivered>>
       ELSE /\ undelivered' = TRUE
            /\ HandleEvent(t)
            /\ UNCHANGED calling
    /\ UNCHANGED <<process, m_event, read_event_call_back_>>

\* The call.  The pointer is read again, or it is not: a callback that was
\* unregistered since the test is called through nullptr, or for the last time.
CallCallback(t) ==
    /\ t \in calling
    /\ calling' = calling \ {t}
    /\ \/ HandleEvent(t)
       \/ /\ ~read_event_call_back_
          /\ main # "crashed"
          /\ main' = "crashed"
          /\ UNCHANGED <<mainVars, threadVars, collectorVars, portVars>>
    /\ UNCHANGED <<process, m_event, read_event_call_back_, undelivered>>

WorkerStep(t) ==
    \/ LoopStep(t) /\ UNCHANGED processVars
    \/ HandleOtherEvent(t) \/ TestCallback(t) \/ CallCallback(t)

ProcessNext ==
    \/ ProcessStep \/ AnswerYes \/ AnswerNo \/ SetEvent
    \/ \E t \in Threads : WorkerStep(t)
    \/ (CollectorStep \/ EventCompletes) /\ UNCHANGED processVars

\* Threads run; whether and when somebody asks for the end, and what the
\* answer is, is left open.
ProcessSpec ==
    /\ ProcessInit /\ [][ProcessNext]_allVars
    /\ WF_allVars(ProcessStep)
    /\ \A t \in Threads : WF_allVars(WorkerStep(t))
    /\ WF_allVars(CollectorStep /\ UNCHANGED processVars)

-----------------------------------------------------------------------------

\* From the start of the service to the user's yes the callbacks are there:
\* no event with data is handled without being delivered and no worker calls
\* through nullptr, although registering follows the start of the workers.
\* Unregistering before the workers are stopped ends both guarantees.
CallbackThereWhileServing ==
    (undelivered \/ (main = "crashed" /\ accept_key)) => process \in {"exit", "exiting"}

\* A yes ends the process: the service stops, whatever the workers and the
\* collector are doing, unless a worker calls an unregistered callback.
YesEnds ==
    (process = "unregister" /\ main = "serving") ~> main \in {"stopped", "crashed"}

=============================================================================
