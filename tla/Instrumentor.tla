----------------------------- MODULE Instrumentor -----------------------------
(***************************************************************************)
(* Timer.h: profiling sessions. The main thread begins and ends a session, *)
(* starts tasks on the pool and waits for them, and has timed scopes of    *)
(* its own. A task's timer is destroyed, which writes its profile, when    *)
(* the task returns: after it has called done(), so that the main thread   *)
(* may have ended the session, and begun the next one, by then.            *)
(*                                                                         *)
(* WriteProfile holds mtx; BeginSession and EndSession do not. Their calls *)
(* on the stream and the reset of m_ProfileCount are steps of their own.   *)
(* When the main thread uses the stream while a thread is in WriteProfile  *)
(* the bytes of either may get lost.                                       *)
(*                                                                         *)
(* The barrier is that of Train, Predict and Converter: here the set of    *)
(* the tasks that have not called done().                                  *)
(***************************************************************************)
EXTENDS Integers, Sequences

CONSTANTS
    Threads,            \* the threads of the pool
    MainThread,
    Timers,             \* what is timed, by name
    Sessions            \* [tasks: those with a timer, scopes: of the main thread]

ASSUME InstrumentorAssumption ==
    /\ MainThread \notin Threads
    /\ Sessions \in Seq([tasks : SUBSET Timers, scopes : SUBSET Timers])
    /\ \A s \in DOMAIN Sessions : Sessions[s].tasks \cap Sessions[s].scopes = {}

VARIABLES
    pc, session,        \* of the main thread
    tasks, scopes,      \* to come in the session
    waiting, undone,    \* tasks nobody has taken, tasks without done()
    writer,             \* what each thread does for its profile
    m_ProfileCount,
    m_OutputStream,     \* the session whose file is open, or Closed
    files,              \* session -> what was written to its file
    disturbed           \* history: sessions whose beginning or end met a
                        \* thread within WriteProfile

main == <<pc, session, tasks, scopes>>
vars == <<main, waiting, undone, writer, m_ProfileCount, m_OutputStream, files, disturbed>>

Closed == 0
Writers == Threads \cup {MainThread}
NoProfile == <<>>
Writer(at, profile, count) == [at |-> at, profile |-> profile, count |-> count]
Idle == Writer("idle", NoProfile, 0)

(* What is written: header, footer, or an entry, before which a comma goes  *)
(* when its count is above 0.                                               *)
Header == [is |-> "header", count |-> 0, profile |-> NoProfile]
Footer == [is |-> "footer", count |-> 0, profile |-> NoProfile]
Entry(count, profile) == [is |-> "entry", count |-> count, profile |-> profile]

Init ==
    /\ pc = "begin" /\ session = 1
    /\ tasks = {} /\ scopes = {}
    /\ waiting = {}
    /\ undone = {}
    /\ writer = [w \in Writers |-> Idle]
    /\ m_ProfileCount = 0
    /\ m_OutputStream = Closed
    /\ files = [s \in {} |-> <<>>]
    /\ disturbed = {}

(* Within WriteProfile, which is to hold mtx.                               *)
Writing(w) == writer[w].at \in {"count", "write"}

(* operator<< on the stream, by the main thread or within WriteProfile. It  *)
(* goes nowhere when no file is open.                                       *)
Output(item) ==
    [s \in DOMAIN files |->
        IF s = m_OutputStream THEN Append(files[s], item) ELSE files[s]]

(* Sessions that a writing thread spoils: the one whose footer is written   *)
(* and whose file is still open, the one that has no header yet.            *)
Disturbs ==
    disturbed' = disturbed \cup
        (IF pc' \in {"begin", "header", "close"} /\ \E t \in Threads : Writing(t)'
         THEN {session'} ELSE {})

-----------------------------------------------------------------------------
(* BeginSession and EndSession *)

(* The directory may not exist: then everything goes nowhere.               *)
Open ==
    /\ pc = "begin"
    /\ session <= Len(Sessions)
    /\ \/ /\ m_OutputStream' = session
          /\ files' = [s \in DOMAIN files \cup {session} |->
                          IF s = session THEN <<>> ELSE files[s]]
       \/ UNCHANGED <<m_OutputStream, files>>
    /\ pc' = "header"
    /\ UNCHANGED <<session, tasks, scopes, waiting, undone, writer, m_ProfileCount>>
    /\ Disturbs

WriteHeader ==
    /\ pc = "header"
    /\ \/ files' = Output(Header)
       \/ files' = files /\ \E t \in Threads : Writing(t)
    /\ pc' = "session"
    /\ tasks' = Sessions[session].tasks
    /\ scopes' = Sessions[session].scopes
    /\ UNCHANGED <<session, waiting, undone, writer, m_ProfileCount, m_OutputStream>>
    /\ Disturbs

WriteFooter ==
    /\ pc = "session"
    /\ tasks = {} /\ scopes = {} /\ undone = {}
    /\ writer[MainThread] = Idle
    /\ \/ files' = Output(Footer)
       \/ files' = files /\ \E t \in Threads : Writing(t)
    /\ pc' = "close"
    /\ UNCHANGED <<session, tasks, scopes, waiting, undone, writer, m_ProfileCount, m_OutputStream>>
    /\ Disturbs

Close ==
    /\ pc = "close"
    /\ m_OutputStream' = Closed
    /\ pc' = "reset"
    /\ UNCHANGED <<session, tasks, scopes, waiting, undone, writer, m_ProfileCount, files>>
    /\ Disturbs

Reset_Forgotten ==    \* mutant: m_ProfileCount = 0 is missing
    /\ pc = "reset"
    /\ pc' = "begin"
    /\ session' = session + 1
    /\ UNCHANGED <<tasks, scopes, waiting, undone, writer, m_ProfileCount, m_OutputStream, files>>
    /\ Disturbs

Reset ==
    /\ pc = "reset"
    /\ m_ProfileCount' = 0
    /\ pc' = "begin"
    /\ session' = session + 1
    /\ UNCHANGED <<tasks, scopes, waiting, undone, writer, m_OutputStream, files>>
    /\ Disturbs

-----------------------------------------------------------------------------
(* Within a session: the main thread starts tasks, in whatever order they   *)
(* are then taken, and its scopes end, at the latest before EndSession.     *)

StartTask ==
    /\ pc = "session"
    /\ \E task \in tasks :
          /\ tasks' = tasks \ {task}
          /\ waiting' = waiting \cup {<<session, task>>}
          /\ undone' = undone \cup {<<session, task>>}
    /\ UNCHANGED <<pc, session, scopes, writer, m_ProfileCount, m_OutputStream, files>>
    /\ Disturbs

EndScope ==
    /\ pc = "session"
    /\ writer[MainThread] = Idle
    /\ \E scope \in scopes :
          /\ scopes' = scopes \ {scope}
          /\ writer' = [writer EXCEPT ![MainThread] =
                           Writer("stop", <<session, scope>>, 0)]
    /\ UNCHANGED <<pc, session, tasks, waiting, undone, m_ProfileCount, m_OutputStream, files>>
    /\ Disturbs

Dispatch(t) ==
    /\ writer[t] = Idle
    /\ \E task \in waiting :
          /\ waiting' = waiting \ {task}
          /\ writer' = [writer EXCEPT ![t] = Writer("run", task, 0)]
    /\ UNCHANGED <<main, undone, m_ProfileCount, m_OutputStream, files>>
    /\ Disturbs

(* The last statement of StoreKPackets and of PredictGroups.                *)
Done(t) ==
    /\ writer[t].at = "run"
    /\ undone' = undone \ {writer[t].profile}
    /\ writer' = [writer EXCEPT ![t] = Writer("stop", writer[t].profile, 0)]
    /\ UNCHANGED <<main, waiting, m_ProfileCount, m_OutputStream, files>>
    /\ Disturbs

-----------------------------------------------------------------------------
(* InstrumentationTimer::Stop, WriteProfile *)

Test_NoLock(w) ==    \* mutant: WriteProfile without mtx
    /\ writer[w].at = "stop"
    /\ writer' = [writer EXCEPT ![w] = Writer("count", writer[w].profile, m_ProfileCount)]
    /\ UNCHANGED <<main, waiting, undone, m_ProfileCount, m_OutputStream, files>>
    /\ Disturbs

(* The lock is free and taken; m_ProfileCount is read.                      *)
Test(w) ==
    /\ writer[w].at = "stop"
    /\ \A v \in Writers : ~Writing(v)
    /\ writer' = [writer EXCEPT ![w] = Writer("count", writer[w].profile, m_ProfileCount)]
    /\ UNCHANGED <<main, waiting, undone, m_ProfileCount, m_OutputStream, files>>
    /\ Disturbs

(* m_ProfileCount++ writes back what was read.                              *)
Count(w) ==
    /\ writer[w].at = "count"
    /\ m_ProfileCount' = writer[w].count + 1
    /\ writer' = [writer EXCEPT ![w] = Writer("write", writer[w].profile, writer[w].count)]
    /\ UNCHANGED <<main, waiting, undone, m_OutputStream, files>>
    /\ Disturbs

(* The comma, when what m_ProfileCount++ returned is above 0, and the entry. *)
WriteEntry(w) ==
    /\ writer[w].at = "write"
    /\ \/ files' = Output(Entry(writer[w].count, writer[w].profile))
       \/ files' = files /\ session \in disturbed
    /\ writer' = [writer EXCEPT ![w] = Idle]
    /\ UNCHANGED <<main, waiting, undone, m_ProfileCount, m_OutputStream>>
    /\ Disturbs

WriteProfile(w) == Test(w) \/ Count(w) \/ WriteEntry(w)

Ended == pc = "begin" /\ session > Len(Sessions)

Terminating ==
    /\ Ended /\ \A t \in Threads : writer[t] = Idle
    /\ UNCHANGED vars

Next ==
    \/ Open \/ WriteHeader \/ StartTask \/ EndScope \/ WriteFooter \/ Close \/ Reset
    \/ WriteProfile(MainThread)
    \/ \E t \in Threads : Dispatch(t) \/ Done(t) \/ WriteProfile(t)
    \/ Terminating

Spec == Init /\ [][Next]_vars

-----------------------------------------------------------------------------
(* Properties *)

Has(file, profile) == \E i \in DOMAIN file : file[i].is = "entry" /\ file[i].profile = profile

(* A JSON document: header, entries with a comma before all but the first,  *)
(* footer.                                                                  *)
WellFormed(file) ==
    /\ Len(file) >= 2
    /\ file[1] = Header
    /\ file[Len(file)] = Footer
    /\ \A i \in 2 .. Len(file) - 1 : file[i].is = "entry" /\ (file[i].count > 0 <=> i > 2)

(* The file of a session is a JSON document with every scope of the main    *)
(* thread in it, unless a thread was within WriteProfile just when the      *)
(* session began or ended. A task's profile that is not in it when the      *)
(* footer is written is in the hands of a thread that has called done();    *)
(* it goes into a later file or nowhere, but no profile is written twice.   *)
SessionFile ==
    /\ \A s \in DOMAIN files \ (disturbed \cup {m_OutputStream}) :
          /\ WellFormed(files[s])
          /\ \A scope \in Sessions[s].scopes : Has(files[s], <<s, scope>>)
    /\ pc = "close" /\ m_OutputStream # Closed /\ session \notin disturbed =>
          \A task \in Sessions[session].tasks :
             \/ Has(files[session], <<session, task>>)
             \/ \E t \in Threads : /\ writer[t].at \in {"stop", "count", "write"}
                                   /\ writer[t].profile = <<session, task>>
    /\ \A s, r \in DOMAIN files : \A i \in DOMAIN files[s], j \in DOMAIN files[r] :
          files[s][i].is = "entry" /\ files[s][i].profile = files[r][j].profile
             => s = r /\ i = j

(* Timer.h:43-46, "something wrong m_profile count is not 0": a session     *)
(* begins with no profile counted.                                          *)
CountStartsAtZero == pc = "begin" => m_ProfileCount = 0
=============================================================================
