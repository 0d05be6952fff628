------------------------- MODULE Instrumentor_proofs -------------------------
(***************************************************************************)
(* SessionFile of Instrumentor, for any sessions, timers and threads.      *)
(***************************************************************************)
EXTENDS Instrumentor, TLAPS

Profile == (1 .. Len(Sessions)) \X Timers

Item == [is : {"header", "footer", "entry"}, count : Nat, profile : Profile \cup {NoProfile}]

WriterOK == writer \in [Writers -> [at : {"idle", "run", "stop", "count", "write"},
                                    profile : Profile \cup {NoProfile},
                                    count : Nat]]

FilesOK ==
    /\ files = [s \in DOMAIN files |-> files[s]]
    /\ \A s \in DOMAIN files : files[s] \in Seq(Item)

TypeOK ==
    /\ pc \in {"begin", "header", "session", "close", "reset"}
    /\ session \in 1 .. Len(Sessions) + 1
    /\ pc # "begin" => session \in 1 .. Len(Sessions)
    /\ tasks \subseteq Timers /\ scopes \subseteq Timers
    /\ waiting \subseteq Profile
    /\ undone \subseteq Profile
    /\ WriterOK
    /\ m_ProfileCount \in Nat
    /\ m_OutputStream \in 0 .. Len(Sessions)
    /\ FilesOK

(* Only the present session's file is open, from Open to Close, and the     *)
(* main thread has scopes to end in a session only.                         *)
InSession ==
    /\ DOMAIN files \subseteq 1 .. Len(Sessions)
    /\ \A s \in DOMAIN files : s <= session /\ (s = session => pc # "begin")
    /\ m_OutputStream # Closed =>
          /\ m_OutputStream = session
          /\ session \in DOMAIN files
          /\ pc \in {"header", "session", "close"}
    /\ pc \in {"header", "session", "close"} /\ session \in DOMAIN files =>
          m_OutputStream = session
    /\ IF pc = "session"
       THEN /\ tasks \subseteq Sessions[session].tasks
            /\ scopes \subseteq Sessions[session].scopes
       ELSE tasks = {} /\ scopes = {} /\ writer[MainThread].at = "idle"

Mutex == \A v, w \in Writers : Writing(v) /\ Writing(w) => v = w

Quiet ==
    pc \in {"begin", "header", "close"} /\ session \notin disturbed =>
        \A t \in Threads : ~Writing(t)

Started(file) ==
    /\ Len(file) >= 1
    /\ file[1] = Header
    /\ \A i \in 2 .. Len(file) : file[i].is = "entry" /\ (file[i].count > 0 <=> i > 2)

(* m_ProfileCount is the number of entries, the one being written included. *)
Counted ==
    session \notin disturbed =>
        /\ pc \in {"begin", "header"} => m_ProfileCount = 0
        /\ pc = "session" /\ m_OutputStream # Closed =>
              LET length == Len(files[session])
              IN  /\ (\A w \in Writers : writer[w].at # "write") => m_ProfileCount = length - 1
                  /\ \A w \in Writers :
                        /\ Writing(w) => writer[w].count = length - 1
                        /\ writer[w].at = "write" => m_ProfileCount = length

Content ==
    \A s \in DOMAIN files \ disturbed :
        IF s = session /\ pc = "header" THEN files[s] = <<>>
        ELSE IF s = session /\ pc = "session" THEN Started(files[s])
        ELSE WellFormed(files[s])

(* A scope has its entry, or it has not ended, or is being written.         *)
ScopesFiled ==
    \A s \in DOMAIN files \ disturbed : \A scope \in Sessions[s].scopes :
        \/ Has(files[s], <<s, scope>>)
        \/ s = session /\ pc = "header"
        \/ /\ s = session /\ pc = "session"
           /\ \/ scope \in scopes
              \/ writer[MainThread].at # "idle" /\ writer[MainThread].profile = <<s, scope>>

TasksFiled ==
    pc \in {"session", "close"} /\ m_OutputStream # Closed /\ session \notin disturbed =>
        \A task \in Sessions[session].tasks :
           \/ Has(files[session], <<session, task>>)
           \/ pc = "session" /\ (task \in tasks \/ <<session, task>> \in undone)
           \/ \E t \in Threads : /\ writer[t].at \in {"stop", "count", "write"}
                                 /\ writer[t].profile = <<session, task>>

(* p has been started.                                                      *)
Begun(p) ==
    \/ p[1] < session
    \/ /\ p[1] = session /\ pc \notin {"begin", "header"}
       /\ p[2] \notin tasks \cup scopes

Filed(p) == \E s \in DOMAIN files : Has(files[s], p)

(* Only entries name a profile, each its own.                               *)
EntriesOnce ==
    /\ \A s \in DOMAIN files : \A i \in DOMAIN files[s] :
          IF files[s][i].is = "entry" THEN files[s][i].profile \in Profile
          ELSE files[s][i].profile = NoProfile
    /\ \A s, r \in DOMAIN files : \A i \in DOMAIN files[s], j \in DOMAIN files[r] :
          files[s][i].is = "entry" /\ files[s][i].profile = files[r][j].profile
             => s = r /\ i = j

(* A profile is waiting, or with one thread, or in a file.                  *)
Once ==
    /\ \A p \in waiting : Begun(p) /\ ~Filed(p)
    /\ \A w \in Writers : writer[w].at # "idle" =>
          /\ writer[w].profile \in Profile \ waiting
          /\ Begun(writer[w].profile)
          /\ ~Filed(writer[w].profile)
    /\ \A v, w \in Writers :
          /\ v # w /\ writer[v].at # "idle" /\ writer[w].at # "idle"
          => writer[v].profile # writer[w].profile
    /\ \A p \in Profile : Filed(p) => Begun(p)

IInv == /\ TypeOK /\ InSession /\ Mutex /\ Quiet /\ Counted /\ Content
        /\ ScopesFiled /\ TasksFiled /\ EntriesOnce /\ Once

-----------------------------------------------------------------------------
(* The start, and what the actions do with the files and the writers *)

(* Init is in the invariant.                                                *)
THEOREM Initially == Init => IInv
BY InstrumentorAssumption, SMT
   DEF Init, IInv, Writer, TypeOK, WriterOK, FilesOK, InSession, Mutex, Quiet, Counted, Content, ScopesFiled,
       TasksFiled, EntriesOnce, Once, Filed, Has, Writing, Idle, Closed, Profile, NoProfile, Writers

LEMMA HasAppended ==
    ASSUME NEW S, NEW file \in Seq(S), NEW item \in S, NEW p
    PROVE  Has(Append(file, item), p)
              <=> Has(file, p) \/ (item.is = "entry" /\ item.profile = p)
<1>1. /\ Append(file, item)[Len(file) + 1] = item
      /\ \A i \in DOMAIN file : i \in DOMAIN Append(file, item) /\ Append(file, item)[i] = file[i]
      /\ Len(file) + 1 \in DOMAIN Append(file, item)
      /\ \A i \in DOMAIN Append(file, item) : i \in DOMAIN file \/ i = Len(file) + 1
  BY SMT
<1> QED BY <1>1 DEF Has

LEMMA Items ==
    /\ Header \in Item /\ Footer \in Item
    /\ Header.is = "header" /\ Footer.is = "footer" /\ Header # Footer
    /\ \A count \in Nat, p \in Profile \cup {NoProfile} :
          /\ Entry(count, p) \in Item
          /\ Entry(count, p).is = "entry"
          /\ Entry(count, p).count = count
          /\ Entry(count, p).profile = p
BY SMT DEF Header, Footer, Entry, Item

LEMMA OutputTyped ==
    ASSUME TypeOK, NEW item \in Item
    PROVE  /\ DOMAIN Output(item) = DOMAIN files
           /\ Output(item) = [s \in DOMAIN Output(item) |-> Output(item)[s]]
           /\ \A s \in DOMAIN files : Output(item)[s] \in Seq(Item)
<1>1. \A s \in DOMAIN files : files[s] \in Seq(Item)
  BY DEF TypeOK, FilesOK
<1>2. \A s \in DOMAIN files : Append(files[s], item) \in Seq(Item)
  BY <1>1, SMT
<1> QED BY <1>1, <1>2 DEF Output

LEMMA ElementTyped ==
    ASSUME NEW S, NEW seq \in Seq(S), NEW n \in 1 .. Len(seq)
    PROVE  seq[n] \in S
BY SMT

-----------------------------------------------------------------------------
(* Types *)

LEMMA WriterTyped ==
    ASSUME TypeOK, NEW w \in Writers,
           NEW at \in {"idle", "run", "stop", "count", "write"},
           NEW profile \in Profile \cup {NoProfile}, NEW count \in Nat,
           writer' = [writer EXCEPT ![w] = Writer(at, profile, count)]
    PROVE  WriterOK'
BY SMT DEF TypeOK, WriterOK, Writer

LEMMA TypePreserved ==
    ASSUME TypeOK, InSession, [Next]_vars
    PROVE  TypeOK'
<1> USE DEF main
<1>0. FilesOK BY DEF TypeOK
<1>1. CASE Open
  <2>1. <<>> \in Seq(Item) BY SMT
  <2>2. ASSUME UNCHANGED files PROVE FilesOK' BY <1>0, <2>2 DEF FilesOK
  <2>3. ASSUME files' = [s \in DOMAIN files \cup {session} |->
                            IF s = session THEN <<>> ELSE files[s]]
        PROVE  FilesOK'
    BY <1>0, <2>1, <2>3 DEF FilesOK
  <2>4. FilesOK' BY <1>1, <2>2, <2>3 DEF Open
  <2>5. /\ m_OutputStream' \in 0 .. Len(Sessions)
        /\ session \in 1 .. Len(Sessions)
    BY <1>1, InstrumentorAssumption, SMT DEF Open, TypeOK
  <2> QED BY <1>1, <2>4, <2>5 DEF TypeOK, WriterOK, Open
<1>2. CASE WriteHeader
  <2>1. FilesOK' BY <1>0, <1>2, OutputTyped, Items DEF WriteHeader, FilesOK
  <2>2. Sessions[session] \in [tasks : SUBSET Timers, scopes : SUBSET Timers]
    BY <1>2, InstrumentorAssumption, ElementTyped DEF TypeOK, WriteHeader
  <2>3. tasks' \subseteq Timers /\ scopes' \subseteq Timers
    BY <1>2, <2>2, SMT DEF WriteHeader
  <2> QED BY <1>2, <2>1, <2>3 DEF TypeOK, WriterOK, WriteHeader
<1>3. CASE WriteFooter
  <2>1. FilesOK' BY <1>0, <1>3, OutputTyped, Items DEF WriteFooter, FilesOK
  <2> QED BY <1>3, <2>1 DEF TypeOK, WriterOK, WriteFooter
<1>4. CASE Close
  <2>1. m_OutputStream' \in 0 .. Len(Sessions)
    BY <1>4, InstrumentorAssumption, SMT DEF Close, Closed
  <2> QED BY <1>4, <2>1 DEF TypeOK, WriterOK, FilesOK, Close
<1>5. CASE Reset
  <2>1. session' \in 1 .. Len(Sessions) + 1 /\ m_ProfileCount' \in Nat
    BY <1>5, InstrumentorAssumption, SMT DEF TypeOK, Reset
  <2> QED BY <1>5, <2>1 DEF TypeOK, WriterOK, FilesOK, Reset
<1>6. CASE StartTask
  <2>1. waiting' \subseteq Profile /\ undone' \subseteq Profile /\ tasks' \subseteq Timers
    BY <1>6, SMT DEF TypeOK, StartTask, Profile
  <2> QED BY <1>6, <2>1 DEF TypeOK, WriterOK, FilesOK, StartTask
<1>7. CASE EndScope
  <2>1. PICK scope \in scopes :
           /\ scopes' = scopes \ {scope}
           /\ writer' = [writer EXCEPT ![MainThread] = Writer("stop", <<session, scope>>, 0)]
    BY <1>7 DEF EndScope
  <2>2. <<session, scope>> \in Profile /\ scopes' \subseteq Timers /\ 0 \in Nat
    BY <1>7, <2>1, SMT DEF TypeOK, EndScope, Profile
  <2>3. WriterOK' BY <2>1, <2>2, WriterTyped DEF Writers
  <2> QED BY <1>7, <2>2, <2>3 DEF TypeOK, FilesOK, EndScope
<1>8. ASSUME NEW t \in Threads, Dispatch(t) PROVE TypeOK'
  <2>1. PICK task \in waiting : /\ waiting' = waiting \ {task}
                                /\ writer' = [writer EXCEPT ![t] = Writer("run", task, 0)]
    BY <1>8 DEF Dispatch
  <2>2. task \in Profile /\ waiting' \subseteq Profile BY <2>1 DEF TypeOK
  <2>3. 0 \in Nat BY SMT
  <2>4. WriterOK' BY <2>1, <2>2, <2>3, WriterTyped DEF Writers
  <2> QED BY <1>8, <2>2, <2>4 DEF TypeOK, FilesOK, Dispatch
<1>9. ASSUME NEW w \in Writers PROVE /\ writer[w].profile \in Profile \cup {NoProfile}
                                     /\ writer[w].count \in Nat
  BY <1>9, SMT DEF TypeOK, WriterOK
<1>10. ASSUME NEW t \in Threads, Done(t) PROVE TypeOK'
  <2>1. t \in Writers /\ 0 \in Nat BY SMT DEF Writers
  <2>2. writer' = [writer EXCEPT ![t] = Writer("stop", writer[t].profile, 0)]
    BY <1>10 DEF Done
  <2>3. writer[t].profile \in Profile \cup {NoProfile} BY <1>9, <2>1
  <2>4. WriterOK' BY <2>1, <2>2, <2>3, WriterTyped
  <2>5. undone' \subseteq Profile BY <1>10 DEF TypeOK, Done
  <2> QED BY <1>10, <2>4, <2>5 DEF TypeOK, FilesOK, Done
<1>11. ASSUME NEW w \in Writers, Test(w) PROVE TypeOK'
  <2>1. m_ProfileCount \in Nat BY DEF TypeOK
  <2>2. writer' = [writer EXCEPT ![w] = Writer("count", writer[w].profile, m_ProfileCount)]
    BY <1>11 DEF Test
  <2>3. writer[w].profile \in Profile \cup {NoProfile} BY <1>9
  <2>4. WriterOK' BY <2>1, <2>2, <2>3, WriterTyped
  <2> QED BY <1>11, <2>4 DEF TypeOK, FilesOK, Test
<1>12. ASSUME NEW w \in Writers, Count(w) PROVE TypeOK'
  <2>1. m_ProfileCount' \in Nat BY <1>9, <1>12, SMT DEF Count
  <2>2. writer' = [writer EXCEPT ![w] = Writer("write", writer[w].profile, writer[w].count)]
    BY <1>12 DEF Count
  <2>3. WriterOK' BY <1>9, <2>2, WriterTyped
  <2> QED BY <1>12, <2>1, <2>3 DEF TypeOK, FilesOK, Count
<1>13. ASSUME NEW w \in Writers, WriteEntry(w) PROVE TypeOK'
  <2>1. Entry(writer[w].count, writer[w].profile) \in Item BY <1>9, Items
  <2>2. FilesOK' BY <1>0, <1>13, <2>1, OutputTyped DEF WriteEntry, FilesOK
  <2>3. 0 \in Nat BY SMT
  <2>4. WriterOK' BY <1>13, <2>3, WriterTyped DEF WriteEntry, Idle
  <2> QED BY <1>13, <2>2, <2>4 DEF TypeOK, WriteEntry
<1>14. CASE UNCHANGED vars
  BY <1>14 DEF TypeOK, WriterOK, FilesOK, vars
<1> QED BY <1>1, <1>2, <1>3, <1>4, <1>5, <1>6, <1>7, <1>8, <1>10, <1>11, <1>12, <1>13, <1>14
        DEF Next, Terminating, WriteProfile, Writers

(* Only Open adds a file.                                                   *)
LEMMA FilesAdded ==
    ASSUME [Next]_vars
    PROVE  DOMAIN files' = DOMAIN files \/ Open
<1>1. \A item : DOMAIN Output(item) = DOMAIN files BY DEF Output
<1> QED BY <1>1 DEF Next, WriteProfile, WriteHeader, StartTask, EndScope, WriteFooter, Close, Reset,
              Dispatch, Done, Test, Count, WriteEntry, Terminating, vars

(* What happens while a session is running leaves the main thread's place,  *)
(* the session and the stream as they are.                                  *)
LEMMA Running ==
    ASSUME [Next]_vars, ~Open, ~WriteHeader, ~WriteFooter, ~Close, ~Reset
    PROVE  UNCHANGED <<pc, session, m_OutputStream>>
BY DEF Next, WriteProfile, StartTask, EndScope, Dispatch, Done, Test, Count, WriteEntry,
       Terminating, vars, main

(* The main thread's record changes in EndScope and in its WriteProfile.    *)
LEMMA MainWriter ==
    ASSUME TypeOK, InSession, [Next]_vars
    PROVE  UNCHANGED writer[MainThread] \/ (pc = "session" /\ pc' = "session")
<1> USE DEF main
<1>1. MainThread \in Writers /\ MainThread \notin Threads BY InstrumentorAssumption DEF Writers
<1>2. writer = [w \in Writers |-> writer[w]] BY DEF TypeOK, WriterOK
<1>3. ASSUME NEW t \in Threads, Dispatch(t) \/ Done(t) \/ Test(t) \/ Count(t) \/ WriteEntry(t)
      PROVE  UNCHANGED writer[MainThread]
  BY <1>1, <1>2, <1>3 DEF Dispatch, Done, Test, Count, WriteEntry
<1>4. ASSUME EndScope \/ Test(MainThread) \/ Count(MainThread) \/ WriteEntry(MainThread)
      PROVE  pc = "session" /\ pc' = "session"
  <2>1. Test(MainThread) \/ Count(MainThread) \/ WriteEntry(MainThread)
           => writer[MainThread].at # "idle" /\ pc' = pc
    BY DEF Test, Count, WriteEntry
  <2> QED BY <1>4, <2>1 DEF EndScope, InSession
<1> QED BY <1>3, <1>4 DEF Next, WriteProfile, Open, WriteHeader, StartTask, WriteFooter, Close, Reset,
            Terminating, vars

LEMMA InSessionPreserved ==
    ASSUME TypeOK, InSession, [Next]_vars, TypeOK'
    PROVE  InSession'
<1> USE DEF main
<1> DEFINE Stream ==
        /\ DOMAIN files \subseteq 1 .. Len(Sessions)
        /\ \A s \in DOMAIN files : s <= session /\ (s = session => pc # "begin")
        /\ m_OutputStream # Closed =>
              /\ m_OutputStream = session
              /\ session \in DOMAIN files
              /\ pc \in {"header", "session", "close"}
        /\ pc \in {"header", "session", "close"} /\ session \in DOMAIN files =>
              m_OutputStream = session
<1>1. Stream /\ Len(Sessions) \in Nat /\ session \in 1 .. Len(Sessions) + 1
  BY InstrumentorAssumption DEF InSession, TypeOK
<1>2. Stream'
  <2>1. CASE Open
    <3>1. session \in 1 .. Len(Sessions) BY <1>1, <2>1, SMT DEF Open
    <3>2. session \notin DOMAIN files /\ m_OutputStream = Closed BY <1>1, <2>1 DEF Open
    <3>3. CASE m_OutputStream' = session /\ DOMAIN files' = DOMAIN files \cup {session}
      BY <1>1, <2>1, <3>1, <3>3, SMT DEF Open
    <3>4. CASE UNCHANGED <<m_OutputStream, files>>
      BY <1>1, <2>1, <3>1, <3>2, <3>4, SMT DEF Open
    <3> QED BY <2>1, <3>3, <3>4 DEF Open
  <2>2. ASSUME DOMAIN files' = DOMAIN files, WriteHeader \/ WriteFooter \/ Close \/ Reset
        PROVE  Stream'
    BY <1>1, <2>2, SMT DEF WriteHeader, WriteFooter, Close, Reset, Closed
  <2>3. ASSUME DOMAIN files' = DOMAIN files, UNCHANGED <<pc, session, m_OutputStream>>
        PROVE  Stream'
    BY <1>1, <2>3, SMT
  <2> QED BY <2>1, <2>2, <2>3, FilesAdded, Running
<1> DEFINE Main ==
        IF pc = "session"
        THEN /\ tasks \subseteq Sessions[session].tasks
             /\ scopes \subseteq Sessions[session].scopes
        ELSE tasks = {} /\ scopes = {} /\ writer[MainThread].at = "idle"
<1>3. Main'
  <2>1. CASE WriteHeader BY <2>1 DEF WriteHeader
  <2>2. CASE WriteFooter BY <2>2 DEF WriteFooter, Idle, Writer
  <2>3. CASE Open \/ Close \/ Reset BY <2>3 DEF Open, Close, Reset, InSession
  <2>4. ASSUME UNCHANGED <<pc, session>> PROVE Main'
    <3>1. tasks' \subseteq tasks /\ scopes' \subseteq scopes
      BY <2>4 DEF Next, WriteProfile, Open, WriteHeader, StartTask, EndScope, WriteFooter, Close, Reset,
                  Dispatch, Done, Test, Count, WriteEntry, Terminating, vars
    <3> QED BY <2>4, <3>1, MainWriter DEF InSession
  <2> QED BY <2>1, <2>2, <2>3, <2>4, Running
<1> QED BY <1>2, <1>3 DEF InSession

-----------------------------------------------------------------------------
(* The lock, and what meets the beginning and the end of a session *)

(* A thread's record changes in its own steps only.                         *)
LEMMA WriterFields ==
    ASSUME NEW at, NEW profile, NEW count
    PROVE  /\ Writer(at, profile, count).at = at
           /\ Writer(at, profile, count).profile = profile
           /\ Writer(at, profile, count).count = count
BY DEF Writer

LEMMA TestDoes ==
    ASSUME TypeOK, NEW w \in Writers, Test(w)
    PROVE  /\ writer'[w].at = "count" /\ writer'[w].profile = writer[w].profile
           /\ writer'[w].count = m_ProfileCount
           /\ \A v \in Writers : v # w => writer'[v] = writer[v]
<1>1. /\ writer'[w] = Writer("count", writer[w].profile, m_ProfileCount)
      /\ \A v \in Writers : v # w => writer'[v] = writer[v]
  BY DEF Test, TypeOK, WriterOK
<1> QED BY <1>1, WriterFields

LEMMA CountDoes ==
    ASSUME TypeOK, NEW w \in Writers, Count(w)
    PROVE  /\ writer'[w].at = "write" /\ writer'[w].profile = writer[w].profile
           /\ writer'[w].count = writer[w].count
           /\ \A v \in Writers : v # w => writer'[v] = writer[v]
<1>1. /\ writer'[w] = Writer("write", writer[w].profile, writer[w].count)
      /\ \A v \in Writers : v # w => writer'[v] = writer[v]
  BY DEF Count, TypeOK, WriterOK
<1> QED BY <1>1, WriterFields

LEMMA WriteEntryDoes ==
    ASSUME TypeOK, NEW w \in Writers, WriteEntry(w)
    PROVE  /\ writer'[w] = Idle /\ writer'[w].at = "idle"
           /\ \A v \in Writers : v # w => writer'[v] = writer[v]
<1>1. writer'[w] = Idle /\ \A v \in Writers : v # w => writer'[v] = writer[v]
  BY DEF WriteEntry, TypeOK, WriterOK
<1> QED BY <1>1, WriterFields DEF Idle

LEMMA DoneDoes ==
    ASSUME TypeOK, NEW t \in Threads, Done(t)
    PROVE  /\ writer'[t].at = "stop" /\ writer'[t].profile = writer[t].profile
           /\ \A v \in Writers : v # t => writer'[v] = writer[v]
<1>1. /\ writer'[t] = Writer("stop", writer[t].profile, 0)
      /\ \A v \in Writers : v # t => writer'[v] = writer[v]
  BY DEF Done, TypeOK, WriterOK, Writers
<1> QED BY <1>1, WriterFields

LEMMA DispatchDoes ==
    ASSUME TypeOK, NEW t \in Threads, Dispatch(t)
    PROVE  \E task \in waiting :
              /\ waiting' = waiting \ {task}
              /\ writer'[t].at = "run" /\ writer'[t].profile = task
              /\ \A v \in Writers : v # t => writer'[v] = writer[v]
<1>1. PICK task \in waiting : /\ waiting' = waiting \ {task}
                              /\ writer' = [writer EXCEPT ![t] = Writer("run", task, 0)]
  BY DEF Dispatch
<1>2. /\ writer'[t] = Writer("run", task, 0)
      /\ \A v \in Writers : v # t => writer'[v] = writer[v]
  BY <1>1 DEF TypeOK, WriterOK, Writers
<1> QED BY <1>1, <1>2, WriterFields

LEMMA EndScopeDoes ==
    ASSUME TypeOK, EndScope
    PROVE  \E scope \in scopes :
              /\ scopes' = scopes \ {scope}
              /\ writer'[MainThread].at = "stop"
              /\ writer'[MainThread].profile = <<session, scope>>
              /\ \A v \in Writers : v # MainThread => writer'[v] = writer[v]
<1>1. PICK scope \in scopes :
         /\ scopes' = scopes \ {scope}
         /\ writer' = [writer EXCEPT ![MainThread] = Writer("stop", <<session, scope>>, 0)]
  BY DEF EndScope
<1>2. /\ writer'[MainThread] = Writer("stop", <<session, scope>>, 0)
      /\ \A v \in Writers : v # MainThread => writer'[v] = writer[v]
  BY <1>1 DEF TypeOK, WriterOK, Writers
<1> QED BY <1>1, <1>2, WriterFields

(* Nobody gets to write but by taking the lock.                             *)
LEMMA WritingAfter ==
    ASSUME TypeOK, [Next]_vars, NEW w \in Writers, Writing(w)'
    PROVE  Writing(w) \/ Test(w)
<1>1. CASE EndScope BY <1>1, EndScopeDoes DEF Writing
<1>2. ASSUME NEW t \in Threads, Dispatch(t) PROVE Writing(w)
  BY <1>2, DispatchDoes DEF Writing
<1>3. ASSUME NEW t \in Threads, Done(t) PROVE Writing(w)
  BY <1>3, DoneDoes DEF Writing
<1>4. ASSUME NEW v \in Writers, Test(v) PROVE Writing(w) \/ Test(w)
  BY <1>4, TestDoes DEF Writing
<1>5. ASSUME NEW v \in Writers, Count(v) PROVE Writing(w)
  BY <1>5, CountDoes DEF Writing, Count
<1>6. ASSUME NEW v \in Writers, WriteEntry(v) PROVE Writing(w)
  BY <1>6, WriteEntryDoes DEF Writing
<1>7. CASE UNCHANGED writer
  BY <1>7 DEF Writing
<1> QED BY <1>1, <1>2, <1>3, <1>4, <1>5, <1>6, <1>7
        DEF Next, WriteProfile, Open, WriteHeader, StartTask, WriteFooter, Close, Reset,
            Terminating, vars, Writers

LEMMA MutexPreserved ==
    ASSUME TypeOK, Mutex, [Next]_vars
    PROVE  Mutex'
<1> SUFFICES ASSUME NEW v \in Writers, NEW w \in Writers, Writing(v)', Writing(w)'
             PROVE  v = w
  BY DEF Mutex
<1>1. ASSUME NEW u \in Writers, Test(u) PROVE v = u \/ Writing(v)
  BY <1>1, TestDoes DEF Writing
<1>2. ASSUME NEW u \in Writers, Test(u) PROVE w = u \/ Writing(w)
  BY <1>2, TestDoes DEF Writing
<1> QED BY <1>1, <1>2, WritingAfter DEF Mutex, Test

LEMMA DisturbedGrows ==
    ASSUME [Next]_vars
    PROVE  /\ disturbed \subseteq disturbed'
           /\ Disturbs \/ UNCHANGED vars
BY DEF Next, WriteProfile, Open, WriteHeader, StartTask, EndScope, WriteFooter, Close, Reset,
       Dispatch, Done, Test, Count, WriteEntry, Terminating, vars, Disturbs

LEMMA QuietPreserved ==
    ASSUME Quiet, [Next]_vars
    PROVE  Quiet'
<1>1. CASE Disturbs BY <1>1 DEF Quiet, Disturbs
<1>2. CASE UNCHANGED vars BY <1>2 DEF Quiet, vars, main, Writing
<1> QED BY <1>1, <1>2, DisturbedGrows

(* Nobody writes when a session that stays undisturbed begins or ends.      *)
LEMMA NobodyWrites ==
    ASSUME InSession, Quiet, pc \in {"begin", "header", "close"}, session \notin disturbed,
           NEW w \in Writers
    PROVE  ~Writing(w)
BY DEF InSession, Quiet, Writers, Writing

(* Where the stream is.                                                     *)
LEMMA StreamIs ==
    ASSUME InSession, NEW s \in DOMAIN files
    PROVE  s = m_OutputStream <=> s = session /\ pc \in {"header", "session", "close"}
<1>1. s # Closed BY InstrumentorAssumption, SMT DEF InSession, Closed
<1> QED BY <1>1 DEF InSession

-----------------------------------------------------------------------------
(* m_ProfileCount *)

(* The count is 0 until the header is written.                              *)
LEMMA CountedBefore ==
    ASSUME TypeOK, InSession, Quiet, Counted, [Next]_vars,
           session' \notin disturbed', pc' \in {"begin", "header"}
    PROVE  m_ProfileCount' = 0
<1> USE DEF main
<1>1. CASE Open BY <1>1, DisturbedGrows DEF Open, Counted
<1>2. CASE Reset BY <1>2 DEF Reset
<1>3. CASE WriteHeader \/ WriteFooter \/ Close BY <1>3 DEF WriteHeader, WriteFooter, Close
<1>4. ASSUME UNCHANGED <<pc, session>> PROVE m_ProfileCount' = 0
  <2>1. session \notin disturbed /\ pc \in {"begin", "header"} BY <1>4, DisturbedGrows
  <2>2. \A w \in Writers : ~Count(w) BY <2>1, NobodyWrites DEF Count, Writing
  <2>3. m_ProfileCount = 0 BY <2>1 DEF Counted
  <2> QED BY <1>4, <2>2, <2>3
          DEF Next, WriteProfile, Open, WriteHeader, StartTask, EndScope, WriteFooter, Close, Reset,
              Dispatch, Done, Test, WriteEntry, Terminating, vars, Writers
<1> QED BY <1>1, <1>2, <1>3, <1>4, Running

(* Within a session it is the number of entries, the one that is being      *)
(* written included.                                                        *)
CountIs(length) ==
    /\ (\A w \in Writers : writer[w].at # "write") => m_ProfileCount = length - 1
    /\ \A w \in Writers :
          /\ Writing(w) => writer[w].count = length - 1
          /\ writer[w].at = "write" => m_ProfileCount = length

LEMMA CountedWithin ==
    ASSUME TypeOK, InSession, Mutex, CountIs(Len(files[session])), pc = "session",
           m_OutputStream # Closed, session \notin disturbed',
           [Next]_vars, UNCHANGED <<pc, session, m_OutputStream>>
    PROVE  CountIs(Len(files[session]))'
<1> USE DEF main
<1> DEFINE length == Len(files[session])
<1>0. /\ session \in DOMAIN files /\ m_OutputStream = session
      /\ files[session] \in Seq(Item) /\ length \in Nat
  <2>1. session \in DOMAIN files /\ m_OutputStream = session BY DEF InSession
  <2>2. files[session] \in Seq(Item) BY <2>1 DEF TypeOK, FilesOK
  <2> QED BY <2>1, <2>2, SMT
<1>1. ASSUME NEW u \in Writers, ~Writing(u), writer'[u].at \in {"stop", "run"},
             \A v \in Writers : v # u => writer'[v] = writer[v],
             UNCHANGED <<m_ProfileCount, files>>
      PROVE  CountIs(Len(files[session]))'
  <2>1. \A v \in Writers : /\ writer'[v].at = "write" <=> writer[v].at = "write"
                           /\ Writing(v)' => writer'[v].count = writer[v].count /\ Writing(v)
    BY <1>1 DEF Writing
  <2> QED BY <1>1, <2>1 DEF CountIs
<1>2. CASE EndScope
  <2>1. MainThread \in Writers /\ ~Writing(MainThread)
    BY <1>2, WriterFields DEF EndScope, Writing, Idle, Writers
  <2>2. UNCHANGED <<m_ProfileCount, files>> BY <1>2 DEF EndScope
  <2> QED BY <1>1, <1>2, <2>1, <2>2, EndScopeDoes
<1>3. ASSUME NEW t \in Threads, Dispatch(t) PROVE CountIs(Len(files[session]))'
  <2>1. t \in Writers /\ ~Writing(t)
    BY <1>3, WriterFields DEF Dispatch, Writing, Idle, Writers
  <2>2. UNCHANGED <<m_ProfileCount, files>> BY <1>3 DEF Dispatch
  <2> QED BY <1>1, <1>3, <2>1, <2>2, DispatchDoes
<1>4. ASSUME NEW t \in Threads, Done(t) PROVE CountIs(Len(files[session]))'
  BY <1>1, <1>4, DoneDoes DEF Done, Writing, Writers
<1>5. ASSUME NEW w \in Writers, Test(w) PROVE CountIs(Len(files[session]))'
  <2>1. m_ProfileCount = length - 1
    BY <1>5 DEF CountIs, Test, Writing
  <2>2. \A v \in Writers : /\ writer'[v].at # "write"
                           /\ Writing(v)' => writer'[v].count = m_ProfileCount
    BY <1>5, TestDoes DEF Test, Writing
  <2> QED BY <1>5, <2>1, <2>2 DEF CountIs, Test
<1>6. ASSUME NEW w \in Writers, Count(w) PROVE CountIs(Len(files[session]))'
  <2>1. m_ProfileCount' = length
    BY <1>0, <1>6, SMT DEF CountIs, Count, Writing
  <2>2. \A v \in Writers : Writing(v)' => writer'[v].count = length - 1
    BY <1>6, CountDoes DEF CountIs, Count, Writing
  <2>3. w \in Writers /\ writer'[w].at = "write" BY <1>6, CountDoes
  <2> QED BY <1>6, <2>1, <2>2, <2>3 DEF CountIs, Count
<1>7. ASSUME NEW w \in Writers, WriteEntry(w) PROVE CountIs(Len(files[session]))'
  <2>1. files' = Output(Entry(writer[w].count, writer[w].profile))
    BY <1>7, DisturbedGrows DEF WriteEntry
  <2>2. files'[session] = Append(files[session], Entry(writer[w].count, writer[w].profile))
    BY <1>0, <2>1 DEF Output
  <2>3. Len(files'[session]) = length + 1
    BY <1>0, <2>2, SMT
  <2>4. m_ProfileCount' = Len(files'[session]) - 1
    BY <1>0, <1>7, <2>3, SMT DEF CountIs, WriteEntry
  <2>5. \A v \in Writers : ~Writing(v)'
    BY <1>7, WriteEntryDoes DEF Mutex, WriteEntry, Writing
  <2> QED BY <1>7, <2>4, <2>5 DEF CountIs, Writing
<1>8. CASE UNCHANGED <<writer, m_ProfileCount, files>>
  BY <1>8 DEF CountIs, Writing
<1> QED BY <1>2, <1>3, <1>4, <1>5, <1>6, <1>7, <1>8
        DEF Next, WriteProfile, Open, WriteHeader, StartTask, WriteFooter, Close, Reset,
            Terminating, vars, Writers

LEMMA CountedPreserved ==
    ASSUME TypeOK, InSession, Mutex, Quiet, Counted, Content, [Next]_vars
    PROVE  Counted'
<1> USE DEF main
<1> SUFFICES ASSUME session' \notin disturbed', pc' = "session", m_OutputStream' # Closed
             PROVE  CountIs(Len(files[session]))'
  BY CountedBefore DEF Counted, CountIs
<1>1. CASE WriteHeader
  <2>1. session \notin disturbed /\ pc = "header" BY <1>1, DisturbedGrows DEF WriteHeader
  <2>2. \A w \in Writers : ~Writing(w) BY <2>1, NobodyWrites
  <2>3. session \in DOMAIN files /\ m_OutputStream = session BY <1>1 DEF WriteHeader, InSession
  <2>4. files[session] = <<>> BY <2>1, <2>3 DEF Content
  <2>5. files' = Output(Header) BY <1>1, <2>2 DEF WriteHeader, Writers
  <2>6. files'[session] = Append(<<>>, Header) BY <2>3, <2>4, <2>5 DEF Output
  <2>7. Len(files'[session]) - 1 = 0 BY <2>6, SMT
  <2>8. m_ProfileCount = 0 BY <2>1 DEF Counted
  <2> QED BY <1>1, <2>2, <2>7, <2>8 DEF CountIs, Writing, WriteHeader
<1>2. CASE Open \/ WriteFooter \/ Close \/ Reset
  BY <1>2 DEF Open, WriteFooter, Close, Reset
<1>3. ASSUME UNCHANGED <<pc, session, m_OutputStream>>
      PROVE  CountIs(Len(files[session]))'
  <2>1. CountIs(Len(files[session])) BY <1>3, DisturbedGrows DEF Counted, CountIs
  <2> QED BY <1>3, <2>1, CountedWithin
<1> QED BY <1>1, <1>2, <1>3, Running

-----------------------------------------------------------------------------
(* The files *)

LEMMA StartedAppend ==
    ASSUME NEW file \in Seq(Item), Started(file), NEW item \in Item,
           item.is = "entry", item.count > 0 <=> Len(file) > 1
    PROVE  Started(Append(file, item))
<1>1. /\ Len(file) \in Nat /\ Len(Append(file, item)) = Len(file) + 1
      /\ \A i \in 1 .. Len(file) : Append(file, item)[i] = file[i]
      /\ Append(file, item)[Len(file) + 1] = item
  BY SMT
<1>2. Append(file, item)[1] = Header BY <1>1, SMT DEF Started
<1>3. ASSUME NEW i \in 2 .. Len(file) + 1
      PROVE  /\ Append(file, item)[i].is = "entry"
             /\ Append(file, item)[i].count > 0 <=> i > 2
  <2>1. CASE i = Len(file) + 1 BY <1>1, <2>1, SMT DEF Started
  <2>2. CASE i # Len(file) + 1
    <3>1. i \in 2 .. Len(file) /\ i \in 1 .. Len(file) BY <1>1, <2>2, SMT
    <3> QED BY <1>1, <3>1 DEF Started
  <2> QED BY <2>1, <2>2
<1> QED BY <1>1, <1>2, <1>3, SMT DEF Started

LEMMA Finished ==
    ASSUME NEW file \in Seq(Item), Started(file)
    PROVE  WellFormed(Append(file, Footer))
<1> DEFINE g == Append(file, Footer)
<1>0. Footer \in Item BY Items
<1>1. /\ Len(file) \in Nat /\ Len(g) = Len(file) + 1
      /\ \A i \in 1 .. Len(file) : g[i] = file[i]
      /\ g[Len(file) + 1] = Footer
  BY <1>0, SMT
<1>2. Len(file) >= 1 /\ file[1] = Header BY DEF Started
<1>3. g[1] = Header /\ Len(g) >= 2 BY <1>1, <1>2, SMT
<1>4. ASSUME NEW i \in 2 .. Len(g) - 1
      PROVE  g[i].is = "entry" /\ (g[i].count > 0 <=> i > 2)
  <2>1. i \in 2 .. Len(file) /\ i \in 1 .. Len(file) BY <1>1, SMT
  <2> QED BY <1>1, <2>1 DEF Started
<1> QED BY <1>1, <1>3, <1>4 DEF WellFormed

LEMMA StartedHeader ==
    ASSUME NEW file, file = Append(<<>>, Header)
    PROVE  Started(file)
<1>1. file = <<Header>> /\ Len(file) = 1 BY SMT
<1> QED BY <1>1, SMT DEF Started

(* Where an entry goes.                                                     *)
LEMMA EntryWritten ==
    ASSUME TypeOK, InSession, Quiet, NEW w \in Writers, WriteEntry(w),
           NEW s \in DOMAIN files, s \notin disturbed
    PROVE  files'[s] = IF s = session /\ pc = "session"
                       THEN Append(files[s], Entry(writer[w].count, writer[w].profile))
                       ELSE files[s]
<1> DEFINE item == Entry(writer[w].count, writer[w].profile)
<1>1. files'[s] = files[s] \/ files'[s] = Output(item)[s] BY DEF WriteEntry
<1>2. Writing(w) BY DEF WriteEntry, Writing
<1>3. CASE s = session /\ pc = "session"
  <2>1. files' = Output(item) BY <1>3 DEF WriteEntry
  <2>2. m_OutputStream = s BY <1>3, StreamIs
  <2> QED BY <1>3, <2>1, <2>2 DEF Output
<1>4. CASE ~(s = session /\ pc = "session")
  <2>1. s # m_OutputStream BY <1>2, <1>4, StreamIs, NobodyWrites
  <2> QED BY <1>1, <1>4, <2>1 DEF Output
<1> QED BY <1>3, <1>4

(* The files change in four steps only.                                     *)
LEMMA FilesChange ==
    ASSUME [Next]_vars
    PROVE  \/ Open \/ WriteHeader \/ WriteFooter \/ UNCHANGED files
           \/ \E w \in Writers : WriteEntry(w)
BY DEF Next, WriteProfile, StartTask, EndScope, Close, Reset, Dispatch, Done, Test, Count,
       Terminating, vars, Writers

LEMMA ContentPreserved ==
    ASSUME TypeOK, InSession, Quiet, Counted, Content, [Next]_vars
    PROVE  Content'
<1> USE DEF main
<1> SUFFICES ASSUME NEW s \in DOMAIN files' \ disturbed'
             PROVE  IF s = session' /\ pc' = "header" THEN files'[s] = <<>>
                    ELSE IF s = session' /\ pc' = "session" THEN Started(files'[s])
                    ELSE WellFormed(files'[s])
  BY DEF Content
<1>0. s \notin disturbed BY DisturbedGrows
<1>1. CASE Open
  <2>1. CASE s = session
    <3>1. session \notin DOMAIN files BY <1>1 DEF Open, InSession
    <3>2. files'[s] = <<>> BY <1>1, <2>1, <3>1 DEF Open
    <3> QED BY <1>1, <2>1, <3>2 DEF Open
  <2>2. CASE s # session
    <3>1. s \in DOMAIN files /\ files'[s] = files[s] BY <1>1, <2>2 DEF Open
    <3> QED BY <1>0, <1>1, <2>2, <3>1 DEF Open, Content
  <2> QED BY <2>1, <2>2
<1>2. CASE WriteHeader
  <2>1. s \in DOMAIN files BY <1>2, FilesAdded DEF WriteHeader, Open
  <2>2. CASE s = session
    <3>1. pc = "header" /\ session \notin disturbed BY <1>0, <1>2, <2>2 DEF WriteHeader
    <3>2. files' = Output(Header) BY <1>2, <3>1, NobodyWrites DEF WriteHeader, Writers
    <3>3. files'[s] = Append(<<>>, Header)
      BY <1>0, <2>1, <2>2, <3>1, <3>2, StreamIs DEF Output, Content
    <3> QED BY <1>2, <2>2, <3>3, StartedHeader DEF WriteHeader
  <2>3. CASE s # session
    <3>1. files'[s] = files[s] BY <1>2, <2>1, <2>3, StreamIs DEF WriteHeader, Output
    <3> QED BY <1>0, <1>2, <2>1, <2>3, <3>1 DEF WriteHeader, Content
  <2> QED BY <2>2, <2>3
<1>3. CASE WriteFooter
  <2>1. s \in DOMAIN files BY <1>3, FilesAdded DEF WriteFooter, Open
  <2>2. CASE s = session
    <3>1. pc = "session" /\ session' \notin disturbed' /\ pc' = "close"
      BY <1>3, <2>2 DEF WriteFooter
    <3>2. \A t \in Threads : ~Writing(t)
      BY <1>3, <3>1, DisturbedGrows DEF WriteFooter, Disturbs, Writing, vars
    <3>3. files' = Output(Footer) BY <1>3, <3>2 DEF WriteFooter
    <3>4. files'[s] = Append(files[s], Footer)
      BY <2>1, <2>2, <3>1, <3>3, StreamIs DEF Output
    <3>5. Started(files[s]) /\ files[s] \in Seq(Item)
      BY <1>0, <2>1, <2>2, <3>1 DEF Content, TypeOK, FilesOK
    <3> QED BY <3>1, <3>4, <3>5, Finished
  <2>3. CASE s # session
    <3>1. files'[s] = files[s] BY <1>3, <2>1, <2>3, StreamIs DEF WriteFooter, Output
    <3> QED BY <1>0, <1>3, <2>1, <2>3, <3>1 DEF WriteFooter, Content
  <2> QED BY <2>2, <2>3
<1>4. CASE Close
  BY <1>0, <1>4 DEF Close, Content
<1>5. CASE Reset
  <2>1. s \in DOMAIN files /\ s # session' BY <1>5, InstrumentorAssumption, SMT DEF Reset, InSession, TypeOK
  <2> QED BY <1>0, <1>5, <2>1 DEF Reset, Content
<1>6. ASSUME NEW w \in Writers, WriteEntry(w), UNCHANGED <<pc, session>>
      PROVE  IF s = session' /\ pc' = "header" THEN files'[s] = <<>>
             ELSE IF s = session' /\ pc' = "session" THEN Started(files'[s])
             ELSE WellFormed(files'[s])
  <2>1. s \in DOMAIN files BY <1>6 DEF WriteEntry, Output
  <2>2. CASE s = session /\ pc = "session"
    <3> DEFINE item == Entry(writer[w].count, writer[w].profile)
    <3>1. files'[s] = Append(files[s], item) BY <1>0, <1>6, <2>1, <2>2, EntryWritten
    <3>2. Started(files[s]) /\ files[s] \in Seq(Item)
      BY <1>0, <2>1, <2>2 DEF Content, TypeOK, FilesOK
    <3>3. writer[w].profile \in Profile \cup {NoProfile} /\ writer[w].count \in Nat
      BY SMT DEF TypeOK, WriterOK
    <3>4. item \in Item /\ item.is = "entry" /\ item.count = writer[w].count BY <3>3, Items
    <3>5. m_OutputStream # Closed
      BY <2>1, <2>2, InstrumentorAssumption, SMT DEF InSession, Closed
    <3>6. writer[w].count = Len(files[s]) - 1
      BY <1>0, <1>6, <2>2, <3>5 DEF Counted, WriteEntry, Writing
    <3>7. item.count > 0 <=> Len(files[s]) > 1 BY <3>2, <3>4, <3>6, SMT
    <3>8. Started(files'[s]) BY <3>1, <3>2, <3>4, <3>7, StartedAppend
    <3> QED BY <1>6, <2>2, <3>8
  <2>3. CASE ~(s = session /\ pc = "session")
    <3>1. files'[s] = files[s] BY <1>0, <1>6, <2>1, <2>3, EntryWritten
    <3> QED BY <1>0, <1>6, <2>1, <2>3, <3>1 DEF Content
  <2> QED BY <2>2, <2>3
<1>7. ASSUME UNCHANGED <<pc, session, files>>
      PROVE  IF s = session' /\ pc' = "header" THEN files'[s] = <<>>
             ELSE IF s = session' /\ pc' = "session" THEN Started(files'[s])
             ELSE WellFormed(files'[s])
  BY <1>0, <1>7 DEF Content
<1> QED BY <1>1, <1>2, <1>3, <1>4, <1>5, <1>6, <1>7, FilesChange, Running

-----------------------------------------------------------------------------
(* What a file holds *)

LEMMA OutputHas ==
    ASSUME TypeOK, NEW item \in Item, NEW s \in DOMAIN files, NEW p
    PROVE  Has(Output(item)[s], p)
              <=> Has(files[s], p) \/ (s = m_OutputStream /\ item.is = "entry" /\ item.profile = p)
<1>1. files[s] \in Seq(Item) BY DEF TypeOK, FilesOK
<1>2. Has(Append(files[s], item), p) <=> Has(files[s], p) \/ (item.is = "entry" /\ item.profile = p)
  BY <1>1, HasAppended
<1> QED BY <1>2 DEF Output

LEMMA EntryItem ==
    ASSUME TypeOK, NEW w \in Writers
    PROVE  /\ Entry(writer[w].count, writer[w].profile) \in Item
           /\ Entry(writer[w].count, writer[w].profile).is = "entry"
           /\ Entry(writer[w].count, writer[w].profile).profile = writer[w].profile
<1>1. writer[w].profile \in Profile \cup {NoProfile} /\ writer[w].count \in Nat
  BY SMT DEF TypeOK, WriterOK
<1> QED BY <1>1, Items

(* What is in a file stays there.                                           *)
LEMMA HasKept ==
    ASSUME TypeOK, InSession, [Next]_vars, NEW s \in DOMAIN files, NEW p, Has(files[s], p)
    PROVE  Has(files'[s], p)
<1>1. CASE Open
  <2>1. s # session BY <1>1 DEF Open, InSession
  <2> QED BY <1>1, <2>1 DEF Open
<1>2. CASE WriteHeader BY <1>2, OutputHas, Items DEF WriteHeader
<1>3. CASE WriteFooter BY <1>3, OutputHas, Items DEF WriteFooter
<1>4. ASSUME NEW w \in Writers, WriteEntry(w) PROVE Has(files'[s], p)
  BY <1>4, OutputHas, EntryItem DEF WriteEntry
<1> QED BY <1>1, <1>2, <1>3, <1>4, FilesChange

(* In a session that is not disturbed, an entry is in the file once it is   *)
(* written.                                                                 *)
LEMMA EntryHeld ==
    ASSUME TypeOK, InSession, Quiet, NEW w \in Writers, WriteEntry(w), pc = "session",
           session \in DOMAIN files, session \notin disturbed
    PROVE  Has(files'[session], writer[w].profile)
<1>1. files[session] \in Seq(Item) BY DEF TypeOK, FilesOK
<1>2. files'[session] = Append(files[session], Entry(writer[w].count, writer[w].profile))
  BY EntryWritten
<1> QED BY <1>1, <1>2, EntryItem, HasAppended

LEMMA ScopesFiledPreserved ==
    ASSUME TypeOK, InSession, Quiet, ScopesFiled, [Next]_vars
    PROVE  ScopesFiled'
<1> USE DEF main
<1> DEFINE Held(s, scope) ==
        \/ Has(files[s], <<s, scope>>)
        \/ s = session /\ pc = "header"
        \/ /\ s = session /\ pc = "session"
           /\ \/ scope \in scopes
              \/ writer[MainThread].at # "idle" /\ writer[MainThread].profile = <<s, scope>>
<1> SUFFICES ASSUME NEW s \in DOMAIN files' \ disturbed', NEW scope \in Sessions[s].scopes
             PROVE  Held(s, scope)'
  BY DEF ScopesFiled
<1>0. s \notin disturbed BY DisturbedGrows
<1>1. CASE s \notin DOMAIN files
  BY <1>1, FilesAdded DEF Open
<1>2. CASE s \in DOMAIN files
  <2>1. Held(s, scope) BY <1>0, <1>2 DEF ScopesFiled
  <2>2. CASE Has(files[s], <<s, scope>>) BY <1>2, <2>2, HasKept
  <2>3. CASE s = session /\ pc = "header"
    <3>1. CASE WriteHeader BY <2>3, <3>1 DEF WriteHeader
    <3>2. CASE UNCHANGED <<pc, session>> BY <2>3, <3>2
    <3> QED BY <2>3, <3>1, <3>2, Running DEF Open, WriteFooter, Close, Reset
  <2>4. CASE s = session /\ pc = "session" /\ scope \in scopes
    <3>1. ~WriteFooter BY <2>4 DEF WriteFooter
    <3>2. UNCHANGED <<pc, session>> BY <2>4, <3>1, Running DEF Open, WriteHeader, Close, Reset
    <3>3. CASE EndScope
      <4>1. PICK ended \in scopes : /\ scopes' = scopes \ {ended}
                                    /\ writer'[MainThread].at = "stop"
                                    /\ writer'[MainThread].profile = <<session, ended>>
        BY <3>3, EndScopeDoes
      <4> QED BY <2>4, <3>2, <4>1
    <3>4. CASE UNCHANGED scopes BY <2>4, <3>2, <3>4
    <3> QED BY <2>4, <3>1, <3>3, <3>4
            DEF Next, WriteProfile, Open, WriteHeader, StartTask, Close, Reset, Dispatch, Done,
                Test, Count, WriteEntry, Terminating, vars
  <2>5. CASE /\ s = session /\ pc = "session"
             /\ writer[MainThread].at # "idle" /\ writer[MainThread].profile = <<s, scope>>
    <3>1. ~WriteFooter /\ ~EndScope BY <2>5, WriterFields DEF WriteFooter, EndScope, Idle
    <3>2. UNCHANGED <<pc, session>> BY <2>5, <3>1, Running DEF Open, WriteHeader, Close, Reset
    <3>3. MainThread \in Writers /\ \A t \in Threads : t \in Writers /\ t # MainThread
      BY InstrumentorAssumption DEF Writers
    <3>4. CASE WriteEntry(MainThread)
      BY <1>0, <1>2, <2>5, <3>3, <3>4, EntryHeld
    <3>5. CASE Test(MainThread) BY <2>5, <3>2, <3>3, <3>5, TestDoes
    <3>6. CASE Count(MainThread) BY <2>5, <3>2, <3>3, <3>6, CountDoes
    <3>7. ASSUME NEW t \in Threads, Dispatch(t) \/ Done(t) \/ WriteProfile(t)
          PROVE  UNCHANGED writer[MainThread]
      <4>1. CASE Dispatch(t) BY <3>3, <4>1, DispatchDoes
      <4>2. CASE Done(t) BY <3>3, <4>2, DoneDoes
      <4>3. CASE Test(t) BY <3>3, <4>3, TestDoes
      <4>4. CASE Count(t) BY <3>3, <4>4, CountDoes
      <4>5. CASE WriteEntry(t) BY <3>3, <4>5, WriteEntryDoes
      <4> QED BY <3>7, <4>1, <4>2, <4>3, <4>4, <4>5 DEF WriteProfile
    <3>8. CASE UNCHANGED writer[MainThread] BY <2>5, <3>2, <3>8
    <3> QED BY <2>5, <3>1, <3>4, <3>5, <3>6, <3>7, <3>8
            DEF Next, WriteProfile, Open, WriteHeader, StartTask, Close, Reset, Terminating, vars
  <2> QED BY <2>1, <2>2, <2>3, <2>4, <2>5
<1> QED BY <1>1, <1>2

LEMMA TasksFiledPreserved ==
    ASSUME TypeOK, InSession, Quiet, TasksFiled, [Next]_vars
    PROVE  TasksFiled'
<1> USE DEF main
<1> DEFINE Late == {"stop", "count", "write"}
           Held(task) ==
               \/ Has(files[session], <<session, task>>)
               \/ pc = "session" /\ (task \in tasks \/ <<session, task>> \in undone)
               \/ \E t \in Threads : /\ writer[t].at \in Late
                                     /\ writer[t].profile = <<session, task>>
<1> SUFFICES ASSUME pc' \in {"session", "close"}, m_OutputStream' # Closed,
                    session' \notin disturbed', NEW task \in Sessions[session'].tasks
             PROVE  Held(task)'
  BY DEF TasksFiled
<1>1. CASE WriteHeader BY <1>1 DEF WriteHeader
<1>2. CASE Open \/ Close \/ Reset BY <1>2 DEF Open, Close, Reset
<1>3. ASSUME UNCHANGED <<session, m_OutputStream>>, pc \in {"session", "close"}, ~WriteHeader,
             WriteFooter \/ UNCHANGED pc
      PROVE  Held(task)'
  <2>0. session \notin disturbed /\ session \in DOMAIN files
    BY <1>3, DisturbedGrows DEF InSession
  <2>1. Held(task) BY <1>3, <2>0 DEF TasksFiled
  <2>2. CASE Has(files[session], <<session, task>>) BY <1>3, <2>0, <2>2, HasKept
  <2>3. CASE pc = "session" /\ task \in tasks
    <3>1. ~WriteFooter BY <2>3 DEF WriteFooter
    <3>2. CASE StartTask
      <4>1. PICK started : /\ tasks' = tasks \ {started}
                           /\ undone' = undone \cup {<<session, started>>}
        BY <3>2 DEF StartTask
      <4> QED BY <1>3, <2>3, <3>1, <4>1
    <3>3. CASE UNCHANGED tasks BY <1>3, <2>3, <3>1, <3>3
    <3> QED BY <1>3, <2>3, <3>1, <3>2, <3>3
            DEF Next, WriteProfile, Open, Close, Reset, EndScope, Dispatch, Done,
                Test, Count, WriteEntry, Terminating, vars
  <2>4. CASE pc = "session" /\ <<session, task>> \in undone
    <3>1. ~WriteFooter BY <2>4 DEF WriteFooter
    <3>2. ASSUME NEW t \in Threads, Done(t) PROVE Held(task)'
      <4>1. CASE writer[t].profile = <<session, task>>
        BY <1>3, <3>2, <4>1, DoneDoes
      <4>2. CASE writer[t].profile # <<session, task>>
        <5>1. <<session, task>> \in undone' BY <2>4, <3>2, <4>2 DEF Done
        <5> QED BY <1>3, <2>4, <3>1, <5>1
      <4> QED BY <4>1, <4>2
    <3>3. CASE undone \subseteq undone' BY <1>3, <2>4, <3>1, <3>3
    <3> QED BY <1>3, <2>4, <3>1, <3>2, <3>3
            DEF Next, WriteProfile, Open, Close, Reset, StartTask, EndScope, Dispatch,
                Test, Count, WriteEntry, Terminating, vars
  <2>5. ASSUME NEW t \in Threads, writer[t].at \in Late, writer[t].profile = <<session, task>>
        PROVE  Held(task)'
    <3>1. MainThread \notin Threads /\ t \in Writers /\ Threads \subseteq Writers
      BY InstrumentorAssumption DEF Writers
    <3>2. CASE WriteEntry(t)
      <4>1. pc = "session" BY <1>3, <2>0, <3>1, <3>2, NobodyWrites DEF WriteEntry, Writing
      <4> QED BY <1>3, <2>0, <2>5, <3>1, <3>2, <4>1, EntryHeld
    <3>3. CASE Test(t) BY <1>3, <2>5, <3>1, <3>3, TestDoes
    <3>4. CASE Count(t) BY <1>3, <2>5, <3>1, <3>4, CountDoes
    <3>5. ~Dispatch(t) /\ ~Done(t) BY <2>5, WriterFields DEF Dispatch, Done, Idle
    <3>6. ASSUME NEW v \in Writers, v # t, Test(v) \/ Count(v) \/ WriteEntry(v)
          PROVE  UNCHANGED writer[t]
      <4>1. CASE Test(v) BY <3>1, <3>6, <4>1, TestDoes
      <4>2. CASE Count(v) BY <3>1, <3>6, <4>2, CountDoes
      <4>3. CASE WriteEntry(v) BY <3>1, <3>6, <4>3, WriteEntryDoes
      <4> QED BY <3>6, <4>1, <4>2, <4>3
    <3>7. ASSUME NEW v \in Threads, v # t, Dispatch(v) \/ Done(v)
          PROVE  UNCHANGED writer[t]
      <4>1. CASE Dispatch(v) BY <3>1, <3>7, <4>1, DispatchDoes
      <4>2. CASE Done(v) BY <3>1, <3>7, <4>2, DoneDoes
      <4> QED BY <3>7, <4>1, <4>2
    <3>8. CASE EndScope BY <1>3, <2>5, <3>1, <3>8, EndScopeDoes
    <3>9. CASE UNCHANGED writer[t] BY <1>3, <2>5, <3>9
    <3> QED BY <1>3, <3>1, <3>2, <3>3, <3>4, <3>5, <3>6, <3>7, <3>8, <3>9
            DEF Next, WriteProfile, Open, WriteFooter, Close, Reset, StartTask,
                Terminating, vars, Writers
  <2> QED BY <2>1, <2>2, <2>3, <2>4, <2>5
<1> QED BY <1>1, <1>2, <1>3, Running DEF WriteFooter

-----------------------------------------------------------------------------
(* No profile is written twice *)

LEMMA ProfileIsPair ==
    /\ NoProfile \notin Profile
    /\ \A s \in 1 .. Len(Sessions), name \in Timers :
          /\ <<s, name>> \in Profile
          /\ <<s, name>>[1] = s /\ <<s, name>>[2] = name
BY SMT DEF Profile, NoProfile

LEMMA BegunKept ==
    ASSUME TypeOK, InSession, [Next]_vars, NEW p \in Profile, Begun(p)
    PROVE  Begun(p)'
<1> USE DEF main
<1>0. p[1] \in Nat /\ session \in Nat
  BY InstrumentorAssumption, SMT DEF Profile, TypeOK
<1>1. CASE Open BY <1>1 DEF Open, Begun
<1>2. CASE WriteHeader BY <1>2 DEF WriteHeader, Begun
<1>3. CASE WriteFooter BY <1>3 DEF WriteFooter, Begun
<1>4. CASE Close BY <1>4 DEF Close, Begun
<1>5. CASE Reset BY <1>0, <1>5, SMT DEF Reset, Begun
<1>6. ASSUME UNCHANGED <<pc, session>> PROVE Begun(p)'
  <2>1. pc = pc' /\ (pc = "header" \/ (tasks' \subseteq tasks /\ scopes' \subseteq scopes))
    BY <1>6 DEF Next, WriteProfile, Open, WriteHeader, WriteFooter, Close, Reset, StartTask, EndScope,
                Dispatch, Done, Test, Count, WriteEntry, Terminating, vars
  <2> QED BY <1>6, <2>1 DEF Begun
<1> QED BY <1>1, <1>2, <1>3, <1>4, <1>5, <1>6, Running

(* What is in a file was there, or is just written at its end.              *)
LEMMA ItemAfter ==
    ASSUME TypeOK, InSession, [Next]_vars, NEW s \in DOMAIN files', NEW i \in DOMAIN files'[s]
    PROVE  /\ s \in DOMAIN files
           /\ \/ i \in DOMAIN files[s] /\ files'[s][i] = files[s][i]
              \/ /\ s = m_OutputStream /\ i = Len(files[s]) + 1
                 /\ \/ files'[s][i] \in {Header, Footer}
                    \/ \E w \in Writers :
                          WriteEntry(w) /\ files'[s][i] = Entry(writer[w].count, writer[w].profile)
<1>1. ASSUME NEW item \in Item, files' = Output(item)
      PROVE  /\ s \in DOMAIN files
             /\ \/ i \in DOMAIN files[s] /\ files'[s][i] = files[s][i]
                \/ s = m_OutputStream /\ i = Len(files[s]) + 1 /\ files'[s][i] = item
  <2>1. s \in DOMAIN files BY <1>1 DEF Output
  <2>2. files[s] \in Seq(Item) BY <2>1 DEF TypeOK, FilesOK
  <2>3. files'[s] = IF s = m_OutputStream THEN Append(files[s], item) ELSE files[s]
    BY <1>1, <2>1 DEF Output
  <2>4. \A k \in DOMAIN Append(files[s], item) :
           \/ k \in DOMAIN files[s] /\ Append(files[s], item)[k] = files[s][k]
           \/ k = Len(files[s]) + 1 /\ Append(files[s], item)[k] = item
    BY <1>1, <2>2, SMT
  <2> QED BY <2>1, <2>3, <2>4
<1>2. CASE Open
  <2>1. \A k \in DOMAIN <<>> : FALSE BY SMT
  <2>2. CASE UNCHANGED files BY <2>2
  <2>3. CASE files' = [r \in DOMAIN files \cup {session} |-> IF r = session THEN <<>> ELSE files[r]]
    BY <2>1, <2>3
  <2> QED BY <1>2, <2>2, <2>3 DEF Open
<1>3. CASE WriteHeader BY <1>1, <1>3, Items DEF WriteHeader
<1>4. CASE WriteFooter BY <1>1, <1>4, Items DEF WriteFooter
<1>5. ASSUME NEW w \in Writers, WriteEntry(w)
      PROVE  /\ s \in DOMAIN files
             /\ \/ i \in DOMAIN files[s] /\ files'[s][i] = files[s][i]
                \/ /\ s = m_OutputStream /\ i = Len(files[s]) + 1
                   /\ files'[s][i] = Entry(writer[w].count, writer[w].profile)
  BY <1>1, <1>5, EntryItem DEF WriteEntry
<1> QED BY <1>2, <1>3, <1>4, <1>5, FilesChange

LEMMA FiledAfter ==
    ASSUME TypeOK, InSession, [Next]_vars, NEW p, Filed(p)'
    PROVE  Filed(p) \/ \E w \in Writers : WriteEntry(w) /\ writer[w].profile = p
<1>1. PICK s \in DOMAIN files' : \E i \in DOMAIN files'[s] :
         files'[s][i].is = "entry" /\ files'[s][i].profile = p
  BY DEF Filed, Has
<1>2. PICK i \in DOMAIN files'[s] : files'[s][i].is = "entry" /\ files'[s][i].profile = p
  BY <1>1
<1>3. CASE s \in DOMAIN files /\ i \in DOMAIN files[s] /\ files'[s][i] = files[s][i]
  BY <1>2, <1>3 DEF Filed, Has
<1>4. CASE files'[s][i] \in {Header, Footer} BY <1>2, <1>4, Items
<1>5. ASSUME NEW w \in Writers, WriteEntry(w),
             files'[s][i] = Entry(writer[w].count, writer[w].profile)
      PROVE  writer[w].profile = p
  BY <1>2, <1>5, EntryItem
<1> QED BY <1>3, <1>4, <1>5, ItemAfter

LEMMA EntriesOncePreserved ==
    ASSUME TypeOK, InSession, EntriesOnce, Once, [Next]_vars
    PROVE  EntriesOnce'
<1> DEFINE Old(s, i) == s \in DOMAIN files /\ i \in DOMAIN files[s] /\ files'[s][i] = files[s][i]
           End(s, i) == s = m_OutputStream /\ i = Len(files[s]) + 1
           New(s, i, w) == /\ End(s, i) /\ WriteEntry(w)
                           /\ files'[s][i].is = "entry"
                           /\ files'[s][i].profile = writer[w].profile
           Other(s, i) == files'[s][i].is # "entry" /\ files'[s][i].profile = NoProfile
<1>0. Header.profile = NoProfile /\ Footer.profile = NoProfile BY DEF Header, Footer
<1>1. ASSUME NEW s \in DOMAIN files', NEW i \in DOMAIN files'[s]
      PROVE  \/ Old(s, i) \/ Other(s, i) \/ \E w \in Writers : New(s, i, w)
  <2>1. CASE files'[s][i] \in {Header, Footer} BY <1>0, <2>1, Items
  <2>2. ASSUME NEW w \in Writers, WriteEntry(w), End(s, i),
               files'[s][i] = Entry(writer[w].count, writer[w].profile)
        PROVE  New(s, i, w)
    BY <2>2, EntryItem
  <2> QED BY <1>1, <2>1, <2>2, ItemAfter
<1>2. \A w \in Writers : WriteEntry(w) =>
         /\ writer[w].profile \in Profile
         /\ ~Filed(writer[w].profile)
  BY DEF Once, WriteEntry
<1>3. ASSUME NEW s \in DOMAIN files', NEW i \in DOMAIN files'[s]
      PROVE  IF files'[s][i].is = "entry" THEN files'[s][i].profile \in Profile
             ELSE files'[s][i].profile = NoProfile
  <2>1. CASE Old(s, i) BY <2>1 DEF EntriesOnce
  <2>2. CASE Other(s, i) BY <2>2
  <2>3. ASSUME NEW w \in Writers, New(s, i, w) PROVE files'[s][i].profile \in Profile
    BY <1>2, <2>3
  <2> QED BY <1>1, <2>1, <2>2, <2>3
<1>4. ASSUME NEW s \in DOMAIN files', NEW i \in DOMAIN files'[s],
             NEW r \in DOMAIN files', NEW j \in DOMAIN files'[r],
             files'[s][i].is = "entry", files'[s][i].profile = files'[r][j].profile
      PROVE  s = r /\ i = j
  <2>1. files'[s][i].profile \in Profile BY <1>3, <1>4
  <2>2. files'[r][j].is = "entry" BY <1>3, <1>4, <2>1, ProfileIsPair
  <2>3. \A q \in DOMAIN files' : \A k :
        Old(q, k) /\ files'[q][k].is = "entry" => Filed(files'[q][k].profile)
    BY DEF Filed, Has
  <2>4. CASE Old(s, i) /\ Old(r, j) BY <1>4, <2>4 DEF EntriesOnce
  <2>5. ASSUME NEW w \in Writers, New(s, i, w) PROVE s = r /\ i = j
    <3>1. ~Old(r, j) BY <1>2, <1>4, <2>2, <2>3, <2>5
    <3>2. End(r, j) BY <1>1, <2>2, <3>1
    <3> QED BY <2>5, <3>2
  <2>6. ASSUME NEW w \in Writers, New(r, j, w) PROVE s = r /\ i = j
    <3>1. ~Old(s, i) BY <1>2, <1>4, <2>3, <2>6
    <3>2. End(s, i) BY <1>1, <1>4, <3>1
    <3> QED BY <2>6, <3>2
  <2> QED BY <1>1, <1>4, <2>2, <2>4, <2>5, <2>6
<1> QED BY <1>3, <1>4 DEF EntriesOnce

(* What a thread holds it has held, or taken from those that wait, or it is *)
(* a scope of the main thread that ends.                                    *)
LEMMA HolderBefore ==
    ASSUME TypeOK, [Next]_vars, NEW w \in Writers, writer'[w].at # "idle"
    PROVE  \/ writer[w].at # "idle" /\ writer'[w].profile = writer[w].profile /\ ~WriteEntry(w)
           \/ /\ w \in Threads /\ Dispatch(w)
              /\ writer'[w].profile \in waiting
              /\ waiting' = waiting \ {writer'[w].profile}
           \/ /\ w = MainThread /\ EndScope
              /\ \E scope \in scopes : /\ writer'[w].profile = <<session, scope>>
                                       /\ scopes' = scopes \ {scope}
<1>0. \A t \in Threads : t \in Writers BY DEF Writers
<1>1. \A v \in Writers : WriteEntry(v) => v # w /\ UNCHANGED writer[w]
  BY WriteEntryDoes
<1>2. CASE EndScope BY <1>1, <1>2, EndScopeDoes DEF EndScope, WriteEntry
<1>3. ASSUME NEW t \in Threads, Dispatch(t), t # w PROVE UNCHANGED writer[w]
  BY <1>3, DispatchDoes
<1>4. CASE w \in Threads /\ Dispatch(w) BY <1>4, DispatchDoes
<1>5. ASSUME NEW t \in Threads, Done(t)
      PROVE  writer[w].at # "idle" /\ writer'[w].profile = writer[w].profile
  BY <1>5, DoneDoes DEF Done
<1>6. ASSUME NEW v \in Writers, Test(v)
      PROVE  writer[w].at # "idle" /\ writer'[w].profile = writer[w].profile
  BY <1>6, TestDoes DEF Test
<1>7. ASSUME NEW v \in Writers, Count(v)
      PROVE  writer[w].at # "idle" /\ writer'[w].profile = writer[w].profile
  BY <1>7, CountDoes DEF Count
<1>8. UNCHANGED writer[w] => writer[w].at # "idle" /\ writer'[w].profile = writer[w].profile
  OBVIOUS
<1>9. \/ EndScope \/ UNCHANGED writer
      \/ \E t \in Threads : Dispatch(t) \/ Done(t)
      \/ \E v \in Writers : Test(v) \/ Count(v) \/ WriteEntry(v)
  BY DEF Next, WriteProfile, Open, WriteHeader, WriteFooter, Close, Reset, StartTask,
         Terminating, vars, Writers
<1> QED BY <1>1, <1>2, <1>3, <1>4, <1>5, <1>6, <1>7, <1>8, <1>9

(* What begins had not begun.                                               *)
LEMMA Begins ==
    ASSUME TypeOK, InSession, pc = "session"
    PROVE  /\ \A task \in tasks :
                 /\ <<session, task>> \in Profile /\ ~Begun(<<session, task>>)
                 /\ task \notin scopes
           /\ \A scope \in scopes :
                 /\ <<session, scope>> \in Profile /\ ~Begun(<<session, scope>>)
                 /\ scope \notin tasks
<1>1. session \in 1 .. Len(Sessions) /\ session \in DOMAIN Sessions /\ ~(session < session)
  BY InstrumentorAssumption, SMT DEF TypeOK
<1>2. tasks \cap scopes = {}
  BY <1>1, InstrumentorAssumption DEF InSession
<1> QED BY <1>1, <1>2, ProfileIsPair DEF Begun, TypeOK

LEMMA OncePreserved ==
    ASSUME TypeOK, InSession, Once, [Next]_vars
    PROVE  Once'
<1> USE DEF main
<1>1. ASSUME NEW p \in waiting'
      PROVE  \/ p \in waiting
             \/ StartTask /\ pc = "session" /\ \E task \in tasks : p = <<session, task>>
  BY <1>1 DEF Next, WriteProfile, Open, WriteHeader, WriteFooter, Close, Reset, StartTask, EndScope,
              Dispatch, Done, Test, Count, WriteEntry, Terminating, vars
<1>2. ASSUME StartTask, NEW p \in waiting' \ waiting
      PROVE  p \in Profile /\ Begun(p)' /\ ~Begun(p)
  <2>1. PICK task \in tasks : /\ tasks' = tasks \ {task}
                              /\ waiting' = waiting \cup {<<session, task>>}
    BY <1>2 DEF StartTask
  <2>2. p = <<session, task>> /\ pc = "session" BY <1>2, <2>1 DEF StartTask
  <2>3. p \in Profile /\ ~Begun(p) /\ task \notin scopes BY <2>2, Begins
  <2>4. p[1] = session /\ p[2] = task BY <2>2, SMT
  <2> QED BY <1>2, <2>1, <2>2, <2>3, <2>4 DEF Begun, StartTask
<1>3. ASSUME EndScope, NEW scope \in scopes, scopes' = scopes \ {scope}
      PROVE  /\ <<session, scope>> \in Profile
             /\ Begun(<<session, scope>>)' /\ ~Begun(<<session, scope>>)
  <2>1. pc = "session" BY <1>3 DEF EndScope
  <2>2. /\ <<session, scope>> \in Profile /\ ~Begun(<<session, scope>>) /\ scope \notin tasks
    BY <1>3, <2>1, Begins
  <2>3. <<session, scope>>[1] = session /\ <<session, scope>>[2] = scope BY SMT
  <2> QED BY <1>3, <2>1, <2>2, <2>3 DEF Begun, EndScope
<1>4. ASSUME NEW p \in waiting' PROVE Begun(p)' /\ ~Filed(p)'
  <2>1. CASE p \in waiting
    <3>1. p \in Profile /\ Begun(p) /\ ~Filed(p) BY <2>1 DEF Once, TypeOK
    <3>2. \A w \in Writers : WriteEntry(w) => writer[w].profile # p
      BY <2>1 DEF Once, WriteEntry
    <3> QED BY <3>1, <3>2, BegunKept, FiledAfter
  <2>2. CASE p \notin waiting
    <3>1. StartTask BY <1>1, <1>4, <2>2
    <3>2. p \in Profile /\ Begun(p)' /\ ~Begun(p) BY <1>2, <1>4, <2>2, <3>1
    <3>3. ~Filed(p) /\ UNCHANGED files BY <3>1, <3>2 DEF Once, StartTask
    <3> QED BY <3>2, <3>3 DEF Filed
  <2> QED BY <2>1, <2>2
<1>5. ASSUME NEW w \in Writers, writer'[w].at # "idle", NEW p, p = writer'[w].profile
      PROVE  /\ p \in Profile /\ p \notin waiting' /\ Begun(p)' /\ ~Filed(p)'
             /\ \A v \in Writers : v # w /\ writer[v].at # "idle" => writer[v].profile # p
  <2>1. CASE writer[w].at # "idle" /\ p = writer[w].profile /\ ~WriteEntry(w)
    <3>1. p \in Profile /\ p \notin waiting /\ Begun(p) /\ ~Filed(p) BY <2>1 DEF Once
    <3>2. p \notin waiting'
      <4>1. CASE StartTask BY <1>2, <3>1, <4>1
      <4> QED BY <1>1, <3>1, <4>1
    <3>3. \A v \in Writers : v # w /\ writer[v].at # "idle" => writer[v].profile # p
      BY <2>1 DEF Once
    <3>4. \A v \in Writers : WriteEntry(v) => writer[v].profile # p
      BY <2>1, <3>3 DEF WriteEntry
    <3>5. Begun(p)' BY <3>1, BegunKept
    <3>6. ~Filed(p)' BY <3>1, <3>4, FiledAfter
    <3> QED BY <3>1, <3>2, <3>3, <3>5, <3>6
  <2>2. CASE w \in Threads /\ Dispatch(w) /\ p \in waiting /\ waiting' = waiting \ {p}
    <3>1. p \in Profile /\ Begun(p) /\ ~Filed(p) BY <2>2 DEF Once, TypeOK
    <3>2. UNCHANGED <<pc, session, tasks, scopes, files>> BY <2>2 DEF Dispatch
    <3>3. Begun(p)' /\ ~Filed(p)' BY <3>1, <3>2 DEF Begun, Filed
    <3>4. \A v \in Writers : writer[v].at # "idle" => writer[v].profile # p
      BY <2>2 DEF Once
    <3> QED BY <2>2, <3>1, <3>3, <3>4
  <2>3. CASE w = MainThread /\ EndScope /\ \E scope \in scopes : /\ p = <<session, scope>>
                                                                 /\ scopes' = scopes \ {scope}
    <3>1. p \in Profile /\ Begun(p)' /\ ~Begun(p)
      <4>1. PICK scope \in scopes : p = <<session, scope>> /\ scopes' = scopes \ {scope}
        BY <2>3
      <4>2. EndScope BY <2>3
      <4>3. Begun(<<session, scope>>)' BY <1>3, <4>1, <4>2
      <4>4. session' = session BY <4>2 DEF EndScope
      <4>5. Begun(p)' BY <4>1, <4>3, <4>4 DEF Begun
      <4> QED BY <1>3, <4>1, <4>2, <4>5
    <3>2. UNCHANGED <<waiting, files>> BY <2>3 DEF EndScope
    <3>3. p \notin waiting /\ ~Filed(p) BY <3>1 DEF Once
    <3>4. \A v \in Writers : writer[v].at # "idle" => writer[v].profile # p
      BY <3>1 DEF Once
    <3> QED BY <3>1, <3>2, <3>3, <3>4 DEF Filed
  <2> QED BY <1>5, <2>1, <2>2, <2>3, HolderBefore
<1>6. ASSUME NEW v \in Writers, NEW w \in Writers, v # w,
             writer'[v].at # "idle", writer'[w].at # "idle"
      PROVE  writer'[v].profile # writer'[w].profile
  <2> DEFINE Kept(u) == writer[u].at # "idle" /\ writer'[u].profile = writer[u].profile
  <2>1. CASE Kept(v) BY <1>5, <1>6, <2>1
  <2>2. CASE Kept(w) BY <1>5, <1>6, <2>2
  <2>3. ~Kept(v) => (v \in Threads /\ Dispatch(v)) \/ (v = MainThread /\ EndScope)
    BY <1>6, HolderBefore
  <2>4. ~Kept(w) => (w \in Threads /\ Dispatch(w)) \/ (w = MainThread /\ EndScope)
    BY <1>6, HolderBefore
  <2>5. ASSUME NEW t \in Threads, Dispatch(t), NEW u \in Writers, u # t,
               writer'[u].at # "idle"
        PROVE  Kept(u)
    BY <2>5, DispatchDoes
  <2>6. ASSUME EndScope, NEW u \in Writers, u # MainThread, writer'[u].at # "idle"
        PROVE  Kept(u)
    BY <2>6, EndScopeDoes
  <2> QED BY <1>6, <2>1, <2>2, <2>3, <2>4, <2>5, <2>6
<1>7. ASSUME NEW p \in Profile, Filed(p)' PROVE Begun(p)'
  <2>1. CASE Filed(p) BY <2>1, BegunKept DEF Once
  <2>2. ASSUME NEW w \in Writers, WriteEntry(w), writer[w].profile = p PROVE Begun(p)'
    <3>1. Begun(p) BY <2>2 DEF Once, WriteEntry
    <3> QED BY <3>1, BegunKept
  <2> QED BY <1>7, <2>1, <2>2, FiledAfter
<1> QED BY <1>4, <1>5, <1>6, <1>7 DEF Once

-----------------------------------------------------------------------------
(* The theorems *)

(* The invariant is one.                                                    *)
THEOREM Invariance == Spec => []IInv
<1>1. IInv /\ [Next]_vars => IInv'
  BY TypePreserved, InSessionPreserved, MutexPreserved, QuietPreserved, CountedPreserved,
     ContentPreserved, ScopesFiledPreserved, TasksFiledPreserved, EntriesOncePreserved,
     OncePreserved DEF IInv
<1> QED BY Initially, <1>1, PTL DEF Spec

(* The variables have their types, whatever the sessions and the threads.   *)
THEOREM TypeCorrect == Spec => []TypeOK
<1>1. IInv => TypeOK BY DEF IInv
<1> QED BY Invariance, <1>1, PTL

(* Every session leaves a well-formed file with its scopes, or was          *)
(* disturbed; what the end of a session misses is in the hands of a thread; *)
(* and no profile is written twice (Timer.h:42-72).                         *)
THEOREM SessionFileCorrect == Spec => []SessionFile
<1>1. IInv => SessionFile
  <2> SUFFICES ASSUME IInv PROVE SessionFile OBVIOUS
  <2>0. InSession /\ Content /\ ScopesFiled /\ TasksFiled /\ EntriesOnce BY DEF IInv
  <2>1. ASSUME NEW s \in DOMAIN files \ (disturbed \cup {m_OutputStream})
        PROVE  /\ WellFormed(files[s])
               /\ \A scope \in Sessions[s].scopes : Has(files[s], <<s, scope>>)
    <3>1. ~(s = session /\ pc \in {"header", "session", "close"}) BY <2>0, <2>1, StreamIs
    <3> QED BY <2>0, <2>1, <3>1 DEF Content, ScopesFiled
  <2>2. pc = "close" /\ m_OutputStream # Closed /\ session \notin disturbed =>
           \A task \in Sessions[session].tasks :
              \/ Has(files[session], <<session, task>>)
              \/ \E t \in Threads : /\ writer[t].at \in {"stop", "count", "write"}
                                    /\ writer[t].profile = <<session, task>>
    BY <2>0 DEF TasksFiled
  <2> QED BY <2>0, <2>1, <2>2 DEF SessionFile, EntriesOnce
<1> QED BY Invariance, <1>1, PTL
=============================================================================
