----------------------------- MODULE UseCasesProofs -----------------------------
(***************************************************************************)
(* What the evaluation script keeps apart and what it keeps, for any list  *)
(* of use cases, any number of repetitions and any number of Ctrl-C.       *)
(***************************************************************************)
EXTENDS UseCases, SequenceTheorems, TLAPS

Pages == {"blank", "home", "away"}

\* The steps between the start of the capture and its end.
Busy(step) == step \notin {"start", "stop", "save", "exit"}

-------------------------------------------------------------------------------
(***************************************************************************)
(* The invariants                                                          *)
(***************************************************************************)

\* The types of what is not the tab, and the use cases that have not begun.
Types ==
  /\ case \in 1 .. Len(Plan) + 1 /\ iter \in 0 .. Repetitions /\ interrupts \in 0 .. MaxInterrupts
  /\ aborting \in BOOLEAN
  /\ tools \in [Cases -> {"none", "asking", "capturing", "ended"}]
  /\ logs \in [Cases -> {"none", "skipped", "written"}]
  /\ browsers \subseteq Cases /\ browsers \subseteq 1 .. case
  /\ mixed \subseteq (1 .. case) \X (1 .. case)
  /\ \A c \in Cases : c > case => tools[c] = "none"
  /\ \A c \in Cases : logs[c] # "none" => c < case \/ aborting

Gone(c) == c \notin browsers \/ <<"browser", c>> \in lost
Stilled(c) == tools[c] \in {"none", "ended"} \/ <<"capture", c>> \in lost

\* The order of a use case: its capture runs from start to stop and its browser
\* from launch to quit, whatever happens in between.
InTurn ==
  /\ pc = "start" => ~aborting /\ case \notin browsers /\ (case \in Cases => tools[case] = "none")
  /\ pc \notin {"start", "exit"} => case \in Cases /\ tools[case] # "none"
  /\ pc \in {"stop", "save"} => Gone(case)
  /\ pc = "save" => Stilled(case)

\* What is still owed to a capture that has not begun to capture.
Watched ==
  /\ \A c \in Cases : tools[c] = "asking" => c \in late
  /\ Busy(pc) => tools[case] = "capturing" \/ case \in late \/ interrupts > 0

OutsideInv == Types /\ InTurn /\ Watched /\ OwnTrafficOnly /\ AllEnded /\ LogKept /\ UnseenOnlyIf

\* A tab's history begins where the browser does.
History(t) == t \in Seq(Pages) /\ Len(t) >= 1 /\ t[1] = "blank"

\* Which steps belong to which kind of use case.
CnnSteps == {"search", "none", "click", "read", "back", "reload", "reloadAnyway", "timedOut",
             "timedOutReload", "clickError", "reselect"}
PdfSteps == {"find", "direct", "download", "fallback", "directReturn", "return", "redo"}
VideoSteps == {"video", "play"}

OwnSteps ==
  /\ pc \in CnnSteps => Kind = 1
  /\ pc \in PdfSteps => Kind = 2
  /\ pc \in VideoSteps => Kind = 3

\* The steps that repair the page after an error, which was logged.
Repairs == {"reload", "reloadAnyway", "timedOut", "timedOutReload", "clickError", "reselect", "redo"}

\* Where the page may be at a step, for a tab, what was said and whether the click
\* led anywhere: going back from an article leads to the page before it.
Home(t) == t[Len(t)] = "home"
Excused(s, u) == s \/ u \/ began # "home"

Fits(step, t, s, u) ==
  /\ History(t) /\ s \in BOOLEAN /\ u \in BOOLEAN
  /\ step \in {"click", "read", "back", "timedOut"} => Len(t) >= 2
  /\ step \in Repairs => s
  /\ step \in {"search", "none", "click"} => Home(t) \/ Excused(s, u)
  /\ step \in {"read", "back"} => t[Len(t) - 1] = "home" \/ Excused(s, u)
  /\ step = "play" => Home(t) \/ s
  /\ step = "next" => \/ Home(t) \/ s
                      \/ Kind = 1 /\ (u \/ began # "home")
                      \/ Kind = 2 /\ iter = Repetitions

PageInv == OwnSteps /\ Fits(pc, tab, said, unmoved)

-------------------------------------------------------------------------------
(***************************************************************************)
(* Captures, browsers and logs                                             *)
(***************************************************************************)

LEMMA PlanLength == Len(Plan) \in Nat /\ Repetitions \in Nat \ {0} /\ MaxInterrupts \in Nat
BY UseCasesAssumption

\* The script begins with nothing running and nothing written.
LEMMA InitOutside == Init => OutsideInv
<1> SUFFICES ASSUME Init PROVE OutsideInv
  OBVIOUS
<1>1. Types
  <2>1. /\ case = 1 /\ iter = 0 /\ interrupts = 0 /\ browsers = {} /\ mixed = {}
        /\ tools = [c \in Cases |-> "none"] /\ logs = [c \in Cases |-> "none"]
    BY DEF Init
  <2>2. aborting \in BOOLEAN
    BY DEF Init
  <2>3. case \in 1 .. Len(Plan) + 1 /\ iter \in 0 .. Repetitions /\ interrupts \in 0 .. MaxInterrupts
    BY <2>1, PlanLength
  <2>4. QED
    BY <2>1, <2>2, <2>3 DEF Types
<1>2. InTurn /\ Watched
  <2>1. \A c \in Cases : tools[c] = "none"
    BY DEF Init
  <2>2. pc = "start" /\ ~aborting /\ browsers = {}
    BY DEF Init
  <2>3. QED
    BY <2>1, <2>2 DEF InTurn, Watched, Busy
<1>3. OwnTrafficOnly /\ AllEnded /\ UnseenOnlyIf
  BY DEF Init, OwnTrafficOnly, AllEnded, UnseenOnlyIf
<1>4. LogKept
  BY DEF Init, LogKept, Cases
<1>5. QED
  BY <1>1, <1>2, <1>3, <1>4 DEF OutsideInv

\* The steps of a use case between its launch and its end only turn pages.
PageStep == Busy(pc) /\ Busy(pc') /\ UNCHANGED <<control, outside, logs>>

LEMMA PageSteps ==
  ASSUME Load \/ Cnn \/ Pdf \/ Video \/ NextIteration \/ Finish
  PROVE  PageStep
<1> USE DEF Step, Stay, Do, Return, Busy, PageStep
<1>1. CASE Load
  BY <1>1 DEF Load
<1>2. CASE Search \/ NoLinks
  BY <1>2 DEF Search, NoLinks
<1>3. CASE Click
  BY <1>3 DEF Click
<1>4. CASE Article
  BY <1>4 DEF Article
<1>5. CASE GoBack
  BY <1>5 DEF GoBack
<1>6. CASE Recover
  BY <1>6 DEF Recover
<1>7. CASE Find
  BY <1>7 DEF Find
<1>8. CASE Download
  BY <1>8 DEF Download
<1>9. CASE BackToList
  BY <1>9 DEF BackToList
<1>10. CASE Video
  BY <1>10 DEF Video
<1>11. CASE NextIteration \/ Finish
  BY <1>11 DEF NextIteration, Finish
<1>12. QED
  BY <1>1, <1>2, <1>3, <1>4, <1>5, <1>6, <1>7, <1>8, <1>9, <1>10, <1>11 DEF Cnn, Pdf

\* Turning pages, and the start of a repetition, leave the rest alone.
LEMMA PageStepKeepsOutside ==
  ASSUME OutsideInv,
         \/ PageStep
         \/ /\ Busy(pc) /\ Busy(pc') /\ iter' \in 0 .. Repetitions
            /\ UNCHANGED <<case, aborting, interrupts, outside, logs>>
  PROVE  OutsideInv'
<1>1. /\ Busy(pc) /\ Busy(pc') /\ iter' \in 0 .. Repetitions
      /\ UNCHANGED <<case, aborting, interrupts, outside, logs>>
  BY DEF PageStep, control, OutsideInv, Types
<1>2. Types'
  BY <1>1 DEF OutsideInv, Types, outside
<1>3. InTurn' /\ Watched'
  BY <1>1 DEF OutsideInv, InTurn, Watched, Busy, outside
<1>4. OwnTrafficOnly' /\ UnseenOnlyIf'
  BY <1>1 DEF OutsideInv, OwnTrafficOnly, UnseenOnlyIf, outside
<1>5. AllEnded' /\ LogKept'
  BY <1>1 DEF OutsideInv, AllEnded, LogKept, Busy, outside
<1>6. QED
  BY <1>2, <1>3, <1>4, <1>5 DEF OutsideInv

\* A capture that starts belongs to the use case that begins; one that does not
\* start ends the use case before its browser.
LEMMA StartKeepsOutside ==
  ASSUME OutsideInv, Start PROVE OutsideInv'
<1>1. PICK t \in {"asking", "capturing", "ended"} :
        /\ pc = "start" /\ case <= Len(Plan)
        /\ tools' = [tools EXCEPT ![case] = t]
        /\ IF Running(t) THEN pc' = "launch" /\ case' = case /\ logs' = logs
                         ELSE pc' = "start" /\ case' = case + 1 /\ logs' = [logs EXCEPT ![case] = "skipped"]
        /\ late' = IF t = "asking" THEN late \cup {case} ELSE late
        /\ UNCHANGED <<page, iter, aborting, interrupts, began, browsers, mixed, unseen, lost>>
  BY DEF Start
<1>2. case \in Cases /\ case \in Nat
  BY <1>1, PlanLength DEF OutsideInv, Types, Cases
<1>3. case \notin browsers /\ tools[case] = "none" /\ ~aborting
  BY <1>1, <1>2 DEF OutsideInv, InTurn
<1>4. /\ tools' \in [Cases -> {"none", "asking", "capturing", "ended"}]
      /\ \A c \in Cases : tools'[c] = IF c = case THEN t ELSE tools[c]
  BY <1>1, <1>2 DEF OutsideInv, Types
<1>5. CASE Running(t)
  <2>1. t # "ended" /\ t # "none"
    BY <1>1, <1>5 DEF Running
  <2>2. Types'
    BY <1>1, <1>2, <1>4, <1>5 DEF OutsideInv, Types
  <2>3. InTurn'
    BY <1>1, <1>2, <1>3, <1>4, <1>5 DEF InTurn
  <2>4. Watched'
    BY <1>1, <1>2, <1>4, <1>5, <2>1 DEF OutsideInv, Watched, Busy
  <2>5. OwnTrafficOnly' /\ UnseenOnlyIf'
    BY <1>1 DEF OutsideInv, OwnTrafficOnly, UnseenOnlyIf
  <2>6. AllEnded'
    BY <1>1, <1>2, <1>3, <1>4, <1>5 DEF OutsideInv, AllEnded, Types
  <2>7. LogKept'
    BY <1>1, <1>2, <1>4, <1>5 DEF OutsideInv, LogKept
  <2>8. QED
    BY <2>2, <2>3, <2>4, <2>5, <2>6, <2>7 DEF OutsideInv
<1>6. CASE ~Running(t)
  <2>1. t = "ended" /\ pc' = "start" /\ case' = case + 1 /\ logs' = [logs EXCEPT ![case] = "skipped"]
    BY <1>1, <1>6 DEF Running
  <2>2. Types'
    <3>1. case' \in 1 .. Len(Plan) + 1 /\ case < case'
      BY <1>1, <1>2, <2>1, PlanLength DEF Cases
    <3>2. logs' \in [Cases -> {"none", "skipped", "written"}]
      BY <1>2, <2>1 DEF OutsideInv, Types
    <3>3. \A c \in Cases : logs'[c] # "none" => c < case' \/ aborting'
      BY <1>1, <1>2, <2>1, PlanLength DEF OutsideInv, Types, Cases
    <3>4. browsers' \subseteq Cases /\ browsers' \subseteq 1 .. case'
      BY <1>1, <1>2, <2>1 DEF OutsideInv, Types
    <3>5. mixed' \subseteq (1 .. case') \X (1 .. case')
      <4>1. 1 .. case \subseteq 1 .. case'
        BY <1>2, <2>1
      <4>2. QED
        BY <1>1, <4>1 DEF OutsideInv, Types
    <3>6. \A c \in Cases : c > case' => tools'[c] = "none"
      BY <1>2, <1>4, <2>1, PlanLength DEF OutsideInv, Types, Cases
    <3>7. QED
      BY <1>1, <1>4, <3>1, <3>2, <3>3, <3>4, <3>5, <3>6 DEF OutsideInv, Types
  <2>3. InTurn'
    <3>1. case' \notin browsers
      BY <1>2, <2>1 DEF OutsideInv, Types
    <3>2. case' \in Cases => tools'[case'] = "none"
      BY <1>2, <1>4, <2>1 DEF OutsideInv, Types
    <3>3. QED
      BY <1>1, <1>3, <2>1, <3>1, <3>2 DEF InTurn
  <2>4. Watched'
    BY <1>1, <1>2, <1>4, <2>1 DEF OutsideInv, Watched, Busy
  <2>5. OwnTrafficOnly' /\ UnseenOnlyIf'
    BY <1>1 DEF OutsideInv, OwnTrafficOnly, UnseenOnlyIf
  <2>6. AllEnded'
    <3> SUFFICES ASSUME NEW c \in Cases, c < case'
                 PROVE  /\ tools'[c] \in {"none", "ended"} \/ <<"capture", c>> \in lost
                        /\ c \notin browsers \/ <<"browser", c>> \in lost
      BY <1>1, <2>1 DEF AllEnded
    <3>1. c = case \/ c < case
      BY <1>2, <2>1, PlanLength DEF Cases
    <3>2. QED
      BY <1>2, <1>3, <1>4, <2>1, <3>1 DEF OutsideInv, AllEnded
  <2>7. LogKept'
    <3> SUFFICES ASSUME NEW c \in Cases, logs'[c] = "none", c < case'
                 PROVE  <<"log", c>> \in lost
      BY <1>1, <2>1 DEF LogKept
    <3>1. c # case /\ logs[c] = "none"
      BY <1>2, <2>1 DEF OutsideInv, Types
    <3>2. c < case
      BY <1>2, <2>1, <3>1, PlanLength DEF Cases
    <3>3. QED
      BY <3>1, <3>2 DEF OutsideInv, LogKept
  <2>8. QED
    BY <2>2, <2>3, <2>4, <2>5, <2>6, <2>7 DEF OutsideInv
<1>7. QED
  BY <1>5, <1>6

\* The browser of a use case is its own.
LEMMA LaunchKeepsOutside ==
  ASSUME OutsideInv, Launch PROVE OutsideInv'
<1>1. /\ pc = "launch" /\ Busy(pc') /\ pc' # "launch" /\ iter' = 0
      /\ browsers' \in {browsers, browsers \cup {case}}
      /\ UNCHANGED <<page, case, aborting, interrupts, began, tools, mixed, unseen, late, lost, logs>>
  BY DEF Launch, Busy
<1>2. case \in Cases /\ tools[case] # "none" /\ case \in Nat /\ case >= 1
  BY <1>1, PlanLength DEF OutsideInv, InTurn, Types, Cases
<1>3. iter' \in 0 .. Repetitions
  BY <1>1, PlanLength
<1>4. Types'
  BY <1>1, <1>2, <1>3 DEF OutsideInv, Types
<1>5. InTurn' /\ Watched'
  BY <1>1, <1>2 DEF OutsideInv, InTurn, Watched, Busy
<1>6. OwnTrafficOnly' /\ UnseenOnlyIf'
  BY <1>1 DEF OutsideInv, OwnTrafficOnly, UnseenOnlyIf
<1>7. AllEnded' /\ LogKept'
  BY <1>1, <1>2 DEF OutsideInv, AllEnded, LogKept, Busy, Types
<1>8. QED
  BY <1>4, <1>5, <1>6, <1>7 DEF OutsideInv

\* The browser is quit, or known to have outlived the attempt.
LEMMA QuitKeepsOutside ==
  ASSUME OutsideInv, Quit PROVE OutsideInv'
<1>1. /\ pc = "quit" /\ pc' = "stop"
      /\ \/ browsers' = browsers \ {case} /\ lost' = lost
         \/ browsers' = browsers /\ lost' = lost \cup {<<"browser", case>>}
      /\ UNCHANGED <<case, iter, aborting, interrupts, tools, logs, mixed, unseen, late>>
  BY DEF Quit
<1>2. case \in Cases /\ tools[case] # "none"
  BY <1>1 DEF OutsideInv, InTurn
<1>3. lost \subseteq lost' /\ browsers' \subseteq browsers
  BY <1>1
<1>4. Types'
  BY <1>1, <1>3 DEF OutsideInv, Types
<1>5. InTurn' /\ Watched'
  BY <1>1, <1>2 DEF OutsideInv, InTurn, Watched, Busy, Gone
<1>6. OwnTrafficOnly' /\ UnseenOnlyIf'
  BY <1>1, <1>3 DEF OutsideInv, OwnTrafficOnly, UnseenOnlyIf
<1>7. AllEnded' /\ LogKept'
  BY <1>1, <1>2, <1>3 DEF OutsideInv, AllEnded, LogKept
<1>8. QED
  BY <1>4, <1>5, <1>6, <1>7 DEF OutsideInv

\* The capture is ended, or known to have outlived the attempt.
LEMMA StopKeepsOutside ==
  ASSUME OutsideInv, Stop PROVE OutsideInv'
<1>1. /\ pc = "stop" /\ pc' = "save"
      /\ \/ tools' = [tools EXCEPT ![case] = "ended"] /\ lost' = lost
         \/ tools' = tools /\ lost' = lost \cup {<<"capture", case>>}
      /\ UNCHANGED <<page, control, browsers, logs, mixed, unseen, late>>
  BY DEF Stop, Stopped
<1>2. case \in Cases /\ tools[case] # "none" /\ Gone(case)
  BY <1>1 DEF OutsideInv, InTurn
<1>3. lost \subseteq lost' /\ tools' \in [Cases -> {"none", "asking", "capturing", "ended"}]
  BY <1>1 DEF OutsideInv, Types
<1>4. \A c \in Cases : tools'[c] = tools[c] \/ (c = case /\ tools'[c] = "ended")
  BY <1>1, <1>2 DEF OutsideInv, Types
<1>5. tools'[case] # "none" /\ (tools'[case] = "ended" \/ <<"capture", case>> \in lost')
  BY <1>1, <1>2 DEF OutsideInv, Types
<1>6. Types'
  BY <1>1, <1>2, <1>3, <1>4 DEF OutsideInv, Types, control, Cases
<1>7. InTurn' /\ Watched'
  BY <1>1, <1>2, <1>3, <1>4, <1>5 DEF OutsideInv, InTurn, Watched, Busy, Gone, Stilled, control
<1>8. OwnTrafficOnly' /\ UnseenOnlyIf'
  BY <1>1, <1>3 DEF OutsideInv, OwnTrafficOnly, UnseenOnlyIf, control
<1>9. AllEnded' /\ LogKept'
  BY <1>1, <1>2, <1>3, <1>4 DEF OutsideInv, AllEnded, LogKept, control
<1>10. QED
  BY <1>6, <1>7, <1>8, <1>9 DEF OutsideInv

\* The log is written when browser and capture are behind.
LEMMA SaveKeepsOutside ==
  ASSUME OutsideInv, Save PROVE OutsideInv'
<1>1. /\ pc = "save" /\ logs' = [logs EXCEPT ![case] = "written"]
      /\ IF aborting THEN pc' = "exit" /\ case' = case ELSE pc' = "start" /\ case' = case + 1
      /\ UNCHANGED <<page, iter, aborting, interrupts, began, outside>>
  BY DEF Save, Written
<1>2. /\ case \in Cases /\ case \in Nat /\ tools[case] # "none"
      /\ Gone(case) /\ Stilled(case)
  BY <1>1, PlanLength DEF OutsideInv, InTurn, Cases
<1>3. UNCHANGED <<tools, browsers, mixed, unseen, late, lost, aborting, interrupts, iter>>
  BY <1>1 DEF outside
<1>4. /\ logs' \in [Cases -> {"none", "skipped", "written"}]
      /\ \A c \in Cases : logs'[c] = IF c = case THEN "written" ELSE logs[c]
  BY <1>1, <1>2 DEF OutsideInv, Types
<1>5. /\ case' \in 1 .. Len(Plan) + 1 /\ case <= case' /\ (~aborting => case < case')
      /\ \A c \in Cases : c < case' => c = case \/ c < case
  BY <1>1, <1>2, PlanLength DEF Cases
<1>6. Types'
  <2>1. browsers \subseteq 1 .. case'
    BY <1>2, <1>5 DEF OutsideInv, Types
  <2>2. mixed \subseteq (1 .. case') \X (1 .. case')
    <3>1. 1 .. case \subseteq 1 .. case'
      BY <1>2, <1>5
    <3>2. QED
      BY <3>1 DEF OutsideInv, Types
  <2>3. \A c \in Cases : c > case' => tools[c] = "none"
    BY <1>2, <1>5, PlanLength DEF OutsideInv, Types, Cases
  <2>4. \A c \in Cases : logs'[c] # "none" => c < case' \/ aborting
    BY <1>2, <1>4, <1>5, PlanLength DEF OutsideInv, Types, Cases
  <2>5. QED
    BY <1>3, <1>4, <1>5, <2>1, <2>2, <2>3, <2>4 DEF OutsideInv, Types
<1>7. InTurn'
  <2>1. CASE aborting
    BY <1>1, <2>1 DEF InTurn
  <2>2. CASE ~aborting
    <3>1. pc' = "start" /\ case' = case + 1
      BY <1>1, <2>2
    <3>2. case' \notin browsers /\ (case' \in Cases => tools[case'] = "none")
      BY <1>2, <3>1 DEF OutsideInv, Types
    <3>3. QED
      BY <1>3, <2>2, <3>1, <3>2 DEF InTurn
  <2>3. QED
    BY <2>1, <2>2
<1>8. Watched'
  BY <1>1, <1>3 DEF OutsideInv, Watched, Busy
<1>9. OwnTrafficOnly' /\ UnseenOnlyIf'
  BY <1>3 DEF OutsideInv, OwnTrafficOnly, UnseenOnlyIf
<1>10. AllEnded'
  <2> SUFFICES ASSUME NEW c \in Cases, c < case' \/ pc' = "exit"
               PROVE  /\ tools[c] \in {"none", "ended"} \/ <<"capture", c>> \in lost
                      /\ c \notin browsers \/ <<"browser", c>> \in lost
    BY <1>3 DEF AllEnded
  <2>1. CASE c < case
    BY <2>1 DEF OutsideInv, AllEnded
  <2>2. CASE c = case
    BY <1>2, <2>2 DEF Gone, Stilled
  <2>3. CASE c > case
    <3>1. tools[c] = "none" /\ c \notin browsers
      BY <1>2, <2>3, PlanLength DEF OutsideInv, Types, Cases
    <3>2. QED
      BY <3>1
  <2>4. QED
    BY <1>2, <2>1, <2>2, <2>3, PlanLength DEF Cases
<1>11. LogKept'
  <2> SUFFICES ASSUME NEW c \in Cases, logs'[c] = "none",
                      c < case' \/ (c = case' /\ pc' = "exit")
               PROVE  <<"log", c>> \in lost
    BY <1>3 DEF LogKept
  <2>1. c # case /\ logs[c] = "none"
    BY <1>4
  <2>2. c < case
    BY <1>1, <1>5, <2>1
  <2>3. QED
    BY <2>1, <2>2 DEF OutsideInv, LogKept
<1>12. QED
  BY <1>6, <1>7, <1>8, <1>9, <1>10, <1>11 DEF OutsideInv

\* After the last use case the script ends.
LEMMA ExitKeepsOutside ==
  ASSUME OutsideInv, Exit PROVE OutsideInv'
<1>1. /\ pc = "start" /\ case > Len(Plan) /\ pc' = "exit"
      /\ UNCHANGED <<case, iter, aborting, interrupts, tools, browsers, mixed, unseen, late, lost, logs>>
  BY DEF Exit, control, outside
<1>2. \A c \in Cases : c < case /\ c # case
  BY <1>1, PlanLength DEF OutsideInv, Types, Cases
<1>3. Types' /\ InTurn' /\ Watched'
  BY <1>1 DEF OutsideInv, Types, InTurn, Watched, Busy
<1>4. OwnTrafficOnly' /\ UnseenOnlyIf'
  BY <1>1 DEF OutsideInv, OwnTrafficOnly, UnseenOnlyIf
<1>5. AllEnded' /\ LogKept'
  BY <1>1, <1>2 DEF OutsideInv, AllEnded, LogKept
<1>6. QED
  BY <1>3, <1>4, <1>5 DEF OutsideInv

\* What the terminal's Ctrl-C does to the captures keeps what is known of them.
LEMMA CtrlCTools ==
  ASSUME OutsideInv, CtrlC
  PROVE  /\ tools' \in [Cases -> {"none", "ended"}]
         /\ \A c \in Cases : tools'[c] = "none" <=> tools[c] = "none"
         /\ interrupts' \in 0 .. MaxInterrupts /\ interrupts' > 0
         /\ UNCHANGED <<case, iter, browsers, logs, mixed, unseen, late>>
<1>1. interrupts' \in 0 .. MaxInterrupts /\ interrupts' > 0
  BY PlanLength DEF OutsideInv, Types, CtrlC
<1>2. tools' = [c \in Cases |-> IF tools[c] = "none" THEN "none" ELSE "ended"]
  BY DEF CtrlC
<1>3. QED
  BY <1>1, <1>2 DEF CtrlC

\* An except without a type that swallows Ctrl-C: the use case goes on, blind.
LEMMA SwallowKeepsOutside ==
  ASSUME OutsideInv, Swallow PROVE OutsideInv'
<1>1. /\ CtrlC /\ aborting' = aborting
      /\ \/ Busy(pc) /\ Busy(pc') /\ lost' = lost
         \/ /\ pc = "quit" /\ pc' = "stop" /\ lost \subseteq lost'
            /\ case \in browsers => <<"browser", case>> \in lost'
  BY DEF Swallow, Swallowed, Busy
<1>2. /\ tools' \in [Cases -> {"none", "ended"}]
      /\ \A c \in Cases : tools'[c] = "none" <=> tools[c] = "none"
      /\ interrupts' \in 0 .. MaxInterrupts /\ interrupts' > 0
      /\ UNCHANGED <<case, iter, browsers, logs, mixed, unseen, late>>
  BY <1>1, CtrlCTools
<1>3. Busy(pc) /\ lost \subseteq lost' /\ pc' # "exit" /\ pc' # "start" /\ pc' # "save"
  BY <1>1 DEF Busy
<1>4. case \in Cases /\ tools[case] # "none"
  BY <1>3 DEF OutsideInv, InTurn, Busy
<1>5. Types'
  BY <1>1, <1>2 DEF OutsideInv, Types
<1>6. InTurn'
  BY <1>1, <1>2, <1>3, <1>4 DEF InTurn, Gone, Busy
<1>7. Watched'
  BY <1>2 DEF Watched
<1>8. OwnTrafficOnly' /\ UnseenOnlyIf'
  BY <1>2, <1>3 DEF OutsideInv, OwnTrafficOnly, UnseenOnlyIf
<1>9. AllEnded' /\ LogKept'
  BY <1>2, <1>3 DEF OutsideInv, AllEnded, LogKept
<1>10. QED
  BY <1>5, <1>6, <1>7, <1>8, <1>9 DEF OutsideInv

\* Ctrl-C that nothing swallows: the finally clauses run, or are hit themselves.
LEMMA InterruptKeepsOutside ==
  ASSUME OutsideInv, Interrupt PROVE OutsideInv'
<1>1. /\ pc \notin {"quit", "exit"} /\ CtrlC /\ aborting' = TRUE
      /\ pc' = IF pc \in {"start", "stop", "save"} THEN "exit" ELSE "quit"
      /\ lost' = IF pc \in {"stop", "save"} THEN lost \cup {<<"log", case>>} ELSE lost
  BY DEF Interrupt
<1>2. /\ tools' \in [Cases -> {"none", "ended"}]
      /\ \A c \in Cases : tools'[c] = "none" <=> tools[c] = "none"
      /\ interrupts' \in 0 .. MaxInterrupts /\ interrupts' > 0
      /\ UNCHANGED <<case, iter, browsers, logs, mixed, unseen, late>>
  BY <1>1, CtrlCTools
<1>3. lost \subseteq lost'
  BY <1>1
<1>4. Types'
  BY <1>1, <1>2 DEF OutsideInv, Types
<1>5. InTurn'
  BY <1>1, <1>2 DEF OutsideInv, InTurn
<1>6. Watched'
  BY <1>2 DEF Watched
<1>7. OwnTrafficOnly' /\ UnseenOnlyIf'
  BY <1>2, <1>3 DEF OutsideInv, OwnTrafficOnly, UnseenOnlyIf
<1>8. AllEnded'
  <2> SUFFICES ASSUME NEW c \in Cases, c < case \/ pc' = "exit"
               PROVE  c \notin browsers \/ <<"browser", c>> \in lost'
    BY <1>2 DEF AllEnded
  <2>1. CASE c < case
    BY <1>3, <2>1 DEF OutsideInv, AllEnded
  <2>2. CASE c = case /\ pc' = "exit"
    BY <1>1, <1>3, <2>2 DEF OutsideInv, InTurn, Gone
  <2>3. CASE c > case
    BY <2>3, PlanLength DEF OutsideInv, Types, Cases
  <2>4. QED
    BY <2>1, <2>2, <2>3, PlanLength DEF OutsideInv, Types, Cases
<1>9. LogKept'
  <2> SUFFICES ASSUME NEW c \in Cases, logs[c] = "none",
                      c < case \/ (c = case /\ pc' = "exit" /\ tools[c] # "none")
               PROVE  <<"log", c>> \in lost'
    BY <1>2 DEF LogKept
  <2>1. CASE c < case
    BY <1>3, <2>1 DEF OutsideInv, LogKept
  <2>2. CASE c = case /\ pc' = "exit" /\ tools[c] # "none"
    BY <1>1, <2>2 DEF OutsideInv, InTurn
  <2>3. QED
    BY <2>1, <2>2
<1>10. QED
  BY <1>4, <1>5, <1>6, <1>7, <1>8, <1>9 DEF OutsideInv

\* sudo gets its password late.
LEMMA AskKeepsOutside ==
  ASSUME OutsideInv, Ask PROVE OutsideInv'
<1>1. PICK k \in Cases, t \in {"capturing", "ended"} :
        /\ tools[k] = "asking" /\ tools' = [tools EXCEPT ![k] = t]
        /\ UNCHANGED <<pc, page, control, browsers, logs, mixed, unseen, late, lost>>
  BY DEF Ask
<1>2. /\ tools' \in [Cases -> {"none", "asking", "capturing", "ended"}]
      /\ \A c \in Cases : tools'[c] = IF c = k THEN t ELSE tools[c]
  BY <1>1 DEF OutsideInv, Types
<1>3. UNCHANGED <<case, iter, aborting, interrupts>>
  BY <1>1 DEF control
<1>4. k \in late
  BY <1>1 DEF OutsideInv, Watched
<1>5. Types'
  BY <1>1, <1>2, <1>3 DEF OutsideInv, Types
<1>6. InTurn'
  BY <1>1, <1>2, <1>3 DEF OutsideInv, InTurn, Gone, Stilled, Types
<1>7. Watched'
  BY <1>1, <1>2, <1>3, <1>4 DEF OutsideInv, Watched
<1>8. OwnTrafficOnly' /\ UnseenOnlyIf'
  BY <1>1, <1>3 DEF OutsideInv, OwnTrafficOnly, UnseenOnlyIf
<1>9. AllEnded' /\ LogKept'
  BY <1>1, <1>2, <1>3 DEF OutsideInv, AllEnded, LogKept
<1>10. QED
  BY <1>5, <1>6, <1>7, <1>8, <1>9 DEF OutsideInv

\* A browser that runs belongs to the use case at work, or outlived its end.
LEMMA RunningBrowsers ==
  ASSUME OutsideInv, NEW d \in browsers
  PROVE  <<"browser", d>> \in lost \/ (d = case /\ Busy(pc))
<1>1. d \in Cases /\ d <= case
  BY PlanLength DEF OutsideInv, Types
<1>2. CASE d < case \/ pc = "exit"
  BY <1>1, <1>2 DEF OutsideInv, AllEnded
<1>3. CASE d = case /\ pc # "exit"
  BY <1>3 DEF OutsideInv, InTurn, Gone, Busy
<1>4. QED
  BY <1>1, <1>2, <1>3, PlanLength DEF OutsideInv, Types, Cases

\* Traffic goes where the captures listen.
LEMMA BrowseKeepsOutside ==
  ASSUME OutsideInv, Browse PROVE OutsideInv'
<1>1. /\ mixed' = mixed \cup {x \in Cases \X browsers : x[1] # x[2] /\ tools[x[1]] = "capturing"}
      /\ unseen' = unseen \cup {d \in browsers : tools[d] # "capturing" /\ <<"browser", d>> \notin lost}
      /\ UNCHANGED <<pc, case, iter, aborting, interrupts, tools, browsers, logs, late, lost>>
  BY DEF Browse, control
<1>2. browsers \subseteq Cases /\ case \in Nat
  BY PlanLength DEF OutsideInv, Types
<1>3. ASSUME NEW c \in Cases, NEW d \in browsers, c # d, tools[c] = "capturing"
      PROVE  /\ c \in 1 .. case /\ d \in 1 .. case
             /\ (IF d < c THEN <<"browser", d>> ELSE <<"capture", c>>) \in lost
  <2>1. c <= case /\ c \in 1 .. case /\ d \in 1 .. case
    BY <1>2, <1>3, PlanLength DEF OutsideInv, Types, Cases
  <2>2. CASE d < c
    <3>1. d < case
      BY <1>2, <2>1, <2>2
    <3>2. QED
      BY <1>2, <2>1, <2>2, <3>1 DEF OutsideInv, AllEnded
  <2>3. CASE ~(d < c)
    <3>1. c < case
      BY <1>2, <1>3, <2>1, <2>3
    <3>2. QED
      BY <1>3, <2>1, <2>3, <3>1 DEF OutsideInv, AllEnded
  <2>4. QED
    BY <2>2, <2>3
<1>4. mixed' \subseteq (1 .. case) \X (1 .. case)
  <2>1. mixed \subseteq (1 .. case) \X (1 .. case)
    BY DEF OutsideInv, Types
  <2>2. ASSUME NEW x \in Cases \X browsers, x[1] # x[2], tools[x[1]] = "capturing"
        PROVE  x \in (1 .. case) \X (1 .. case)
    <3>1. PICK c \in Cases, d \in browsers : x = <<c, d>>
      OBVIOUS
    <3>2. c \in 1 .. case /\ d \in 1 .. case
      BY <1>3, <2>2, <3>1
    <3>3. QED
      BY <3>1, <3>2
  <2>3. QED
    BY <1>1, <2>1, <2>2
<1>5. OwnTrafficOnly'
  BY <1>1, <1>3 DEF OutsideInv, OwnTrafficOnly
<1>6. UnseenOnlyIf'
  <2> SUFFICES ASSUME NEW d \in browsers, tools[d] # "capturing", <<"browser", d>> \notin lost
               PROVE  d \in late \/ interrupts > 0
    BY <1>1 DEF OutsideInv, UnseenOnlyIf
  <2>1. d = case /\ Busy(pc)
    BY RunningBrowsers
  <2>2. QED
    BY <2>1 DEF OutsideInv, Watched
<1>7. Types'
  BY <1>1, <1>4 DEF OutsideInv, Types
<1>8. InTurn' /\ Watched'
  BY <1>1 DEF OutsideInv, InTurn, Watched, Gone, Stilled
<1>9. AllEnded' /\ LogKept'
  BY <1>1 DEF OutsideInv, AllEnded, LogKept
<1>10. QED
  BY <1>5, <1>6, <1>7, <1>8, <1>9 DEF OutsideInv

\* Captures, browsers and logs of the script, wherever an exception or Ctrl-C hits it.
THEOREM OutsideInvariant == Spec => []OutsideInv
<1>1. ASSUME OutsideInv, [Next]_vars PROVE OutsideInv'
  <2>1. CASE Iterate
    <3>1. iter' \in 0 .. Repetitions
      BY <1>1, <2>1, PlanLength DEF Iterate, OutsideInv, Types
    <3>2. Busy(pc) /\ Busy(pc') /\ UNCHANGED <<case, aborting, interrupts, outside, logs>>
      <4>1. Kind \in {1, 2, 3}
        <5>1. case \in Cases
          BY <1>1, <2>1 DEF Iterate, OutsideInv, InTurn
        <5>2. QED
          BY <5>1, UseCasesAssumption DEF Kind, Cases
      <4>2. QED
        BY <2>1, <4>1 DEF Iterate, Busy
    <3>3. QED
      BY <1>1, <3>1, <3>2, PageStepKeepsOutside
  <2>2. CASE Load \/ Cnn \/ Pdf \/ Video \/ NextIteration \/ Finish
    BY <1>1, <2>2, PageSteps, PageStepKeepsOutside
  <2>3. CASE Start
    BY <1>1, <2>3, StartKeepsOutside
  <2>4. CASE Launch
    BY <1>1, <2>4, LaunchKeepsOutside
  <2>5. CASE Quit
    BY <1>1, <2>5, QuitKeepsOutside
  <2>6. CASE Stop
    BY <1>1, <2>6, StopKeepsOutside
  <2>7. CASE Save
    BY <1>1, <2>7, SaveKeepsOutside
  <2>8. CASE Exit
    BY <1>1, <2>8, ExitKeepsOutside
  <2>9. CASE Swallow
    BY <1>1, <2>9, SwallowKeepsOutside
  <2>10. CASE Interrupt
    BY <1>1, <2>10, InterruptKeepsOutside
  <2>11. CASE Ask
    BY <1>1, <2>11, AskKeepsOutside
  <2>12. CASE Browse
    BY <1>1, <2>12, BrowseKeepsOutside
  <2>13. CASE UNCHANGED vars
    <3>1. UNCHANGED <<pc, case, iter, aborting, interrupts, tools, browsers, mixed, unseen, late, lost, logs>>
      BY <2>13 DEF vars, control, outside
    <3>2. Types' /\ InTurn' /\ Watched'
      BY <1>1, <3>1 DEF OutsideInv, Types, InTurn, Watched, Gone, Stilled
    <3>3. OwnTrafficOnly' /\ AllEnded' /\ LogKept' /\ UnseenOnlyIf'
      BY <1>1, <3>1 DEF OutsideInv, OwnTrafficOnly, AllEnded, LogKept, UnseenOnlyIf
    <3>4. QED
      BY <3>2, <3>3 DEF OutsideInv
  <2>14. QED
    BY <1>1, <2>1, <2>2, <2>3, <2>4, <2>5, <2>6, <2>7, <2>8, <2>9, <2>10, <2>11, <2>12, <2>13 DEF Next
<1>2. QED
  BY InitOutside, <1>1, PTL DEF Spec

\* Every log is kept and no traffic missed but for the reasons the properties name.
THEOREM ScriptMissesNothing == Spec => []NothingMissed
<1>1. OutsideInv => NothingMissed
  BY DEF OutsideInv, NothingMissed
<1>2. QED
  BY OutsideInvariant, <1>1, PTL

\* With the types of the tab, the use cases stay apart.
LEMMA ApartIf == OutsideInv /\ PageInv => CapturesApart
<1> SUFFICES ASSUME OutsideInv, PageInv PROVE CapturesApart
  OBVIOUS
<1>1. tab \in Seq(Pages) /\ Len(tab) >= 1 /\ tab[1] = "blank"
  BY DEF PageInv, Fits, History
<1>2. tab # <<>> /\ Range(tab) \subseteq Pages
  BY <1>1 DEF Range
<1>3. TypeOK
  BY <1>1, <1>2 DEF OutsideInv, Types, TypeOK, Pages
<1>4. QED
  BY <1>3 DEF OutsideInv, CapturesApart
-------------------------------------------------------------------------------
(***************************************************************************)
(* The pages                                                               *)
(***************************************************************************)

\* The page shown is the last one.
LEMMA ShownIs == ASSUME History(tab) PROVE Shown = tab[Len(tab)] /\ Len(tab) \in Nat
BY DEF Shown, Last, History

\* A page that is opened is appended, unless it is shown already.
LEMMA OpenedIs ==
  ASSUME History(tab), NEW p \in {"home", "away"}
  PROVE  /\ History(Opened(p)) /\ Len(Opened(p)) >= Len(tab)
         /\ Opened(p)[Len(Opened(p))] = p
         /\ tab[Len(tab)] # p => Len(Opened(p)) >= 2 /\ Opened(p)[Len(Opened(p)) - 1] = tab[Len(tab)]
<1>1. tab \in Seq(Pages) /\ Len(tab) \in Nat /\ Len(tab) >= 1 /\ tab[1] = "blank"
  BY DEF History
<1>2. CASE Shown = p
  BY <1>1, <1>2 DEF Opened, Shown, Last, History
<1>3. CASE Shown # p
  <2>1. Opened(p) = Append(tab, p)
    BY <1>3 DEF Opened
  <2>2. p \in Pages
    BY DEF Pages
  <2>3. /\ Append(tab, p) \in Seq(Pages) /\ Len(Append(tab, p)) = Len(tab) + 1
        /\ Append(tab, p)[Len(tab) + 1] = p
        /\ \A i \in 1 .. Len(tab) : Append(tab, p)[i] = tab[i]
    BY <1>1, <2>2
  <2>4. QED
    BY <1>1, <2>1, <2>3 DEF History
<1>4. QED
  BY <1>2, <1>3

\* What driver.get leaves: what it was asked for, or what it said.
LEMMA GetsAre ==
  ASSUME History(tab), NEW p \in {"home", "away"}, NEW x \in Gets(p)
  PROVE  /\ History(x[2]) /\ Len(x[2]) >= Len(tab)
         /\ x[1] \in {"ok", "timeout", "error"}
         /\ x[1] = "ok" => x[2] = Opened(p)
<1>1. Len(tab) \in Nat
  BY DEF History
<1>2. x = <<"ok", Opened(p)>> \/ x = <<"timeout", Opened(p)>> \/ x = <<"timeout", tab>> \/ x = <<"error", tab>>
  BY DEF Gets
<1>3. x[1] \in {"ok", "timeout", "error"} /\ x[2] \in {tab, Opened(p)} /\ (x[1] = "ok" => x[2] = Opened(p))
  BY <1>2
<1>4. QED
  BY <1>1, <1>3, OpenedIs

\* What driver.back leaves: the page before, or what it said.
LEMMA BacksAre ==
  ASSUME History(tab), Len(tab) >= 2, NEW x \in Backs
  PROVE  /\ History(x[2])
         /\ x[1] \in {"ok", "timeout", "error"}
         /\ x[1] = "ok" => x[2][Len(x[2])] = tab[Len(tab) - 1]
<1>1. tab \in Seq(Pages) /\ Len(tab) \in Nat /\ tab[1] = "blank"
  BY DEF History
<1>2. PICK n \in Nat : n = Len(tab) - 1 /\ n >= 1
  BY <1>1
<1>3. Behind = SubSeq(tab, 1, n)
  BY <1>2 DEF Behind, Front
<1>4. /\ SubSeq(tab, 1, n) \in Seq(Pages) /\ Len(SubSeq(tab, 1, n)) = n
      /\ \A i \in 1 .. n : SubSeq(tab, 1, n)[i] = tab[i]
  <2>1. 1 \in 1 .. Len(tab) + 1 /\ n \in 0 .. Len(tab)
    BY <1>1, <1>2
  <2>2. \A i \in 1 .. n : i \in 1 .. Len(tab)
    BY <1>1, <1>2
  <2>3. QED
    BY <1>1, <1>2, <2>1, <2>2
<1>5. History(Behind) /\ Behind[Len(Behind)] = tab[Len(tab) - 1]
  BY <1>1, <1>2, <1>3, <1>4 DEF History
<1>6. x = <<"ok", Behind>> \/ x = <<"timeout", Behind>> \/ x = <<"timeout", tab>> \/ x = <<"error", tab>>
  BY DEF Backs
<1>7. x[1] \in {"ok", "timeout", "error"} /\ x[2] \in {tab, Behind} /\ (x[1] = "ok" => x[2] = Behind)
  BY <1>6
<1>8. QED
  BY <1>5, <1>7

\* What one step of a page leaves for the next.
Moves(from, to, complains) ==
  /\ pc = from /\ pc' = to
  /\ said' \in BOOLEAN /\ (said => said') /\ (complains => said')
  /\ UNCHANGED <<case, iter, began>>

LEMMA StayMoves ==
  ASSUME PageInv, NEW from, NEW to, NEW complains \in BOOLEAN, Stay(from, to, complains)
  PROVE  Moves(from, to, complains) /\ tab' = tab /\ unmoved' = unmoved
<1>1. said \in BOOLEAN
  BY DEF PageInv, Fits
<1>2. said' = (said \/ complains) /\ pc = from /\ pc' = to /\ tab' = tab /\ unmoved' = unmoved
  BY DEF Stay, Step
<1>3. UNCHANGED <<case, iter, began>>
  BY DEF Stay, Step, control
<1>4. said' \in BOOLEAN /\ (said => said') /\ (complains => said')
  BY <1>1, <1>2
<1>5. QED
  BY <1>2, <1>3, <1>4 DEF Moves

LEMMA DoMoves ==
  ASSUME PageInv, NEW from, NEW to, NEW x, NEW complains \in BOOLEAN, Do(from, x, to, complains)
  PROVE  Moves(from, to, complains) /\ tab' = x[2] /\ unmoved' = unmoved
<1>1. said \in BOOLEAN
  BY DEF PageInv, Fits
<1>2. said' = (said \/ complains) /\ pc = from /\ pc' = to /\ tab' = x[2] /\ unmoved' = unmoved
  BY DEF Do, Step
<1>3. UNCHANGED <<case, iter, began>>
  BY DEF Do, Step, control
<1>4. said' \in BOOLEAN /\ (said => said') /\ (complains => said')
  BY <1>1, <1>2
<1>5. QED
  BY <1>2, <1>3, <1>4 DEF Moves

\* A call of the driver that returns goes on in silence; one that does not is logged.
LEMMA ReturnMoves ==
  ASSUME PageInv, NEW from, NEW ok, NEW timeout, NEW error, NEW x, Return(from, x, ok, timeout, error)
  PROVE  /\ tab' = x[2] /\ unmoved' = unmoved
         /\ \/ x[1] = "ok" /\ Moves(from, ok, FALSE)
            \/ x[1] = "timeout" /\ Moves(from, timeout, TRUE)
            \/ x[1] = "error" /\ Moves(from, error, TRUE)
<1>1. CASE x[1] = "ok" /\ Do(from, x, ok, FALSE)
  BY <1>1, DoMoves
<1>2. CASE x[1] = "timeout" /\ Do(from, x, timeout, TRUE)
  BY <1>2, DoMoves
<1>3. CASE x[1] = "error" /\ Do(from, x, error, TRUE)
  BY <1>3, DoMoves
<1>4. QED
  BY <1>1, <1>2, <1>3 DEF Return

\* A step to a place of the same kind of use case, with a page that fits it.
LEMMA MovesKeepPage ==
  ASSUME PageInv, NEW from, NEW to, NEW complains \in BOOLEAN, Moves(from, to, complains),
         \/ to \notin CnnSteps \cup PdfSteps \cup VideoSteps
         \/ from \in CnnSteps /\ to \in CnnSteps
         \/ from \in PdfSteps /\ to \in PdfSteps
         \/ from \in VideoSteps /\ to \in VideoSteps,
         Fits(to, tab', said', unmoved')
  PROVE  PageInv'
<1>1. OwnSteps'
  BY DEF PageInv, OwnSteps, Moves, Kind, CnnSteps, PdfSteps, VideoSteps
<1>2. Fits(pc, tab, said, unmoved)'
  BY DEF Fits, Moves, Excused, Kind, Home, History
<1>3. QED
  BY <1>1, <1>2 DEF PageInv

\* The first page of a use case.
LEMMA LoadKeepsPage ==
  ASSUME PageInv, Load PROVE PageInv'
<1>1. PICK x \in Gets("home") : Return("load", x, "loop", "loop", "quit")
  BY DEF Load
<1>2. tab' = x[2] /\ unmoved' = unmoved
      /\ \E to \in {"loop", "quit"}, b \in BOOLEAN : Moves("load", to, b)
  BY <1>1, ReturnMoves
<1>3. History(tab') /\ unmoved \in BOOLEAN
  BY <1>2, GetsAre DEF PageInv, Fits
<1>4. PICK to \in {"loop", "quit"}, b \in BOOLEAN : Moves("load", to, b)
  BY <1>2
<1>5. Fits(to, tab', said', unmoved')
  BY <1>2, <1>3, <1>4 DEF Fits, Moves, Repairs
<1>6. QED
  BY <1>4, <1>5, MovesKeepPage DEF CnnSteps, PdfSteps, VideoSteps

\* Links are looked for on the page the repetition began with.
LEMMA SearchKeepsPage ==
  ASSUME PageInv, Search \/ NoLinks PROVE PageInv'
<1>1. History(tab) /\ said \in BOOLEAN /\ unmoved \in BOOLEAN /\ OwnSteps
  BY DEF PageInv, Fits
<1>2. CASE Search
  <2>1. PICK complains \in BOOLEAN :
          \/ Shown # "blank" /\ Stay("search", "click", complains)
          \/ Stay("search", "none", complains)
          \/ Stay("search", "reselect", TRUE)
    BY <1>2 DEF Search
  <2>2. CASE Shown # "blank" /\ Stay("search", "click", complains)
    <3>1. Moves("search", "click", complains) /\ tab' = tab /\ unmoved' = unmoved
      BY <2>2, StayMoves
    <3>2. Len(tab) >= 2
      BY <1>1, <2>2, ShownIs DEF History
    <3>3. Home(tab) \/ Excused(said', unmoved)
      BY <3>1 DEF PageInv, Fits, Moves, Excused
    <3>4. Fits("click", tab', said', unmoved')
      BY <1>1, <3>1, <3>2, <3>3 DEF Fits, Moves, Repairs
    <3>5. QED
      BY <3>1, <3>4, MovesKeepPage DEF CnnSteps
  <2>3. CASE Stay("search", "none", complains)
    <3>1. Moves("search", "none", complains) /\ tab' = tab /\ unmoved' = unmoved
      BY <2>3, StayMoves
    <3>2. Home(tab) \/ Excused(said', unmoved)
      BY <3>1 DEF PageInv, Fits, Moves, Excused
    <3>3. Fits("none", tab', said', unmoved')
      BY <1>1, <3>1, <3>2 DEF Fits, Moves, Repairs
    <3>4. QED
      BY <3>1, <3>3, MovesKeepPage DEF CnnSteps
  <2>4. CASE Stay("search", "reselect", TRUE)
    <3>1. Moves("search", "reselect", TRUE) /\ tab' = tab /\ unmoved' = unmoved
      BY <2>4, StayMoves
    <3>2. Fits("reselect", tab', said', unmoved')
      BY <1>1, <3>1 DEF Fits, Moves
    <3>3. QED
      BY <3>1, <3>2, MovesKeepPage DEF CnnSteps
  <2>5. QED
    BY <2>1, <2>2, <2>3, <2>4
<1>3. CASE Stay("none", "next", FALSE)
  <2>1. Moves("none", "next", FALSE) /\ tab' = tab /\ unmoved' = unmoved
    BY <1>3, StayMoves
  <2>2. Home(tab) \/ Excused(said', unmoved)
    BY <2>1 DEF PageInv, Fits, Moves, Excused
  <2>3. Kind = 1
    BY <1>1, <2>1 DEF OwnSteps, Moves, CnnSteps
  <2>4. Fits("next", tab', said', unmoved')
    BY <1>1, <2>1, <2>2, <2>3 DEF Fits, Moves, Repairs, Excused
  <2>5. QED
    BY <2>1, <2>4, MovesKeepPage DEF CnnSteps, PdfSteps, VideoSteps
<1>4. CASE Stay("none", "reselect", TRUE)
  <2>1. Moves("none", "reselect", TRUE) /\ tab' = tab /\ unmoved' = unmoved
    BY <1>4, StayMoves
  <2>2. Fits("reselect", tab', said', unmoved')
    BY <1>1, <2>1 DEF Fits, Moves
  <2>3. QED
    BY <2>1, <2>2, MovesKeepPage DEF CnnSteps
<1>5. QED
  BY <1>2, <1>3, <1>4 DEF NoLinks

\* Once an error was said, any page will do that going back cannot fall off.
LEMMA SaidFits ==
  ASSUME PageInv, NEW from, NEW to, Moves(from, to, TRUE), History(tab'), unmoved' = unmoved,
         to \in {"click", "read", "back", "timedOut"} => Len(tab') >= 2
  PROVE  Fits(to, tab', said', unmoved')
BY DEF PageInv, Fits, Moves, Excused

\* A click leads from the page the repetition began with to the article, or nowhere.
LEMMA ClickKeepsPage ==
  ASSUME PageInv, Click PROVE PageInv'
<1>1. /\ History(tab) /\ said \in BOOLEAN /\ unmoved \in BOOLEAN
      /\ pc = "click" => Len(tab) >= 2 /\ (Home(tab) \/ Excused(said, unmoved))
  BY DEF PageInv, Fits
<1>2. CASE Do("click", <<"ok", Append(tab, "away")>>, "read", FALSE)
  <2>1. Moves("click", "read", FALSE) /\ tab' = Append(tab, "away") /\ unmoved' = unmoved
    <3>1. PICK x : x = <<"ok", Append(tab, "away")>>
      OBVIOUS
    <3>2. x[2] = Append(tab, "away")
      BY <3>1
    <3>3. Do("click", x, "read", FALSE)
      BY <1>2, <3>1
    <3>4. QED
      BY <3>2, <3>3, DoMoves
  <2>2. /\ History(tab') /\ Len(tab') = Len(tab) + 1 /\ Len(tab) \in Nat
        /\ tab'[Len(tab)] = tab[Len(tab)]
    <3>1. tab \in Seq(Pages) /\ "away" \in Pages /\ Len(tab) \in 1 .. Len(tab)
      BY <1>1 DEF History, Pages
    <3>2. QED
      BY <1>1, <2>1, <3>1 DEF History
  <2>3. Len(tab') >= 2 /\ (tab'[Len(tab') - 1] = "home" \/ Excused(said', unmoved))
    BY <1>1, <2>1, <2>2 DEF Moves, Home, Excused
  <2>4. Fits("read", tab', said', unmoved')
    BY <1>1, <2>1, <2>2, <2>3 DEF Fits, Moves, Repairs
  <2>5. QED
    BY <2>1, <2>4, MovesKeepPage DEF CnnSteps
<1>3. CASE Step("click", "read", FALSE) /\ tab' = tab /\ unmoved' = TRUE
  <2>1. Moves("click", "read", FALSE) /\ tab' = tab /\ unmoved' = TRUE
    BY <1>1, <1>3 DEF Step, Moves, control
  <2>2. Fits("read", tab', said', unmoved')
    BY <1>1, <2>1 DEF Fits, Moves, Repairs, Excused
  <2>3. QED
    BY <2>1, <2>2, MovesKeepPage DEF CnnSteps
<1>4. ASSUME NEW x \in Gets("away"), Return("click", x, "read", "read", "clickError") PROVE PageInv'
  <2>1. /\ tab' = x[2] /\ unmoved' = unmoved
        /\ \/ x[1] = "ok" /\ Moves("click", "read", FALSE)
           \/ Moves("click", "read", TRUE)
           \/ Moves("click", "clickError", TRUE)
    BY <1>4, ReturnMoves
  <2>2. pc = "click"
    BY <2>1 DEF Moves
  <2>3. History(tab') /\ Len(tab') >= 2
    BY <1>1, <2>1, <2>2, GetsAre DEF History
  <2>4. CASE x[1] = "ok" /\ Moves("click", "read", FALSE)
    <3>1. tab' = Opened("away")
      BY <1>1, <2>1, <2>4, GetsAre
    <3>2. tab'[Len(tab') - 1] = "home" \/ Excused(said', unmoved)
      BY <1>1, <2>2, <2>4, <3>1, OpenedIs DEF Home, Excused, Moves
    <3>3. Fits("read", tab', said', unmoved')
      BY <1>1, <2>1, <2>3, <2>4, <3>2 DEF Fits, Moves, Repairs
    <3>4. QED
      BY <2>4, <3>3, MovesKeepPage DEF CnnSteps
  <2>5. CASE Moves("click", "read", TRUE)
    BY <2>1, <2>3, <2>5, SaidFits, MovesKeepPage DEF CnnSteps
  <2>6. CASE Moves("click", "clickError", TRUE)
    BY <2>1, <2>3, <2>6, SaidFits, MovesKeepPage DEF CnnSteps
  <2>7. QED
    BY <2>1, <2>4, <2>5, <2>6
<1>5. ASSUME NEW to \in {"timedOut", "clickError"}, Stay("click", to, TRUE) PROVE PageInv'
  <2>1. Moves("click", to, TRUE) /\ tab' = tab /\ unmoved' = unmoved
    BY <1>5, StayMoves
  <2>2. Fits(to, tab', said', unmoved')
    BY <1>1, <2>1, SaidFits DEF Moves
  <2>3. QED
    BY <2>1, <2>2, MovesKeepPage DEF CnnSteps
<1>6. QED
  BY <1>2, <1>3, <1>4, <1>5 DEF Click

\* Reading the article leaves the way back.
LEMMA ArticleKeepsPage ==
  ASSUME PageInv, Article PROVE PageInv'
<1>1. /\ History(tab) /\ said \in BOOLEAN /\ unmoved \in BOOLEAN
      /\ pc = "read" => Len(tab) >= 2 /\ (tab[Len(tab) - 1] = "home" \/ Excused(said, unmoved))
  BY DEF PageInv, Fits
<1>2. ASSUME NEW complains \in BOOLEAN, Stay("read", "back", complains) PROVE PageInv'
  <2>1. Moves("read", "back", complains) /\ tab' = tab /\ unmoved' = unmoved
    BY <1>2, StayMoves
  <2>2. Fits("back", tab', said', unmoved')
    BY <1>1, <2>1 DEF Fits, Moves, Repairs, Excused
  <2>3. QED
    BY <2>1, <2>2, MovesKeepPage DEF CnnSteps
<1>3. ASSUME NEW to \in {"timedOut", "clickError"}, Stay("read", to, TRUE) PROVE PageInv'
  <2>1. Moves("read", to, TRUE) /\ tab' = tab /\ unmoved' = unmoved
    BY <1>3, StayMoves
  <2>2. Fits(to, tab', said', unmoved')
    BY <1>1, <2>1, SaidFits DEF Moves
  <2>3. QED
    BY <2>1, <2>2, MovesKeepPage DEF CnnSteps
<1>4. QED
  BY <1>2, <1>3 DEF Article

\* Any step that says an error and leaves a history keeps the pages.
LEMMA SaidKeepsPage ==
  ASSUME PageInv, NEW from, NEW to, Moves(from, to, TRUE), History(tab'), unmoved' = unmoved,
         to \notin {"click", "read", "back", "timedOut"},
         \/ to \notin CnnSteps \cup PdfSteps \cup VideoSteps
         \/ from \in CnnSteps /\ to \in CnnSteps
         \/ from \in PdfSteps /\ to \in PdfSteps
  PROVE  PageInv'
<1>1. Fits(to, tab', said', unmoved')
  BY SaidFits
<1>2. QED
  BY <1>1, MovesKeepPage

\* Going back from the article leads home, or is said to have failed.
LEMMA GoBackKeepsPage ==
  ASSUME PageInv, GoBack PROVE PageInv'
<1>1. /\ History(tab) /\ said \in BOOLEAN /\ unmoved \in BOOLEAN
      /\ pc = "back" => Len(tab) >= 2 /\ (tab[Len(tab) - 1] = "home" \/ Excused(said, unmoved))
      /\ pc \in CnnSteps => Kind = 1
      /\ pc \in Repairs => said
  BY DEF PageInv, Fits, OwnSteps
<1>2. ASSUME NEW x \in Backs, Return("back", x, "next", "reload", "reloadAnyway") PROVE PageInv'
  <2>1. /\ tab' = x[2] /\ unmoved' = unmoved
        /\ \/ x[1] = "ok" /\ Moves("back", "next", FALSE)
           \/ Moves("back", "reload", TRUE)
           \/ Moves("back", "reloadAnyway", TRUE)
    BY <1>2, ReturnMoves
  <2>2. pc = "back" /\ Kind = 1
    BY <1>1, <2>1 DEF Moves, CnnSteps
  <2>3. History(tab')
    BY <1>1, <2>1, <2>2, BacksAre
  <2>4. CASE x[1] = "ok" /\ Moves("back", "next", FALSE)
    <3>1. tab'[Len(tab')] = tab[Len(tab) - 1]
      BY <1>1, <2>1, <2>2, <2>4, BacksAre
    <3>2. Fits("next", tab', said', unmoved')
      BY <1>1, <2>1, <2>2, <2>3, <2>4, <3>1 DEF Fits, Moves, Repairs, Excused, Home
    <3>3. QED
      BY <2>4, <3>2, MovesKeepPage DEF CnnSteps, PdfSteps, VideoSteps
  <2>5. CASE Moves("back", "reload", TRUE) \/ Moves("back", "reloadAnyway", TRUE)
    BY <2>1, <2>3, <2>5, SaidKeepsPage DEF CnnSteps
  <2>6. QED
    BY <2>1, <2>4, <2>5
<1>3. ASSUME NEW x \in Gets("home"), Return("reload", x, "next", "next", "clickError") PROVE PageInv'
  <2>1. /\ tab' = x[2] /\ unmoved' = unmoved
        /\ \/ Moves("reload", "next", FALSE)
           \/ Moves("reload", "next", TRUE)
           \/ Moves("reload", "clickError", TRUE)
    BY <1>3, ReturnMoves
  <2>2. History(tab')
    BY <1>1, <2>1, GetsAre
  <2>3. CASE Moves("reload", "next", FALSE)
    <3>1. said
      BY <1>1, <2>3 DEF Moves, Repairs
    <3>2. Moves("reload", "next", TRUE)
      BY <2>3, <3>1 DEF Moves
    <3>3. QED
      BY <2>1, <2>2, <3>2, SaidKeepsPage DEF CnnSteps, PdfSteps, VideoSteps
  <2>4. CASE Moves("reload", "next", TRUE) \/ Moves("reload", "clickError", TRUE)
    BY <2>1, <2>2, <2>4, SaidKeepsPage DEF CnnSteps, PdfSteps, VideoSteps
  <2>5. QED
    BY <2>1, <2>3, <2>4
<1>4. ASSUME NEW x \in Gets("home"), Do("reloadAnyway", x, "next", TRUE) PROVE PageInv'
  <2>1. Moves("reloadAnyway", "next", TRUE) /\ tab' = x[2] /\ unmoved' = unmoved
    BY <1>4, DoMoves
  <2>2. History(tab')
    BY <1>1, <2>1, GetsAre
  <2>3. QED
    BY <2>1, <2>2, SaidKeepsPage DEF CnnSteps, PdfSteps, VideoSteps
<1>5. QED
  BY <1>2, <1>3, <1>4 DEF GoBack

\* The handlers of errors come after one that was said.
LEMMA RecoverKeepsPage ==
  ASSUME PageInv, Recover PROVE PageInv'
<1>1. /\ History(tab) /\ (pc = "timedOut" => Len(tab) >= 2)
      /\ pc \in Repairs => said
  BY DEF PageInv, Fits
<1>2. ASSUME NEW from \in {"timedOut", "timedOutReload"}, NEW x, History(x[2]),
             NEW to \in {"timedOutReload", "reselect"}, Return(from, x, "next", to, to)
      PROVE  PageInv'
  <2>1. /\ tab' = x[2] /\ unmoved' = unmoved
        /\ \E target \in {"next", to}, b \in BOOLEAN : Moves(from, target, b)
    BY <1>2, ReturnMoves
  <2>2. PICK target \in {"next", to}, b \in BOOLEAN : Moves(from, target, b)
    BY <2>1
  <2>3. Moves(from, target, TRUE)
    BY <1>1, <2>2 DEF Moves, Repairs
  <2>4. QED
    BY <1>2, <2>1, <2>3, SaidKeepsPage DEF CnnSteps, PdfSteps, VideoSteps
<1>3. ASSUME NEW x \in Backs, Return("timedOut", x, "next", "timedOutReload", "timedOutReload")
      PROVE  PageInv'
  <2>1. pc = "timedOut"
    BY <1>3, ReturnMoves DEF Moves
  <2>2. History(x[2])
    BY <1>1, <2>1, BacksAre
  <2>3. QED
    BY <1>2, <1>3, <2>2
<1>4. ASSUME NEW x \in Gets("home"), Return("timedOutReload", x, "next", "reselect", "reselect")
      PROVE  PageInv'
  <2>1. History(x[2])
    BY <1>1, GetsAre
  <2>2. QED
    BY <1>2, <1>4, <2>1
<1>5. ASSUME NEW x \in Retreat, Do("clickError", x, "next", TRUE) PROVE PageInv'
  <2>1. Moves("clickError", "next", TRUE) /\ tab' = x[2] /\ unmoved' = unmoved
    BY <1>5, DoMoves
  <2>2. History(x[2])
    <3>1. CASE Shown # "blank"
      <4>1. Len(tab) >= 2
        BY <1>1, <3>1, ShownIs DEF History
      <4>2. x \in Backs
        BY <3>1 DEF Retreat
      <4>3. QED
        BY <1>1, <4>1, <4>2, BacksAre
    <3>2. CASE Shown = "blank"
      <4>1. x \in Gets("home")
        BY <3>2 DEF Retreat
      <4>2. QED
        BY <1>1, <4>1, GetsAre
    <3>3. QED
      BY <3>1, <3>2
  <2>3. QED
    BY <2>1, <2>2, SaidKeepsPage DEF CnnSteps, PdfSteps, VideoSteps
<1>6. ASSUME NEW x \in Gets("home"), Do("reselect", x, "next", TRUE) PROVE PageInv'
  <2>1. Moves("reselect", "next", TRUE) /\ tab' = x[2] /\ unmoved' = unmoved
    BY <1>6, DoMoves
  <2>2. History(tab')
    BY <1>1, <2>1, GetsAre
  <2>3. QED
    BY <2>1, <2>2, SaidKeepsPage DEF CnnSteps, PdfSteps, VideoSteps
<1>7. QED
  BY <1>3, <1>4, <1>5, <1>6 DEF Recover

\* The pages of the PDF's use case: it ends at the list, unless it is over.
LEMMA PdfKeepsPage ==
  ASSUME PageInv, Pdf PROVE PageInv'
<1> USE DEF CnnSteps, PdfSteps, VideoSteps
<1>1. /\ History(tab) /\ said \in BOOLEAN /\ unmoved \in BOOLEAN
      /\ pc \in PdfSteps => Kind = 2
      /\ pc \in Repairs => said
  BY DEF PageInv, Fits, OwnSteps
\* On the way to the download any page will do.
<1>2. ASSUME NEW from \in PdfSteps, NEW to \in {"direct", "download", "directReturn", "return", "fallback"},
             NEW b \in BOOLEAN, Moves(from, to, b), History(tab'), unmoved' = unmoved
      PROVE  PageInv'
  <2>1. Fits(to, tab', said', unmoved')
    BY <1>1, <1>2 DEF Fits, Moves, Repairs
  <2>2. QED
    BY <1>2, <2>1, MovesKeepPage
<1>3. CASE Find
  <2>1. ASSUME NEW to \in {"direct", "download"}, Stay("find", to, FALSE) PROVE PageInv'
    BY <1>1, <1>2, <2>1, StayMoves
  <2>2. CASE Stay("find", "redo", TRUE)
    <3>1. Moves("find", "redo", TRUE) /\ tab' = tab /\ unmoved' = unmoved
      BY <2>2, StayMoves
    <3>2. QED
      BY <1>1, <3>1, SaidKeepsPage
  <2>3. QED
    BY <1>3, <2>1, <2>2 DEF Find
<1>4. CASE Download
  <2>1. ASSUME NEW complains \in BOOLEAN, Stay("direct", "directReturn", complains) PROVE PageInv'
    BY <1>1, <1>2, <2>1, StayMoves
  <2>2. ASSUME NEW x \in {<<"ok", tab>>, <<"ok", Opened("away")>>, <<"timeout", tab>>, <<"error", tab>>},
               Return("download", x, "return", "return", "fallback")
        PROVE  PageInv'
    <3>1. History(x[2])
      BY <1>1, <2>2, OpenedIs
    <3>2. tab' = x[2] /\ unmoved' = unmoved
          /\ \E to \in {"return", "fallback"}, b \in BOOLEAN : Moves("download", to, b)
      BY <2>2, ReturnMoves
    <3>3. QED
      BY <1>2, <3>1, <3>2
  <2>3. ASSUME NEW t \in {tab, Opened("away")}, NEW complains \in BOOLEAN,
               Do("fallback", <<"ok", t>>, "return", complains)
        PROVE  PageInv'
    <3>1. Moves("fallback", "return", complains) /\ tab' = t /\ unmoved' = unmoved
      BY <2>3, DoMoves
    <3>2. History(tab')
      BY <1>1, <3>1, OpenedIs
    <3>3. QED
      BY <1>2, <3>1, <3>2
  <2>4. QED
    BY <1>4, <2>1, <2>2, <2>3 DEF Download
<1>5. CASE BackToList
  <2>1. ASSUME NEW from \in {"directReturn", "return"}, iter = Repetitions, Stay(from, "next", FALSE)
        PROVE  PageInv'
    <3>1. Moves(from, "next", FALSE) /\ tab' = tab /\ unmoved' = unmoved
      BY <2>1, StayMoves
    <3>2. Kind = 2
      BY <1>1, <3>1 DEF Moves
    <3>3. Fits("next", tab', said', unmoved')
      BY <1>1, <2>1, <3>1, <3>2 DEF Fits, Moves, Repairs
    <3>4. QED
      BY <3>1, <3>3, MovesKeepPage
  <2>2. ASSUME NEW x \in Gets("home"), NEW from \in {"directReturn", "return"}, NEW to \in {"redo", "next"},
               Return(from, x, "next", "next", to)
        PROVE  PageInv'
    <3>1. /\ tab' = x[2] /\ unmoved' = unmoved
          /\ \/ x[1] = "ok" /\ Moves(from, "next", FALSE)
             \/ Moves(from, "next", TRUE) \/ Moves(from, to, TRUE)
      BY <2>2, ReturnMoves
    <3>2. History(tab')
      BY <1>1, <3>1, GetsAre
    <3>3. CASE x[1] = "ok" /\ Moves(from, "next", FALSE)
      <4>1. Home(tab')
        BY <1>1, <3>1, <3>3, GetsAre, OpenedIs DEF Home
      <4>2. Fits("next", tab', said', unmoved')
        BY <1>1, <3>1, <3>2, <3>3, <4>1 DEF Fits, Moves, Repairs
      <4>3. QED
        BY <3>3, <4>2, MovesKeepPage
    <3>4. CASE Moves(from, "next", TRUE) \/ Moves(from, to, TRUE)
      BY <3>1, <3>2, <3>4, SaidKeepsPage
    <3>5. QED
      BY <3>1, <3>3, <3>4
  <2>3. ASSUME NEW x \in Gets("home"), Do("redo", x, "next", TRUE) PROVE PageInv'
    <3>1. Moves("redo", "next", TRUE) /\ tab' = x[2] /\ unmoved' = unmoved
      BY <2>3, DoMoves
    <3>2. History(tab')
      BY <1>1, <3>1, GetsAre
    <3>3. QED
      BY <3>1, <3>2, SaidKeepsPage
  <2>4. QED
    BY <1>5, <2>1, <2>2, <2>3 DEF BackToList
<1>6. QED
  BY <1>3, <1>4, <1>5 DEF Pdf

\* The video's page is loaded in each repetition.
LEMMA VideoKeepsPage ==
  ASSUME PageInv, Video PROVE PageInv'
<1> USE DEF CnnSteps, PdfSteps, VideoSteps
<1>1. /\ History(tab) /\ said \in BOOLEAN /\ unmoved \in BOOLEAN
      /\ pc = "play" => Home(tab) \/ said
  BY DEF PageInv, Fits
<1>2. ASSUME NEW x \in Gets("home"), Return("video", x, "play", "play", "quit") PROVE PageInv'
  <2>1. /\ tab' = x[2] /\ unmoved' = unmoved
        /\ \/ x[1] = "ok" /\ Moves("video", "play", FALSE)
           \/ Moves("video", "play", TRUE) \/ Moves("video", "quit", TRUE)
    BY <1>2, ReturnMoves
  <2>2. History(tab')
    BY <1>1, <2>1, GetsAre
  <2>3. CASE x[1] = "ok" /\ Moves("video", "play", FALSE)
    <3>1. Home(tab')
      BY <1>1, <2>1, <2>3, GetsAre, OpenedIs DEF Home
    <3>2. Fits("play", tab', said', unmoved')
      BY <1>1, <2>1, <2>2, <2>3, <3>1 DEF Fits, Moves, Repairs
    <3>3. QED
      BY <2>3, <3>2, MovesKeepPage
  <2>4. CASE Moves("video", "play", TRUE)
    <3>1. Fits("play", tab', said', unmoved')
      BY <2>1, <2>2, <2>4, SaidFits
    <3>2. QED
      BY <2>4, <3>1, MovesKeepPage
  <2>5. CASE Moves("video", "quit", TRUE)
    BY <2>1, <2>2, <2>5, SaidKeepsPage
  <2>6. QED
    BY <2>1, <2>3, <2>4, <2>5
<1>3. CASE Stay("play", "quit", TRUE)
  <2>1. Moves("play", "quit", TRUE) /\ tab' = tab /\ unmoved' = unmoved
    BY <1>3, StayMoves
  <2>2. QED
    BY <1>1, <2>1, SaidKeepsPage
<1>4. ASSUME NEW complains \in BOOLEAN, Stay("play", "next", complains) PROVE PageInv'
  <2>1. Moves("play", "next", complains) /\ tab' = tab /\ unmoved' = unmoved
    BY <1>4, StayMoves
  <2>2. Fits("next", tab', said', unmoved')
    BY <1>1, <2>1 DEF Fits, Moves, Repairs
  <2>3. QED
    BY <2>1, <2>2, MovesKeepPage
<1>5. QED
  BY <1>2, <1>3, <1>4 DEF Video

\* At a step where nothing is asked of the page, any will do.
LEMMA AnyPageFits ==
  ASSUME NEW to \in {"start", "launch", "load", "loop", "quit", "stop", "save", "exit"},
         pc' = to, History(tab'), said' \in BOOLEAN, unmoved' \in BOOLEAN
  PROVE  PageInv'
BY DEF PageInv, OwnSteps, Fits, CnnSteps, PdfSteps, VideoSteps, Repairs, Kind, Excused, Home, History

\* A repetition begins with the page it finds.
LEMMA IterateKeepsPage ==
  ASSUME OutsideInv, PageInv, Iterate PROVE PageInv'
<1>1. case \in Cases
  BY DEF Iterate, OutsideInv, InTurn
<1>2. Kind \in {1, 2, 3}
  BY <1>1, UseCasesAssumption DEF Kind, Cases
<1>3. /\ History(tab) /\ tab' = tab /\ said' = FALSE /\ unmoved' = FALSE /\ began' = tab[Len(tab)]
      /\ case' = case
  BY ShownIs DEF PageInv, Fits, Iterate
<1>4. \/ Kind = 1 /\ pc' = "search"
      \/ Kind = 2 /\ pc' = "find"
      \/ Kind = 3 /\ pc' = "video"
  BY <1>2 DEF Iterate
<1>5. OwnSteps'
  BY <1>3, <1>4 DEF OwnSteps, CnnSteps, PdfSteps, VideoSteps, Kind
<1>6. Fits(pc, tab, said, unmoved)'
  BY <1>3, <1>4 DEF Fits, Repairs, Excused, Home, History
<1>7. QED
  BY <1>5, <1>6 DEF PageInv

\* Where Ctrl-C is swallowed, the next step finds a page that fits.
LEMMA SwallowKeepsPage ==
  ASSUME PageInv, Swallow PROVE PageInv'
<1>1. /\ History(tab) /\ said \in BOOLEAN /\ unmoved \in BOOLEAN
      /\ pc \in Repairs => said
      /\ pc = "play" => Home(tab) \/ said
      /\ OwnSteps
  BY DEF PageInv, Fits
<1>2. /\ pc \in {"load", "click", "timedOut", "clickError", "reselect", "reloadAnyway", "fallback", "redo",
                 "play", "quit"}
      /\ pc' = Swallowed[pc]
  BY DEF Swallow, Swallowed
<1>3. CASE pc = "quit"
  <2>1. pc' = "stop" /\ Forget
    BY <1>2, <1>3 DEF Swallow, Swallowed
  <2>2. History(<<"blank">>)
    BY DEF History, Pages
  <2>3. QED
    BY <2>1, <2>2, AnyPageFits DEF Forget
<1>4. CASE pc # "quit"
  <2>1. UNCHANGED <<tab, said, unmoved, began, case, iter>>
    BY <1>4 DEF Swallow, page, CtrlC
  <2>2. CASE pc = "load"
    BY <1>1, <1>2, <2>1, <2>2, AnyPageFits DEF Swallowed
  <2>3. CASE pc = "click"
    <3>1. pc' = pc
      BY <1>2, <2>3 DEF Swallowed
    <3>2. OwnSteps' /\ Fits(pc, tab, said, unmoved)'
      BY <2>1, <3>1 DEF PageInv, OwnSteps, Fits, Excused, Home, History, Kind
    <3>3. QED
      BY <3>2 DEF PageInv
  <2>4. CASE pc = "fallback"
    <3>1. Moves("fallback", "return", FALSE)
      BY <1>1, <1>2, <2>1, <2>4 DEF Swallowed, Moves
    <3>2. Fits("return", tab', said', unmoved')
      BY <1>1, <2>1 DEF Fits, Repairs
    <3>3. QED
      BY <3>1, <3>2, MovesKeepPage DEF PdfSteps
  <2>5. CASE pc = "timedOut"
    <3>1. Moves("timedOut", "timedOutReload", TRUE)
      BY <1>1, <1>2, <2>1, <2>5 DEF Swallowed, Moves, Repairs
    <3>2. QED
      BY <1>1, <2>1, <3>1, SaidKeepsPage DEF CnnSteps
  <2>6. CASE pc \in {"clickError", "reselect", "reloadAnyway", "redo"}
    <3>1. Moves(pc, "next", TRUE)
      BY <1>1, <1>2, <2>1, <2>6 DEF Swallowed, Moves, Repairs
    <3>2. QED
      BY <1>1, <2>1, <3>1, SaidKeepsPage DEF CnnSteps, PdfSteps, VideoSteps
  <2>7. CASE pc = "play"
    <3>1. Moves("play", "next", FALSE)
      BY <1>1, <1>2, <2>1, <2>7 DEF Swallowed, Moves
    <3>2. Fits("next", tab', said', unmoved')
      BY <1>1, <2>1, <2>7 DEF Fits, Repairs
    <3>3. QED
      BY <3>1, <3>2, MovesKeepPage DEF CnnSteps, PdfSteps, VideoSteps
  <2>8. QED
    BY <1>2, <1>4, <2>2, <2>3, <2>4, <2>5, <2>6, <2>7
<1>5. QED
  BY <1>3, <1>4

\* The pages of the script: where each step of a use case leaves the browser.
THEOREM PageInvariant == Spec => []PageInv
<1>1. Init => PageInv
  <2> SUFFICES ASSUME Init PROVE PageInv
    OBVIOUS
  <2>1. tab = <<"blank">> /\ pc = "start"
    BY DEF Init
  <2>2. said \in BOOLEAN /\ unmoved \in BOOLEAN
    BY DEF Init
  <2>3. History(tab)
    BY <2>1 DEF History, Pages
  <2>4. QED
    BY <2>1, <2>2, <2>3 DEF PageInv, OwnSteps, Fits, CnnSteps, PdfSteps, VideoSteps, Repairs
<1>2. ASSUME OutsideInv, PageInv, [Next]_vars PROVE PageInv'
  <2>0. History(tab) /\ said \in BOOLEAN /\ unmoved \in BOOLEAN
    BY <1>2 DEF PageInv, Fits
  <2>1. CASE Load
    BY <1>2, <2>1, LoadKeepsPage
  <2>2. CASE Iterate
    BY <1>2, <2>2, IterateKeepsPage
  <2>3. CASE Cnn
    BY <1>2, <2>3, SearchKeepsPage, ClickKeepsPage, ArticleKeepsPage, GoBackKeepsPage, RecoverKeepsPage DEF Cnn
  <2>4. CASE Pdf
    BY <1>2, <2>4, PdfKeepsPage
  <2>5. CASE Video
    BY <1>2, <2>5, VideoKeepsPage
  <2>6. CASE NextIteration \/ Finish
    <3>1. PICK from \in {"next", "loop"}, to \in {"loop", "quit"} : Stay(from, to, FALSE)
      BY <2>6 DEF NextIteration, Finish
    <3>2. pc' = to /\ tab' = tab /\ unmoved' = unmoved /\ said' \in BOOLEAN
      BY <1>2, <3>1, StayMoves DEF Moves
    <3>3. QED
      BY <2>0, <3>2, AnyPageFits
  <2>7. CASE Start \/ Launch \/ Stop \/ Save \/ Exit \/ Interrupt
    <3>1. /\ pc' \in {"start", "launch", "load", "loop", "quit", "stop", "save", "exit"}
          /\ UNCHANGED page
      BY <2>7 DEF Start, Launch, Stop, Save, Exit, Interrupt
    <3>2. QED
      BY <2>0, <3>1, AnyPageFits DEF page
  <2>8. CASE Quit
    <3>1. pc' = "stop" /\ Forget /\ History(<<"blank">>)
      BY <2>8 DEF Quit, History, Pages
    <3>2. QED
      BY <3>1, AnyPageFits DEF Forget
  <2>9. CASE Swallow
    BY <1>2, <2>9, SwallowKeepsPage
  <2>10. CASE Ask \/ Browse \/ UNCHANGED vars
    <3>1. UNCHANGED <<pc, tab, said, unmoved, began, case, iter>>
      BY <2>10 DEF Ask, Browse, vars, page, control
    <3>2. QED
      BY <1>2, <3>1 DEF PageInv, OwnSteps, Fits, Excused, Home, History, Kind
  <2>11. QED
    BY <1>2, <2>1, <2>2, <2>3, <2>4, <2>5, <2>6, <2>7, <2>8, <2>9, <2>10 DEF Next
<1>3. QED
  BY <1>1, <1>2, OutsideInvariant, PTL DEF Spec

\* A repetition ends where the next one begins, or says that it does not.
THEOREM ScriptStaysOnPage == Spec => []OnPageOrSaid
<1>1. PageInv => OnPageOrSaid
  BY ShownIs DEF PageInv, Fits, OnPageOrSaid, Home
<1>2. QED
  BY PageInvariant, <1>1, PTL

\* Captures hold the traffic of their own use case and end with it.
THEOREM ScriptKeepsCapturesApart == Spec => []CapturesApart
<1>1. QED
  BY OutsideInvariant, PageInvariant, ApartIf, PTL

===============================================================================
