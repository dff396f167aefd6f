-------------------------------- MODULE UseCases --------------------------------
(***************************************************************************)
(* The evaluation script (eval/pcap_capture_use_cases.py): up to three use *)
(* cases one after the other, each with a packet capture run by sudo and a *)
(* browser.  The steps of a use case are those between which an exception  *)
(* may be caught; what the browser shows is the last page of its history.  *)
(***************************************************************************)
EXTENDS Integers, Sequences, SequencesExt, FiniteSets

CONSTANTS Plan,            \* the use cases to run: <<1, 2, 3>> with --all
          Repetitions,
          MaxInterrupts    \* how often Ctrl-C is pressed

ASSUME UseCasesAssumption == Plan \in Seq(1 .. 3) /\ Repetitions \in Nat \ {0} /\ MaxInterrupts \in Nat

Cases == 1 .. Len(Plan)

VARIABLES case, pc, iter,  \* the use case that runs, its step, its repetition
          tab,             \* history of the browser's tab: "blank", "home" and other pages ("away")
          said,            \* an error or a time-out was logged in this repetition
          aborting,        \* a KeyboardInterrupt is on its way through finally
          interrupts,
          tools,           \* each capture: "none", "asking" (for a password), "capturing" or "ended"
          browsers,        \* the use cases whose browser runs
          logs,            \* each log: "none", "skipped" or "written" (as far as the disk let it)
          \* History, for the properties:
          mixed,           \* <<c, d>>: the pcap file of c holds traffic of d
          unseen,          \* use cases with traffic that their own capture missed
          late,            \* captures that were still asking when start_packet_capture returned
          lost,            \* captures and browsers that outlived the attempt to end them, logs cut short
          began, unmoved   \* the page at the start of the repetition; a click led nowhere

page == <<tab, said, unmoved>>
control == <<case, iter, aborting, interrupts, began>>
outside == <<tools, browsers, mixed, unseen, late, lost>>
vars == <<pc, page, control, outside, logs>>

Init ==
  /\ case = 1 /\ pc = "start" /\ iter = 0
  /\ tab = <<"blank">> /\ said = FALSE /\ aborting = FALSE /\ interrupts = 0
  /\ tools = [c \in Cases |-> "none"] /\ browsers = {} /\ logs = [c \in Cases |-> "none"]
  /\ mixed = {} /\ unseen = {} /\ late = {} /\ lost = {}
  /\ began = "blank" /\ unmoved = FALSE

Kind == Plan[case]
Shown == Last(tab)

\* What driver.get and driver.back may do: return, time out (having done it or
\* not), or raise another exception.
Opened(p) == IF Shown = p THEN tab ELSE Append(tab, p)
Gets(p) == {<<"ok", Opened(p)>>, <<"timeout", Opened(p)>>, <<"timeout", tab>>, <<"error", tab>>}
Behind == Front(tab)
Backs == {<<"ok", Behind>>, <<"timeout", Behind>>, <<"timeout", tab>>, <<"error", tab>>}

\* From one step of a use case to the next; complains if it logs an error.
Step(from, to, complains) ==
  /\ pc = from /\ pc' = to
  /\ said' = (said \/ complains)
  /\ UNCHANGED <<control, outside, logs>>
Stay(from, to, complains) == Step(from, to, complains) /\ UNCHANGED <<tab, unmoved>>
Do(from, x, to, complains) == Step(from, to, complains) /\ tab' = x[2] /\ UNCHANGED unmoved
Return(from, x, ok, timeout, error) ==
  \/ x[1] = "ok" /\ Do(from, x, ok, FALSE)
  \/ x[1] = "timeout" /\ Do(from, x, timeout, TRUE)
  \/ x[1] = "error" /\ Do(from, x, error, TRUE)
-------------------------------------------------------------------------------

Running(t) == t # "ended"

\* start_packet_capture; if it fails the use case returns, without a log.
Start ==
  /\ pc = "start" /\ case <= Len(Plan)
  /\ \E t \in {"asking", "capturing", "ended"} :
       /\ tools' = [tools EXCEPT ![case] = t]
       /\ IF Running(t) THEN pc' = "launch" /\ case' = case /\ logs' = logs
                        ELSE pc' = "start" /\ case' = case + 1 /\ logs' = [logs EXCEPT ![case] = "skipped"]
       /\ late' = IF t = "asking" THEN late \cup {case} ELSE late
  /\ UNCHANGED <<page, iter, aborting, interrupts, began, browsers, mixed, unseen, lost>>

\* setup_browser and the settings after it, any of which may raise; the third use
\* case loads its page in each repetition.
Launch ==
  /\ pc = "launch"
  /\ iter' = 0
  /\ \/ pc' = "quit" /\ browsers' = browsers
     \/ pc' \in {"quit", IF Kind = 3 THEN "loop" ELSE "load"} /\ browsers' = browsers \cup {case}
  /\ UNCHANGED <<page, case, aborting, interrupts, began, tools, mixed, unseen, late, lost, logs>>

Load == \E x \in Gets("home") : Return("load", x, "loop", "loop", "quit")

Iterate ==
  /\ pc = "loop" /\ iter < Repetitions
  /\ iter' = iter + 1 /\ said' = FALSE /\ unmoved' = FALSE /\ began' = Shown
  /\ pc' = CASE Kind = 1 -> "search" [] Kind = 2 -> "find" [] Kind = 3 -> "video"
  /\ UNCHANGED <<tab, case, aborting, interrupts, outside, logs>>

\* CNN: scrolling, which logs its errors, and the search for links.
Search ==
  \E complains \in BOOLEAN :
    \/ Shown # "blank" /\ Stay("search", "click", complains)
    \/ Stay("search", "none", complains)
    \/ Stay("search", "reselect", TRUE)

NoLinks == Stay("none", "next", FALSE) \/ Stay("none", "reselect", TRUE)

\* A click that opens another tab, or does nothing, leaves the page where it is.
Click ==
  \/ Do("click", <<"ok", Append(tab, "away")>>, "read", FALSE)
  \/ Step("click", "read", FALSE) /\ tab' = tab /\ unmoved' = TRUE
  \/ \E x \in Gets("away") : Return("click", x, "read", "read", "clickError")
  \/ Stay("click", "timedOut", TRUE)
  \/ Stay("click", "clickError", TRUE)

Article ==
  \/ \E complains \in BOOLEAN : Stay("read", "back", complains)
  \/ Stay("read", "timedOut", TRUE)
  \/ Stay("read", "clickError", TRUE)

\* Mutant of GoBack: the page is left as it is after a time-out that is not logged.
GoBackSilently ==
  \/ \E x \in Backs : Do("back", x, "next", FALSE)
  \/ Stay("reload", "next", FALSE) \/ Stay("reloadAnyway", "next", FALSE)

GoBack ==
  \/ \E x \in Backs : Return("back", x, "next", "reload", "reloadAnyway")
  \/ \E x \in Gets("home") : Return("reload", x, "next", "next", "clickError")
  \/ \E x \in Gets("home") : Do("reloadAnyway", x, "next", TRUE)

\* The browser never reports the home page's URL as the code writes it, so this goes
\* back from the home page too.
Retreat == IF Shown # "blank" THEN Backs ELSE Gets("home")

\* The handlers of a time-out and of any other exception around the article.
Recover ==
  \/ \E x \in Backs : Return("timedOut", x, "next", "timedOutReload", "timedOutReload")
  \/ \E x \in Gets("home") : Return("timedOutReload", x, "next", "reselect", "reselect")
  \/ \E x \in Retreat : Do("clickError", x, "next", TRUE)
  \/ \E x \in Gets("home") : Do("reselect", x, "next", TRUE)

Cnn == Search \/ NoLinks \/ Click \/ Article \/ GoBack \/ Recover
-------------------------------------------------------------------------------
\* The PDF: the link is found, or not, or the search raises.
Find ==
  \/ \E to \in {"direct", "download"} : Stay("find", to, FALSE)
  \/ Stay("find", "redo", TRUE)

\* A download leaves the page; the link found by its text may lead elsewhere.
Download ==
  \/ \E complains \in BOOLEAN : Stay("direct", "directReturn", complains)
  \/ \E x \in {<<"ok", tab>>, <<"ok", Opened("away")>>, <<"timeout", tab>>, <<"error", tab>>} :
       Return("download", x, "return", "return", "fallback")
  \/ \E t \in {tab, Opened("away")}, complains \in BOOLEAN :
       Do("fallback", <<"ok", t>>, "return", complains)

\* Not after the last download.
BackToList ==
  \/ \E from \in {"directReturn", "return"} : iter = Repetitions /\ Stay(from, "next", FALSE)
  \/ /\ iter < Repetitions
     /\ \E x \in Gets("home") : \/ Return("directReturn", x, "next", "next", "redo")
                                \/ Return("return", x, "next", "next", "next")
  \/ \E x \in Gets("home") : Do("redo", x, "next", TRUE)

Pdf == Find \/ Download \/ BackToList

\* The video: the page and its URL outside the inner try, the player inside it.
Video ==
  \/ \E x \in Gets("home") : Return("video", x, "play", "play", "quit")
  \/ Stay("play", "quit", TRUE)
  \/ \E complains \in BOOLEAN : Stay("play", "next", complains)

NextIteration == Stay("next", "loop", FALSE)
-------------------------------------------------------------------------------
\* END is logged, and finally entered.
Finish == iter = Repetitions /\ Stay("loop", "quit", FALSE)

\* The tab ends with its browser.
Forget == tab' = <<"blank">> /\ said' = FALSE /\ unmoved' = FALSE /\ began' = "blank"

\* driver.quit, if there is a driver.
Quit ==
  /\ pc = "quit"
  /\ pc' = "stop"
  /\ \/ browsers' = browsers \ {case} /\ lost' = lost
     \/ case \in browsers /\ browsers' = browsers /\ lost' = lost \cup {<<"browser", case>>}
  /\ Forget
  /\ UNCHANGED <<case, iter, aborting, interrupts, tools, logs, mixed, unseen, late>>

\* Mutant of Stopped: only a use case that came to its end stops the capture.
StoppedAtEnd == IF iter = Repetitions THEN "ended" ELSE tools[case]

Stopped == "ended"

\* stop_packet_capture: an unprivileged signal to sudo is refused, as is the kill
\* after it; or sudo is killed after five seconds and its tcpdump lives on.
Stop ==
  /\ pc = "stop" /\ pc' = "save"
  /\ \/ tools' = [tools EXCEPT ![case] = Stopped] /\ lost' = lost
     \/ tools[case] # "ended" /\ tools' = tools /\ lost' = lost \cup {<<"capture", case>>}
  /\ UNCHANGED <<page, control, browsers, logs, mixed, unseen, late>>

\* Mutant of Written: the log is written at the end of the try.
WrittenAtEnd == IF iter = Repetitions THEN "written" ELSE "none"

Written == "written"

\* The log is written, errors of which are only printed, and main goes on; what
\* interrupted the use case ends it.
Save ==
  /\ pc = "save"
  /\ logs' = [logs EXCEPT ![case] = Written]
  /\ IF aborting THEN pc' = "exit" /\ case' = case ELSE pc' = "start" /\ case' = case + 1
  /\ UNCHANGED <<page, iter, aborting, interrupts, began, outside>>

Exit ==
  /\ pc = "start" /\ case > Len(Plan) /\ pc' = "exit"
  /\ UNCHANGED <<page, control, outside, logs>>

\* Where a bare except swallows a KeyboardInterrupt, and where that leads.
Swallowed == [load |-> "loop", click |-> "click", timedOut |-> "timedOutReload", clickError |-> "next",
              reselect |-> "next", reloadAnyway |-> "next", fallback |-> "return", redo |-> "next",
              play |-> "next", quit |-> "stop"]

\* Ctrl-C: the terminal sends it to the captures too.
CtrlC ==
  /\ interrupts < MaxInterrupts /\ interrupts' = interrupts + 1
  /\ tools' = [c \in Cases |-> IF tools[c] = "none" THEN "none" ELSE "ended"]
  /\ UNCHANGED <<case, iter, browsers, logs, mixed, unseen, late>>

Swallow ==
  /\ pc \in DOMAIN Swallowed /\ (pc = "load" => Kind = 1)
  /\ CtrlC /\ pc' = Swallowed[pc] /\ aborting' = aborting
  /\ IF pc = "quit" THEN Forget ELSE UNCHANGED <<page, began>>
  /\ lost' = IF pc = "quit" /\ case \in browsers THEN lost \cup {<<"browser", case>>} ELSE lost

\* Nothing else catches it: finally runs, unless it hits finally itself.
Interrupt ==
  /\ pc \notin {"quit", "exit"}
  /\ CtrlC /\ aborting' = TRUE
  /\ pc' = IF pc \in {"start", "stop", "save"} THEN "exit" ELSE "quit"
  /\ lost' = IF pc \in {"stop", "save"} THEN lost \cup {<<"log", case>>} ELSE lost
  /\ UNCHANGED <<page, began>>

\* sudo gets its password, or not.
Ask ==
  /\ \E c \in Cases : tools[c] = "asking" /\ \E t \in {"capturing", "ended"} : tools' = [tools EXCEPT ![c] = t]
  /\ UNCHANGED <<pc, page, control, browsers, logs, mixed, unseen, late, lost>>

\* The browsers send and receive, also those of earlier use cases.
Browse ==
  /\ mixed' = mixed \cup {x \in Cases \X browsers : x[1] # x[2] /\ tools[x[1]] = "capturing"}
  /\ unseen' = unseen \cup {d \in browsers : tools[d] # "capturing" /\ <<"browser", d>> \notin lost}
  /\ UNCHANGED <<pc, page, control, tools, browsers, logs, late, lost>>

Next ==
  \/ Start \/ Launch \/ Load \/ Iterate \/ Cnn \/ Pdf \/ Video \/ NextIteration \/ Finish
  \/ Quit \/ Stop \/ Save \/ Exit \/ Swallow \/ Interrupt \/ Ask \/ Browse

Spec == Init /\ [][Next]_vars
-------------------------------------------------------------------------------
(***************************************************************************)
(* Properties                                                              *)
(***************************************************************************)

\* The parts fit: nothing runs before its use case's turn, and every page history
\* begins where the browser does.
TypeOK ==
  /\ case \in 1 .. Len(Plan) + 1 /\ iter \in 0 .. Repetitions /\ interrupts \in 0 .. MaxInterrupts
  /\ tab # <<>> /\ tab[1] = "blank" /\ Range(tab) \subseteq {"blank", "home", "away"}
  /\ browsers \subseteq 1 .. case /\ mixed \subseteq (1 .. case) \X (1 .. case)
  /\ \A c \in Cases : c > case => tools[c] = "none"
  /\ \A c \in Cases : logs[c] # "none" => c < case \/ aborting

\* A pcap file holds the traffic of its own use case, unless an earlier browser, or
\* this capture, could not be ended: whatever failed in between.
OwnTrafficOnly ==
  \A x \in mixed : (IF x[2] < x[1] THEN <<"browser", x[2]>> ELSE <<"capture", x[1]>>) \in lost

\* No browser outlives its use case, and no capture does, unless the attempt to end
\* it failed: also when the browser did not start, or Ctrl-C ended the script.
AllEnded ==
  \A c \in Cases : (c < case \/ pc = "exit") =>
    /\ tools[c] \in {"none", "ended"} \/ <<"capture", c>> \in lost
    /\ c \notin browsers \/ <<"browser", c>> \in lost

\* A use case whose capture was started has its log, unless Ctrl-C hit the cleaning up.
LogKept ==
  \A c \in Cases : logs[c] = "none" /\ (c < case \/ (c = case /\ pc = "exit" /\ tools[c] # "none")) =>
    <<"log", c>> \in lost

\* Traffic is missed only if sudo still asked for a password two seconds after its
\* start, or after Ctrl-C.
UnseenOnlyIf == \A c \in unseen : c \in late \/ interrupts > 0

\* A repetition ends on the page the next one needs, or has logged an error: except
\* at CNN after a click that led nowhere (going back then leaves the home page), or
\* if the repetition began elsewhere, and after the last download.
OnPageOrSaid ==
  pc = "next" => \/ Shown = "home" \/ said
                 \/ Kind = 1 /\ (unmoved \/ began # "home")
                 \/ Kind = 2 /\ iter = Repetitions

\* Use cases stay apart, in time and in their files.
CapturesApart == TypeOK /\ OwnTrafficOnly /\ AllEnded

\* What a use case did is in its log, and its traffic in its file.
NothingMissed == LogKept /\ UnseenOnlyIf
=================================================================================
