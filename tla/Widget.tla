------------------------------- MODULE Widget -------------------------------
(***************************************************************************)
(* widget/nav-widget.js: the search palette of one browser tab.  The user  *)
(* types, speaks, chooses and closes; timers fire and answers arrive in    *)
(* any order, also after the text has changed, the palette was closed or   *)
(* the page began to unload.  What the server answers is open.             *)
(***************************************************************************)
EXTENDS Integers, Sequences, SequencesExt

CONSTANTS
    Queries,         \* texts of three or more characters, normalised
    Empty, Short,    \* no text, and one too short to search for
    Paths, Safe,     \* paths, and those with an http(s) or rooted address
    Scores,          \* confidences the server may answer with, in percent
    NoScore,         \* JavaScript's undefined
    AutoThreshold,   \* data-threshold
    LearnThreshold,
    MaxRecent, FailThreshold,
    MaxMoves,        \* bound: what the user does in one behaviour
    None

ASSUME WidgetAssumption ==
    /\ Safe \subseteq Paths /\ Scores \subseteq 0 .. 100
    /\ AutoThreshold \in Nat /\ LearnThreshold \in Nat
    /\ FailThreshold \in Nat \ {0} /\ MaxRecent \in Nat \ {0} /\ MaxMoves \in Nat
    /\ Queries \cap {Empty, Short, None} = {}

VARIABLES
    learned,      \* localStorage nav_learned_paths: text -> entry or None
    recent,       \* localStorage nav_recent
    isOpen, input,
    panel,        \* [shows, items]: what is displayed, and currentItems
    debounce,     \* text of the pending debounce timer
    suggesting,   \* text of the live suggest request
    calls,        \* query requests in flight: how many for each text
    leaps,        \* items the pending 400 ms timers will navigate to
    fails, degraded, banner,
    hearing,      \* the speech recogniser has results to deliver
    going,        \* window.location as assigned, before the page unloads
    typed,        \* history: text of the last input event
    shownFor,     \* history: the text the displayed suggestions are for
    answered,     \* history: pairs <<text, path>> the server answered
    moves

stored == <<learned, recent>>
service == <<fails, degraded, banner>>
net == <<calls, suggesting>>
vars == <<stored, isOpen, input, panel, debounce, net, leaps, service, hearing,
          going, typed, shownFor, answered, moves>>

Texts == Queries \cup {Empty, Short}
Item == [path : Paths, score : Scores \cup {NoScore, 50, 100}]

\* Comparisons with undefined are false.
Below(score, bound) == score # NoScore /\ score < bound
AtLeast(score, bound) == score # NoScore /\ score >= bound

Status == [shows |-> "status", items |-> {}]
Showing(kind, items) == [shows |-> kind, items |-> items]
RecentPanel ==
    IF recent = <<>> THEN Status
    ELSE Showing("recent", {[path |-> p, score |-> 100] : p \in ToSet(recent)})

LearnPath(map, q, path, score) ==
    IF Below(score, LearnThreshold) THEN map
    ELSE [map EXCEPT ![q] = [path |-> path, score |-> score, old |-> FALSE]]

\* The variant keeps an earlier visit to the same page.
RecordRecent_Repeats(path) ==
    LET moved == <<path>> \o recent
    IN  SubSeq(moved, 1, IF Len(moved) < MaxRecent THEN Len(moved) ELSE MaxRecent)
Without(s, path) ==
    LET kept[i \in 0 .. Len(s)] ==
          IF i = 0 THEN <<>>
          ELSE IF s[i] = path THEN kept[i - 1] ELSE Append(kept[i - 1], s[i])
    IN  kept[Len(s)]
RecordRecent(path) ==
    LET moved == <<path>> \o Without(recent, path)
    IN  SubSeq(moved, 1, IF Len(moved) < MaxRecent THEN Len(moved) ELSE MaxRecent)

\* The first page of this tab; earlier visits may have left a learned route.
Init ==
    /\ isOpen = FALSE /\ input = Empty /\ panel = Status
    /\ debounce = None /\ suggesting = None /\ calls = [q \in Queries |-> 0] /\ leaps = {}
    /\ fails = 0 /\ degraded = FALSE /\ banner = FALSE /\ hearing = FALSE
    /\ going = None /\ typed = Empty /\ shownFor = None /\ moves = 0
    /\ recent \in {<<>>} \cup {<<p>> : p \in Paths}
    /\ \E q \in Queries, p \in Paths, s \in Scores, known \in BOOLEAN :
         /\ learned = [t \in Texts |-> IF known /\ t = q /\ s >= LearnThreshold
                                       THEN [path |-> p, score |-> s, old |-> FALSE] ELSE None]
         /\ answered = IF learned[q] # None THEN {<<q, p>>} ELSE {}

Move == moves < MaxMoves /\ moves' = moves + 1

Known(t) == IF learned[t] = None THEN FALSE ELSE ~learned[t].old

\* query(q): from the learned routes, or else from the server while the panel
\* shows "waiting".  A confident learned route is followed by navigate(learned),
\* whose argument has a confidence but no score.
AskFor(q, waiting) ==
    IF Known(q)
    THEN LET item == [path |-> learned[q].path, score |-> learned[q].score] IN
         /\ IF AtLeast(item.score, AutoThreshold)
            THEN panel' = Status /\ leaps' = leaps \cup {[item EXCEPT !.score = NoScore]}
            ELSE panel' = Showing("learned", {item}) /\ UNCHANGED leaps
         /\ UNCHANGED <<learned, calls>>
    ELSE /\ learned' = [learned EXCEPT ![q] = None]
         /\ calls' = [calls EXCEPT ![q] = @ + 1]
         /\ panel' = waiting
         /\ UNCHANGED leaps

Open ==
    /\ Move /\ ~isOpen /\ isOpen' = TRUE
    /\ input' = Empty /\ panel' = RecentPanel
    /\ UNCHANGED <<stored, debounce, net, leaps, service, hearing, going, typed, shownFor, answered>>

\* Only the debounce timer ends with the palette: requests and navigation
\* timers go on, and the recogniser may still deliver what it heard.
Close ==
    /\ Move /\ isOpen /\ isOpen' = FALSE /\ debounce' = None
    /\ UNCHANGED <<stored, input, panel, net, leaps, service, hearing, going, typed, shownFor, answered>>

\* The input handler; the variants leave a request, or the timer, to a short text.
Type_KeepsSuggest(t) ==
    /\ Move /\ isOpen
    /\ input' = t /\ typed' = t
    /\ debounce' = IF t \in Queries THEN t ELSE None
    /\ suggesting' = IF t \in Queries THEN t ELSE suggesting
    /\ panel' = IF t = Empty THEN RecentPanel
                ELSE IF t = Short THEN Status ELSE Showing("searching", {})
    /\ UNCHANGED <<stored, isOpen, calls, leaps, service, hearing, going, shownFor, answered>>
Type_KeepsTimer(t) ==
    /\ Move /\ isOpen
    /\ input' = t /\ typed' = t
    /\ debounce' = IF t \in Queries THEN t ELSE debounce
    /\ suggesting' = IF t \in Queries THEN t ELSE None
    /\ panel' = IF t = Empty THEN RecentPanel
                ELSE IF t = Short THEN Status ELSE Showing("searching", {})
    /\ UNCHANGED <<stored, isOpen, calls, leaps, service, hearing, going, shownFor, answered>>
Type(t) ==
    /\ Move /\ isOpen
    /\ input' = t /\ typed' = t
    /\ debounce' = IF t \in Queries THEN t ELSE None
    /\ suggesting' = IF t \in Queries THEN t ELSE None
    /\ panel' = IF t = Empty THEN RecentPanel
                ELSE IF t = Short THEN Status ELSE Showing("searching", {})
    /\ UNCHANGED <<stored, isOpen, calls, leaps, service, hearing, going, shownFor, answered>>

Debounced ==
    /\ debounce # None /\ debounce' = None
    /\ AskFor(debounce, panel)
    /\ UNCHANGED <<recent, isOpen, input, suggesting, service, hearing, going, typed,
                   shownFor, answered, moves>>

\* Suggestions, all of score 0.5; none leave the panel as it is.
Suggested ==
    /\ suggesting # None /\ suggesting' = None
    /\ \/ \E p \in Paths : /\ panel' = Showing("suggest", {[path |-> p, score |-> 50]})
                           /\ shownFor' = suggesting
       \/ UNCHANGED <<panel, shownFor>>
    /\ UNCHANGED <<stored, isOpen, input, debounce, calls, leaps, service, hearing, going,
                   typed, answered, moves>>

StartVoice ==
    /\ Move /\ isOpen /\ ~hearing /\ hearing' = TRUE /\ panel' = Status
    /\ UNCHANGED <<stored, isOpen, input, debounce, net, leaps, service, going, typed, shownFor, answered>>

\* A transcript replaces the text without an input event; a final one is asked
\* at once.
Heard(q) ==
    /\ hearing /\ input' = q
    /\ \/ UNCHANGED <<learned, panel, debounce, calls, leaps, hearing>> /\ Move
       \/ /\ hearing' = FALSE /\ debounce' = None
          /\ AskFor(q, Status)
          /\ UNCHANGED moves
    /\ UNCHANGED <<recent, isOpen, suggesting, service, going, typed, shownFor, answered>>

StopVoice ==
    /\ hearing /\ hearing' = FALSE
    /\ \/ UNCHANGED panel
       \/ panel' = Status
    /\ UNCHANGED <<stored, isOpen, input, debounce, net, leaps, service, going, typed,
                   shownFor, answered, moves>>

\* navigate(item): what is recorded and learned is the text in the input now,
\* whatever the item was an answer to.
Navigate(item) ==
    /\ recent' = RecordRecent(item.path)
    /\ learned' = LearnPath(learned, input, item.path, item.score)
    /\ isOpen' = FALSE
    /\ debounce' = IF isOpen THEN None ELSE debounce
    /\ going' = IF item.path \in Safe THEN item.path ELSE going
    /\ UNCHANGED <<input, panel, net, service, hearing, typed, shownFor, answered>>

Choose ==
    /\ Move /\ isOpen
    /\ \E item \in panel.items : Navigate(item)
    /\ UNCHANGED leaps

Leap == \E item \in leaps : leaps' = leaps \ {item} /\ Navigate(item) /\ UNCHANGED moves

\* Any response below 500 ends the limited mode; the variant forgets the banner.
Reachable_BannerStays == fails' = 0 /\ degraded' = FALSE /\ UNCHANGED banner
Reachable == fails' = 0 /\ degraded' = FALSE /\ banner' = FALSE

Returns(q) == calls[q] > 0 /\ calls' = [calls EXCEPT ![q] = @ - 1]

\* Refused, rate limited or unreadable.
Refused(q) ==
    /\ Returns(q) /\ Reachable /\ panel' = Status
    /\ UNCHANGED <<stored, isOpen, input, debounce, suggesting, leaps, hearing, going, typed,
                   shownFor, answered, moves>>

\* A MISS leaves what is listed, suggestions or anything else.
Missed(q) ==
    /\ Returns(q) /\ Reachable
    /\ panel' = IF panel.items = {} THEN Status ELSE panel
    /\ UNCHANGED <<stored, isOpen, input, debounce, suggesting, leaps, hearing, going, typed,
                   shownFor, answered, moves>>

Found(q, item) ==
    /\ Returns(q) /\ Reachable
    /\ answered' = answered \cup {<<q, item.path>>}
    /\ \/ /\ AtLeast(item.score, AutoThreshold)
          /\ learned' = LearnPath(learned, q, item.path, item.score)
          /\ panel' = Status /\ leaps' = leaps \cup {item}
       \/ /\ ~AtLeast(item.score, AutoThreshold)
          /\ panel' = Showing("answer", {item})
          /\ UNCHANGED <<learned, leaps>>
    /\ UNCHANGED <<recent, isOpen, input, debounce, suggesting, hearing, going, typed, shownFor, moves>>

\* Saved routes in limited mode: learned ones whose key shares a word with the
\* query (any may), or else the recent pages.
SavedPanel ==
    {Showing("learned", {[path |-> e.path, score |-> e.score] : e \in es}) :
        es \in (SUBSET {learned[t] : t \in {u \in Texts : Known(u)}})
               \ {{}}}
    \cup {IF recent = <<>> THEN Status
          ELSE Showing("recent", {[path |-> p, score |-> 50] : p \in ToSet(recent)})}

\* A server error, no connection, or ten seconds without an answer.  The variant
\* has no handler for the timeout.
Failed_Silently(q) ==
    /\ Returns(q)
    /\ UNCHANGED <<stored, isOpen, input, panel, debounce, suggesting, leaps, service, hearing,
                   going, typed, shownFor, answered, moves>>
Failed(q) ==
    /\ Returns(q)
    /\ fails' = IF fails < FailThreshold THEN fails + 1 ELSE fails
    /\ degraded' = (degraded \/ fails' >= FailThreshold)
    /\ banner' = (banner \/ degraded')
    /\ IF degraded' THEN panel' \in SavedPanel ELSE panel' = Status
    /\ UNCHANGED <<stored, isOpen, input, debounce, suggesting, leaps, hearing, going, typed,
                   shownFor, answered, moves>>

\* Seven days pass over a learned route.
Age ==
    /\ \E t \in Texts : /\ Known(t)
                        /\ learned' = [learned EXCEPT ![t].old = TRUE]
    /\ UNCHANGED <<recent, isOpen, input, panel, debounce, net, leaps, service, hearing, going,
                   typed, shownFor, answered, moves>>

\* The page assigned is loaded and the widget starts anew, wiping what is
\* stored if data-cache-version has changed.
Load ==
    /\ going # None
    /\ isOpen' = FALSE /\ input' = Empty /\ panel' = Status
    /\ debounce' = None /\ suggesting' = None /\ calls' = [q \in Queries |-> 0] /\ leaps' = {}
    /\ fails' = 0 /\ degraded' = FALSE /\ banner' = FALSE /\ hearing' = FALSE
    /\ going' = None /\ typed' = Empty /\ shownFor' = None
    /\ \E bumped \in BOOLEAN :
         /\ learned' = IF bumped THEN [t \in Texts |-> None] ELSE learned
         /\ recent' = IF bumped THEN <<>> ELSE recent
    /\ UNCHANGED <<answered, moves>>

Answers(q) ==
    \/ Refused(q) \/ Missed(q) \/ Failed(q)
    \/ \E p \in Paths, s \in Scores : Found(q, [path |-> p, score |-> s])

Next ==
    \/ Open \/ Close \/ Debounced \/ Suggested \/ StartVoice \/ StopVoice \/ Choose \/ Leap
    \/ Age \/ Load
    \/ \E t \in Texts : Type(t)
    \/ \E q \in Queries : Heard(q) \/ Answers(q)

Spec == Init /\ [][Next]_vars

\* The browser fires timers, and ends every request by an answer, an error or
\* the timeout.
FairSpec == Spec /\ WF_vars(Debounced) /\ \A q \in Queries : WF_vars(Answers(q))

-----------------------------------------------------------------------------

TypeOK ==
    /\ \A t \in Texts : learned[t] # None => learned[t].path \in Paths
    /\ Len(recent) <= MaxRecent /\ IsInjective(recent)
    /\ input \in Texts /\ typed \in Texts
    /\ panel.items \subseteq Item /\ leaps \subseteq Item
    /\ suggesting \in Queries \cup {None} /\ going \in Safe \cup {None}
    /\ fails \in 0 .. FailThreshold

\* Suggestions on display are for the text last typed: an answer to an earlier
\* keystroke never replaces what a later one shows.  That is not always the text
\* in the box, which opening the palette and speaking change without typing.
SuggestionsAreCurrent == panel.shows = "suggest" => shownFor = typed

\* What the timer will ask is the text last typed, and nothing is asked for a
\* palette closed meanwhile.  An interim transcript may have changed the box.
TimerIsCurrent == debounce # None => isOpen /\ debounce = typed

\* The limited mode, its banner and the count of consecutive failures agree, in
\* whatever order answers to several queries arrive.
LimitedModeShown == banner = degraded /\ degraded = (fails >= FailThreshold)

\* A palette that says "searching" has a timer or a request that will end it: no
\* order of typing, speaking, closing and late answers leaves it waiting for none.
SearchIsServed ==
    isOpen /\ panel.shows = "searching" => debounce # None \/ \E q \in Queries : calls[q] > 0

\* "Searching" ends: by an answer, an error, the timeout, or the user.
SearchEnds == (isOpen /\ panel.shows = "searching") ~> ~(isOpen /\ panel.shows = "searching")

\* nav-widget.js:121: a learned route is an answer to the query it is stored
\* under, "so future identical queries skip the API".
LearnedWasAnswered ==
    \A q \in Queries : learned[q] # None => <<q, learned[q].path>> \in answered
=============================================================================
