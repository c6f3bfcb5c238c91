------------------------------ MODULE Observers ------------------------------
(***************************************************************************)
(* What query states promise the program that keeps them.  A state has     *)
(* news: the values of its world that changed, or were added, since it was *)
(* last used there.  A use answers from the news and ends them; to a state *)
(* taken to another world everything there is news.  A value is handed out *)
(* for writing only when it is news to every state of its world.           *)
(***************************************************************************)
EXTENDS QueryForms

CONSTANTS
    Worlds,
    Entities,
    Types,
    States      \* query states the program keeps

VARIABLES
    has,        \* the component types of every entity of every world
    asks,       \* the shape and the filter of every state
    home,       \* the world a state was used with last
    news,       \* what that state has not seen there
    lent,       \* the entities a use of a world may still hand out
    answer

observerVars == <<has, asks, home, news, lent, answer>>

NewsOf(w, e) == {<<kind, e, t>> : kind \in {"changed", "added"}, t \in has[w][e]}
Unseen(q, w) == IF home[q] = w THEN news[q] ELSE UNION {NewsOf(w, e) : e \in Entities}

\* The entities a use of q with w is about.
Matching(q, w) ==
    {e \in Entities :
        /\ Required(asks[q].form, asks[q].filter) \subseteq has[w][e]
        /\ Excluded(asks[q].filter) \cap has[w][e] = {}
        /\ \A a \in TickAtoms(asks[q].filter) : <<a.is, e, a.on>> \in Unseen(q, w)}

Heard(w, items) == [q \in States |-> IF home[q] = w THEN news[q] \cup items ELSE news[q]]
KnownToAll(w, cells) ==
    \A q \in States : home[q] = w => \A c \in cells : <<"changed", c[1], c[2]>> \in news[q]

ObserversInit ==
    /\ has \in [Worlds -> [Entities -> SUBSET Types]]
    /\ home \in [States -> Worlds]
    /\ news = [q \in States |-> UNION {NewsOf(home[q], e) : e \in Entities}]
    /\ lent = [w \in Worlds |-> {}]
    /\ answer = [is |-> "none"]

-----------------------------------------------------------------------------
Attach(w, e, t) ==
    /\ answer' = [is |-> "none"]
    /\ lent[w] = {} /\ t \notin has[w][e]
    /\ has' = [has EXCEPT ![w][e] = @ \cup {t}]
    /\ news' = Heard(w, {<<"changed", e, t>>, <<"added", e, t>>})
    /\ UNCHANGED <<asks, home, lent>>

Detach(w, e, t) ==
    /\ answer' = [is |-> "none"]
    /\ lent[w] = {}
    /\ has' = [has EXCEPT ![w][e] = @ \ {t}]
    /\ news' = [q \in States |-> IF home[q] = w THEN news[q] \ {<<"changed", e, t>>, <<"added", e, t>>}
                                 ELSE news[q]]
    /\ UNCHANGED <<asks, home, lent>>

\* A use answers or lends, and the state has no news any more.
Use(q, w, loan, reply) ==
    /\ answer' = reply
    /\ lent[w] = {}
    /\ home' = [home EXCEPT ![q] = w]
    /\ news' = [news EXCEPT ![q] = {}]
    /\ lent' = [lent EXCEPT ![w] = loan]
    /\ UNCHANGED <<has, asks>>

Answers(q, w, way) ==
    \/ Use(q, w, {}, [is |-> "selected", way |-> way, of |-> YieldOf(way, Matching(q, w))])
    \/ Use(q, w, YieldOf(way, Matching(q, w)), [is |-> "lent", way |-> way])

\* A value is changed from outside any query.
Change(w, e, t) ==
    /\ answer' = [is |-> "exposed", of |-> {<<e, t>>}]
    /\ t \in has[w][e] /\ lent[w] = {}
    /\ news' = Heard(w, {<<"changed", e, t>>})
    /\ UNCHANGED <<has, asks, home, lent>>

\* A change of a value that was lent is announced.
Report(w, e, t) ==
    /\ answer' = [is |-> "none"]
    /\ t \in has[w][e] /\ e \in lent[w]
    /\ news' = Heard(w, {<<"changed", e, t>>})
    /\ UNCHANGED <<has, asks, home, lent>>

\* Values are handed out for writing.
HandOut(w) ==
    /\ answer' \in [is : {"exposed"},
                    of : (SUBSET {c \in lent[w] \X Types : c[2] \in has[w][c[1]]}) \ {{}}]
    /\ KnownToAll(w, answer'.of)
    /\ UNCHANGED <<has, asks, home, news, lent>>

\* The program is refused, or its call unwinds; nothing is handed out.
Decline ==
    /\ answer' \in {[is |-> "refused"], [is |-> "panicked"]}
    /\ UNCHANGED <<has, asks, home, news, lent>>

\* The program goes on; it may have given back what was lent.
GoOn(w) ==
    /\ answer' = [is |-> "none"]
    /\ lent' \in {lent, [lent EXCEPT ![w] = {}]}
    /\ UNCHANGED <<has, asks, home, news>>

ObserversNext ==
    \/ \E w \in Worlds :
        \/ \E e \in Entities, t \in Types :
               Attach(w, e, t) \/ Detach(w, e, t) \/ Change(w, e, t) \/ Report(w, e, t)
        \/ \E q \in States, way \in Ways(Entities) : Answers(q, w, way)
        \/ HandOut(w)
        \/ GoOn(w)
    \/ Decline

ObserversSpec == ObserversInit /\ [][ObserversNext]_observerVars
=============================================================================
