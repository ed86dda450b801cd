---------------------------- MODULE Notifications ----------------------------
(***************************************************************************)
(* ToastService, notifications.js: toasts are pushed by events of the page, *)
(* dismissed by a timer, by a click or by a newer toast, and removed when   *)
(* their transition has ended or half a second later.                       *)
(***************************************************************************)
EXTENDS Integers, FiniteSets

CONSTANTS maxNotifications,
          MaxToasts   \* bound: toasts pushed

ASSUME maxOK == maxNotifications \in Nat \ {0} /\ MaxToasts \in Nat

VARIABLES
    notifications,  \* the toasts in the page, numbered as they come
    timers,         \* those whose timer of five seconds runs
    leaving,        \* those that are dismissed and about to be removed
    pushed,         \* toasts built so far
    burst           \* history: one was pushed while another was leaving

toastVars == <<notifications, timers, leaving, pushed, burst>>

ToastsInit ==
    /\ notifications = {} /\ timers = {} /\ leaving = {}
    /\ pushed = 0 /\ burst = FALSE

\* The last of the list, which has the newest first, once the list is full.
Oldest == {t \in notifications : /\ Cardinality(notifications) >= maxNotifications
                                 /\ \A u \in notifications : t <= u}

\* push: the oldest one is dismissed to make room, and that before the detail
\* of the event is looked at.
BugNoTimer ==
    /\ pushed < MaxToasts
    /\ leaving' = leaving \cup Oldest
    /\ timers' = timers \ Oldest
    /\ pushed' = pushed + 1
    /\ notifications' = notifications \cup {pushed'}
    /\ burst' = (burst \/ leaving # {})
push ==
    /\ leaving' = leaving \cup Oldest
    /\ \/ /\ pushed < MaxToasts /\ pushed' = pushed + 1
          /\ timers' = (timers \ Oldest) \cup {pushed'}
          /\ notifications' = notifications \cup {pushed'}
       \/ timers' = timers \ Oldest /\ UNCHANGED <<pushed, notifications>>
    /\ burst' = (burst \/ leaving # {})

\* dismiss, by the timer of the toast or a click on its button.
dismiss(t) ==
    /\ t \in notifications
    /\ timers' = timers \ {t}
    /\ leaving' = leaving \cup {t}
    /\ UNCHANGED <<notifications, pushed, burst>>
TimerFires(t) == t \in timers /\ dismiss(t)

\* transitionend or the second timer, whichever comes first.
removeElement(t) ==
    /\ t \in leaving
    /\ leaving' = leaving \ {t}
    /\ notifications' = notifications \ {t}
    /\ UNCHANGED <<timers, pushed, burst>>

ToastsNext == push \/ \E t \in notifications : dismiss(t) \/ TimerFires(t) \/ removeElement(t)

ToastsSpec == ToastsInit /\ [][ToastsNext]_toastVars

-----------------------------------------------------------------------------

\* The types; every toast in the page is to leave it, by its timer or already.
ToastsTypeOK ==
    /\ notifications \subseteq 1..pushed /\ pushed \in 0..MaxToasts
    /\ burst \in BOOLEAN
    /\ timers \cap leaving = {} /\ timers \cup leaving = notifications

\* There are never more than maxNotifications besides those on their way out,
\* unless one came within the time another took to leave: then that other one
\* is dismissed once more, and nobody makes room.
MaxKept == burst \/ Cardinality(notifications) - Cardinality(leaving) <= maxNotifications

\* push and dismiss, by click, by timer and to make room, keep the number of
\* toasts down, and every toast disappears, however many others come.
ToastsComeAndGo == []MaxKept /\ \A t \in 1..MaxToasts : t \in notifications ~> t \notin notifications
=============================================================================
