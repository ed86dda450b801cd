----------------------------- MODULE RelayEditor -----------------------------
(***************************************************************************)
(* The editor of the relay page, relay.js: the URL holds the compressed     *)
(* text.  Compression and decompression are asynchronous, may end in any    *)
(* order, and outlive the page when htmx replaces it.                       *)
(***************************************************************************)
EXTENDS FiniteSets, Naturals

CONSTANTS Texts, Empty,   \* what the text area may hold or a link carry, and no text
          Broken,         \* data in a URL that does not decompress
          Decoded,        \* what a text is after compress, decompress and the text area
          MaxInputs       \* bound: input events

ASSUME EmptyOK == Empty \in Texts /\ Broken \notin Texts
ASSUME DecodedOK == Decoded \in [Texts -> Texts]
ASSUME BoundOK == MaxInputs \in Nat

VARIABLES
    open,         \* is the editor's page the one that is shown?
    text,         \* the value of the text area
    data,         \* the data parameter of the URL, Empty: none
    restoring,    \* the data being decompressed, Empty: none
    compressing,  \* compressions that run: the text, whether the signal is
                  \* aborted, whether they are of the editor that is shown
    inputs,
    late          \* history: an event came at a time the editor is not made for

editorVars == <<open, text, data, restoring, compressing, inputs, late>>

\* A page load, with the data of the link that was followed, or none.
Load(d) ==
    /\ open' = TRUE
    /\ text' = Empty /\ data' = d /\ restoring' = d
    /\ compressing' = {} /\ late' = FALSE

EditorInit ==
    /\ open = TRUE /\ text = Empty
    /\ data \in Texts \cup {Broken} /\ restoring = data
    /\ compressing = {} /\ inputs = 0 /\ late = FALSE

Reload == (\E d \in Texts \cup {Broken} : Load(d)) /\ UNCHANGED inputs

\* restoreFromUrl: the text area is set without an input event, to a text that
\* lost a byte order mark in Response.text and carriage returns in the area; a
\* rejected decompression leaves it alone.
Restored ==
    /\ open /\ restoring # Empty
    /\ text' = IF restoring = Broken THEN text ELSE Decoded[restoring]
    /\ restoring' = Empty
    /\ UNCHANGED <<open, data, compressing, inputs, late>>

\* onInput, after typing, a Tab, or the load of a dropped file: the running
\* compression is aborted; no text empties the URL at once, any other text is
\* compressed first.
Job(t) == [n |-> inputs + 1, text |-> t, mine |-> TRUE, aborted |-> FALSE]
Aborted(C) == {[c EXCEPT !.aborted = @ \/ c.mine] : c \in C}
onInput(t) ==
    /\ open /\ inputs < MaxInputs
    /\ inputs' = inputs + 1
    /\ text' = t
    /\ data' = IF t = Empty THEN Empty ELSE data
    /\ compressing' = Aborted(compressing) \cup (IF t = Empty THEN {} ELSE {Job(t)})
    /\ late' = (late \/ restoring # Empty)
    /\ UNCHANGED <<open, restoring>>

\* The compression is over: replaceState, on whatever page is shown by then.
BugLastWins(c) ==
    /\ compressing' = compressing \ {c}
    /\ data' = c.text
    /\ UNCHANGED <<open, text, restoring, inputs, late>>
Compressed(c) ==
    /\ compressing' = compressing \ {c}
    /\ data' = IF c.aborted THEN data ELSE c.text
    /\ UNCHANGED <<open, text, restoring, inputs, late>>

\* htmx swaps in another page, and later the relay page with a new editor;
\* nothing aborts what the old one has begun.
Leave ==
    /\ open
    /\ open' = FALSE /\ data' = Empty /\ restoring' = Empty
    /\ compressing' = {[c EXCEPT !.mine = FALSE] : c \in compressing}
    /\ late' = (late \/ \E c \in compressing : ~c.aborted)
    /\ UNCHANGED <<text, inputs>>
Return ==
    /\ ~open
    /\ open' = TRUE /\ text' = Empty /\ data' = Empty
    /\ UNCHANGED <<restoring, compressing, inputs, late>>

EditorNext ==
    \/ Reload \/ Restored \/ Leave \/ Return
    \/ \E t \in Texts : onInput(t)
    \/ \E c \in compressing : Compressed(c)

EditorSpec == EditorInit /\ [][EditorNext]_editorVars

-----------------------------------------------------------------------------

\* The types; what is being compressed is the text, unless that was restored
\* over what had been typed.
EditorTypeOK ==
    /\ text \in Texts /\ data \in Texts \cup {Broken}
    /\ restoring \in Texts \cup {Broken, Empty}
    /\ inputs \in 0..MaxInputs
    /\ compressing \subseteq [n : 1..inputs, text : Texts, mine : BOOLEAN, aborted : BOOLEAN]
    /\ \A c \in compressing : c.mine => open /\ (c.aborted \/ late \/ c.text = text)

\* Once nothing is under way the link of the page is the one its text was
\* restored from or compressed to, however many compressions overlapped and in
\* whichever order they ended.  Left out are the pages on which someone typed
\* before the text of the link had been restored.
AtRest == open /\ restoring = Empty /\ ~\E c \in compressing : c.mine /\ ~c.aborted
LinkIsText == AtRest /\ ~late => data = Broken \/ text \in {data, Decoded[data]}

\* Aborted compressions write to no other page's URL.  Left out are those that
\* still run when the page is left: they do write to it.
OthersUntouched == ~open /\ ~late => data = Empty

\* A compression that onInput has aborted never writes a link, whenever it ends;
\* what was not aborted in time is excluded by the history variable.
LinkFollowsText == LinkIsText /\ OthersUntouched
=============================================================================
