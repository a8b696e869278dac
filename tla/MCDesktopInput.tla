--------------------------- MODULE MCDesktopInput ---------------------------
(* Instances of DesktopInput for TLC. *)
EXTENDS DesktopInput

CONSTANTS main, modal, panel, other, tip, app, foreign

\* A main window with a modal and a modeless dialog, and another application's window
\* and its tool window that is always on top.
MCProcess == [w \in Windows |-> IF w \in {other, tip} THEN foreign ELSE app]
MCOwner == [w \in Windows |-> IF w \in {modal, panel} THEN main ELSE NULL]

MCPlans == {<<"click">>, <<"paste">>, <<"escape">>, <<"click", "key">>, <<"click", "outside">>,
            <<"key", "paste">>, <<"escape", "click">>, <<"paste", "paste">>}
=============================================================================
