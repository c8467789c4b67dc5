------------------------------ MODULE Session ------------------------------
(***************************************************************************)
(* What the tunnel promises of one browser WebSocket it relays             *)
(* (handle_ws_open in tunnel.rs and the ws-* arms of the read loop), seen  *)
(* from its two ends. No task, channel or table occurs here: TunnelConn    *)
(* has them, and SessionRefinement shows that every session of it behaves  *)
(* like this one.                                                          *)
(*                                                                         *)
(* The promises: the browser's frames are kept without a gap from the      *)
(* moment the session is registered until one side ends it, and are lost   *)
(* before and after; the application's frames are relayed one by one, in   *)
(* order, and none is skipped while the connection can be written to; the  *)
(* browser learns of the end if the application closes in order, or if it  *)
(* was never reached. A session whose application vanishes ends without a  *)
(* word, and one whose browser hangs up too early does not end.            *)
(***************************************************************************)
EXTENDS Naturals

VARIABLES
  view,       \* what the server was told
  stage,      \* frames of the browser are lost "before", kept "now", lost "past",
              \* and when it is "over" no task of the session is left
  sent,       \* frames of the browser dealt with
  delivered,  \* of these, the ones the application's side accepted
  produced,   \* frames read from the application
  relayed,    \* of these, the ones the server was sent
  parting,    \* how the application left: "not", "orderly" or "abrupt"
  hung,       \* the browser hung up
  cut         \* nothing more can be written to the server

sessionVars == <<view, stage, sent, delivered, produced, relayed, parting, hung, cut>>

Init ==
  /\ view = "unasked" /\ stage = "before"
  /\ sent = 0 /\ delivered = 0 /\ produced = 0 /\ relayed = 0
  /\ parting = "not" /\ hung = FALSE /\ cut = FALSE

Told == view \in {"open", "closed"}
Parted == parting # "not"

-----------------------------------------------------------------------------
Ask ==
  /\ view = "unasked" /\ view' = "asked"
  /\ UNCHANGED <<stage, sent, delivered, produced, relayed, parting, hung, cut>>

\* The application was not reached. The refusal is the end of the session.
Refuse ==
  /\ view = "asked" /\ stage = "before" /\ ~Parted
  /\ view' = IF cut THEN view ELSE "refused"
  /\ stage' = "over"
  /\ UNCHANGED <<sent, delivered, produced, relayed, parting, hung, cut>>

Accept ==
  /\ view = "asked" /\ stage = "before" /\ ~cut /\ view' = "open"
  /\ UNCHANGED <<stage, sent, delivered, produced, relayed, parting, hung, cut>>

Begin ==
  /\ stage = "before" /\ (view = "open" \/ cut) /\ stage' = "now"
  /\ UNCHANGED <<view, sent, delivered, produced, relayed, parting, hung, cut>>

\* A frame of the browser is kept. It may be the last one on its way.
Deliver ==
  /\ stage = "now"
  /\ stage' = "now" \/ (stage' = "past" /\ Parted)
  /\ sent' = sent + 1 /\ delivered' = delivered + 1
  /\ UNCHANGED <<view, produced, relayed, parting, hung, cut>>

\* It is lost only by a session that is not registered yet, or is ending.
Miss ==
  /\ Told /\ stage # "now"
  /\ sent' = sent + 1
  /\ UNCHANGED <<view, stage, delivered, produced, relayed, parting, hung, cut>>

\* The application's end is what makes a registered session deaf to the browser.
Deafen ==
  /\ stage = "now" /\ Parted /\ stage' = "past"
  /\ UNCHANGED <<view, sent, delivered, produced, relayed, parting, hung, cut>>

\* The browser hangs up, of which only a registered session takes notice.
HangUp ==
  /\ view # "unasked" /\ ~hung /\ hung' = TRUE
  /\ stage' = IF stage = "now" THEN "past" ELSE stage
  /\ UNCHANGED <<view, sent, delivered, produced, relayed, parting, cut>>

\* The application's frames are taken one at a time, those it sent before it
\* left also afterwards, but none behind the report of its end.
Produce ==
  /\ stage \in {"now", "past"} /\ view # "closed"
  /\ produced = relayed \/ cut
  /\ produced' = produced + 1
  /\ UNCHANGED <<view, stage, sent, delivered, relayed, parting, hung, cut>>

Relay ==
  /\ view = "open" /\ ~cut
  /\ relayed < produced /\ relayed' = relayed + 1
  /\ UNCHANGED <<view, stage, sent, delivered, produced, parting, hung, cut>>

\* The application closes its WebSocket, or is gone, which may keep its closing
\* from being seen.
Part(how) ==
  /\ view \in {"asked", "open"} /\ stage # "over"
  /\ parting = "not" \/ (parting = "orderly" /\ how = "abrupt")
  /\ parting' = how
  /\ UNCHANGED <<view, stage, sent, delivered, produced, relayed, hung, cut>>

\* Only an orderly end is reported, and after every frame that came before it.
Report ==
  /\ view = "open" /\ parting = "orderly" /\ stage \in {"now", "past"} /\ ~cut
  /\ relayed = produced
  /\ view' = "closed"
  /\ UNCHANGED <<stage, sent, delivered, produced, relayed, parting, hung, cut>>

\* A session that began ends after its application, never before.
End ==
  /\ stage = "past" /\ Parted
  /\ cut \/ (relayed = produced /\ (parting = "orderly" => view = "closed"))
  /\ stage' = "over"
  /\ UNCHANGED <<view, sent, delivered, produced, relayed, parting, hung, cut>>

Cut ==
  /\ ~cut /\ cut' = TRUE
  /\ UNCHANGED <<view, stage, sent, delivered, produced, relayed, parting, hung>>

Next ==
  \/ Ask \/ Refuse \/ Accept \/ Begin \/ Deliver \/ Miss \/ Deafen \/ HangUp
  \/ Produce \/ Relay \/ Report \/ End \/ Cut
  \/ \E how \in {"orderly", "abrupt"} : Part(how)

Spec == Init /\ [][Next]_sessionVars
=============================================================================
