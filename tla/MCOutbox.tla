------------------------------- MODULE MCOutbox -------------------------------
(* A composed notice, whose email is event 2.                              *)
EXTENDS Outbox, TLC

ComposedKinds == <<{"manual"}, {"email"}>>
SecondIsMessage == <<2, None>>
=============================================================================
