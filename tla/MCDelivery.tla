------------------------------ MODULE MCDelivery ------------------------------
(* Four scenes of the two queues, with two events and messages and two     *)
(* server processes.  In "outbox" the email workers rest.  In "two         *)
(* messages" and "two senders" the outbox rests, so that messages come and *)
(* are handed over at any time; the first has one process and no restore,  *)
(* the second one message.  In "joined" both queues work in one process,   *)
(* on a composed notice and its message.                                   *)
EXTENDS Delivery

CONSTANTS w1, w2

VARIABLE scene

all == <<vars, mail, scene>>

ASSUME MailAssumption == E!DispatchAssumption

(* Event 1 is an email or another reminder; event 2 is of any kind, and a  *)
(* notice has event 1 as its email.                                        *)
AnyKinds == <<{"email", "reminder"}, EventKinds \ {"email"}>>
FirstIsMessage == <<None, 1>>

Plays ==
  \/ scene = "outbox" /\ (Kind(1) = "reminder" => Kind(2) \in {"none", "reminder"})
  \/ scene = "two messages" /\ sender[w2] = E!Idle /\ ~restoring
  \/ scene = "two senders" /\ email[2] = E!Absent
  \/ /\ scene = "joined" /\ faults + failures <= 1
     /\ worker[w2] = Idle /\ sender[w2] = E!Idle
     /\ Kind(1) # "reminder" /\ Kind(2) \in {"none", "manual"}

Joint == {"outbox", "joined"}
Scenes == Joint \union {"two messages", "two senders"}

SceneInit == DeliveryInit /\ scene \in Scenes

SceneNext ==
  /\ \/ scene = "outbox" /\ Next /\ Follow
     \/ scene = "joined" /\ DeliveryNext
     \/ scene \notin Joint /\ E!Next /\ UNCHANGED vars
  /\ UNCHANGED scene /\ Plays'

(* The fairness of the two modules.  No scene keeps out for good what it   *)
(* asks for: where a process rests, the other one does its work.           *)
Fairness ==
  /\ WF_vars(scene \in Joint /\ Tick)
  /\ \A w \in Worker :
       /\ WF_vars(scene \in Joint /\ Work(w))
       /\ WF_mail(scene # "outbox" /\ E!Work(w))
  /\ SF_mail(scene \notin Joint /\ E!LockForRestore)
  /\ WF_mail(scene \notin Joint /\ E!CancelForRestore)
  /\ \A d \in Event : WF_mail(scene # "outbox" /\ E!Expires(d))

SceneSpec == SceneInit /\ [][SceneNext]_all /\ Fairness

(* The tables of both queues keep to the values that statements write.     *)
TypesOK == TypeOK /\ E!TypeOK

(* Nothing stays in a queue for good: an event of the outbox is delivered, *)
(* a message comes to an end, and a composed notice ends with its message  *)
(* sent, refused, cancelled or of unknown fate, or was cancelled itself.   *)
DeliveriesSettle ==
  /\ EventsSettle
  /\ scene # "outbox" => E!MessagesSettle
  /\ scene = "joined" => \A e \in {x \in Event : MessageOf[x] # None} : NoticeIsMailed(e)
===============================================================================
