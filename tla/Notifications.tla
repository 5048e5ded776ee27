--------------------------- MODULE Notifications ---------------------------
(***************************************************************************)
(* The worker's e-mail and SMS notices (apps/worker/src/notifications).    *)
(*                                                                         *)
(* A step ends where the code awaits; the database may refuse any of its   *)
(* statements.  A template is what matters of its text: the placeholders.  *)
(* E-mail has no sending step in the code.                                 *)
(***************************************************************************)
EXTENDS Integers

CONSTANTS
  Notice,       \* calls of sendEmailNotification and sendSmsNotification
  Sms,          \* those of the latter
  Offer,        \* suggestions: useCase, and whether the payload names a student
  Contact,      \* what FSP knows of students: mail (whether there is one), optIn, phone
  OwnTemplates, \* the operator's: a function on the keys it has templates for
  Size          \* lengths a rendered SMS may have

ASSUME NoticeAssumption == Size \subseteq Nat

VARIABLES
  notice,         \* per call: the step it is at, or how it ended
  message,        \* per call: what it has of its message
  rows,           \* communications: how many rows of each call and status
  noticeAudits,   \* audit entries "notification.sent"
  delivered,      \* what the SMS provider took: call, number and text
  dbRefused       \* history: calls one of whose statements was refused

noticeRest == <<rows, noticeAudits, delivered>>
noticeVars == <<notice, message, noticeRest, dbRefused>>

Over == {"succeeded", "failed", "skipped", "threw"}
Status == {"SENT", "FAILED"}

\* The number it goes to (none for an e-mail), the kind of text, and of the
\* rendered text the placeholders left in it and its length.
NoNumber == [plus |-> FALSE, clean |-> FALSE, first |-> 0, digits |-> 0]
NoMessage == [to |-> NoNumber, type |-> "none", left |-> {}, size |-> 0]
Addressed(to, type) == [to |-> to, type |-> type, left |-> {}, size |-> 0]

NoticeInit ==
  /\ notice = [n \in Notice |-> "start"]
  /\ message = [n \in Notice |-> NoMessage]
  /\ rows = [n \in Notice |-> [s \in Status |-> 0]]
  /\ noticeAudits = {} /\ delivered = {} /\ dbRefused = {}

Go(n, step) == notice' = [notice EXCEPT ![n] = step]

\* The call goes on with, or without, what it has of a message.
GoWith(n, step, m) == Go(n, step) /\ message' = [message EXCEPT ![n] = m]
GoWithout(n, step) == GoWith(n, step, NoMessage)

-----------------------------------------------------------------------------
(* Addresses and texts                                                     *)

\* A telephone number as it was typed: whether it begins with +, has anything
\* but digits after that, its first digit and how many there are.
E164(phone) ==
  phone.plus /\ phone.clean /\ phone.first # 0 /\ phone.digits \in 7 .. 15

\* Digits alone, with the country code of the United States before ten of
\* them, if that is a number: a set of one, or of none.
NormaliseToE164(phone) ==
  LET bare == [phone EXCEPT !.plus = TRUE, !.clean = TRUE]
      candidate == IF phone.digits = 10 THEN [bare EXCEPT !.first = 1, !.digits = 11] ELSE bare
  IN  IF E164(phone) THEN {phone} ELSE {p \in {candidate} : E164(p)}

\* getNotificationType, alike for both channels.
NotificationType(useCase) ==
  IF useCase = "RESCHEDULE" THEN "rescheduleOffer"
  ELSE IF useCase = "DISCOVERY" THEN "discoveryConfirmation"
  ELSE "waitlistOffer"

\* The placeholders of the texts of an e-mail.
DefaultTemplate(type) ==
  {"studentName", "slotDate", "slotStart", "slotEnd", "instructorName", "aircraftTailNumber"}
    \cup IF type = "rescheduleOffer" THEN {} ELSE {"locationName"}

DefaultSmsTemplate(type) == {"studentName", "slotDate"}

\* resolveTemplate: the operator's own goes before the default one.
Template(n, type) ==
  IF type \in DOMAIN OwnTemplates THEN OwnTemplates[type]
  ELSE IF n \in Sms THEN DefaultSmsTemplate(type) ELSE DefaultTemplate(type)

\* Every variable has a value, if an empty one; an SMS has no location.
Variables(n) ==
  DefaultTemplate("waitlistOffer") \ IF n \in Sms THEN {"locationName"} ELSE {}

\* render: what is no variable stays in the text.
LeftIn(n, holes) == holes \ Variables(n)

\* Cut to 157 characters and an ellipsis.
Truncated(size) == IF size > 160 THEN 157 + 3 ELSE size

-----------------------------------------------------------------------------
(* The two services                                                        *)

\* FSP is asked for the student, unless the payload names none, or does not
\* answer; then the failure is recorded, as it is for one without an address.
FetchForEmail(n) ==
  /\ notice[n] = "start" /\ n \notin Sms
  /\ \E o \in Offer, c \in Contact :
       \/ /\ o.named /\ c.mail
          /\ GoWith(n, "template", Addressed(NoNumber, NotificationType(o.useCase)))
       \/ GoWithout(n, "failing")
  /\ UNCHANGED <<noticeRest, dbRefused>>

\* The same; who did not opt in is skipped without a record.
FetchForSms(n) ==
  /\ notice[n] = "start" /\ n \in Sms
  /\ \E o \in Offer, c \in Contact :
       LET numbers == NormaliseToE164(c.phone) IN
       \/ GoWithout(n, "failing")
       \/ /\ o.named
          /\ IF ~c.optIn THEN GoWithout(n, "skipped")
             ELSE \/ numbers = {} /\ GoWithout(n, "failing")
                  \/ \E p \in numbers :
                       GoWith(n, "template", Addressed(p, NotificationType(o.useCase)))
  /\ UNCHANGED <<noticeRest, dbRefused>>

\* Nothing says that an operator's template is a text: what has no replace
\* method throws.
Render(n) ==
  LET m == message[n] IN
  /\ notice[n] = "template"
  /\ \/ \E size \in Size :
          GoWith(n, IF n \in Sms THEN "send" ELSE "record",
                 [to |-> m.to, type |-> m.type, left |-> LeftIn(n, Template(n, m.type)),
                  size |-> IF n \in Sms THEN Truncated(size) ELSE size])
     \/ m.type \in DOMAIN OwnTemplates /\ GoWithout(n, "caught")
  /\ UNCHANGED <<noticeRest, dbRefused>>

\* sendSms of the provider, which never throws.
SendSms(n) ==
  /\ notice[n] = "send"
  /\ \/ GoWith(n, "record", message[n]) /\ delivered' = delivered \cup {[call |-> n, message |-> message[n]]}
     \/ GoWithout(n, "failing") /\ delivered' = delivered
  /\ UNCHANGED <<rows, noticeAudits, dbRefused>>

AddRow(n, status) == rows' = [rows EXCEPT ![n][status] = @ + 1]

RecordSent(n) ==
  /\ notice[n] = "record"
  /\ AddRow(n, "SENT")
  /\ GoWithout(n, "audit")
  /\ UNCHANGED <<noticeAudits, delivered, dbRefused>>

WriteNoticeAudit(n) ==
  /\ notice[n] = "audit"
  /\ noticeAudits' = noticeAudits \cup {n}
  /\ GoWithout(n, "succeeded")
  /\ UNCHANGED <<rows, delivered, dbRefused>>

\* Mutation: a failure found early is returned without a record.
FailWithoutRow(n) ==
  /\ notice[n] \in {"failing", "caught"}
  /\ rows' = rows
  /\ GoWithout(n, "failed")
  /\ UNCHANGED <<noticeAudits, delivered, dbRefused>>

\* handleFailure, recordFailure.
RecordFailure(n) ==
  /\ notice[n] \in {"failing", "caught"}
  /\ AddRow(n, "FAILED")
  /\ GoWithout(n, "failed")
  /\ UNCHANGED <<noticeAudits, delivered, dbRefused>>

\* Where the call goes on when a statement is refused.  Inside the try block
\* the catch clause records the failure; the failure records that are
\* returned from within it are not awaited there, so their own refusal
\* reaches the caller.
AfterRefusal(step) ==
  IF step \in {"template", "record", "audit"} THEN "caught"
  ELSE IF step = "caught" THEN "failed" ELSE "threw"

DatabaseRefuses(n) ==
  /\ notice[n] \in {"template", "record", "audit", "failing", "caught"}
  /\ GoWithout(n, AfterRefusal(notice[n]))
  /\ dbRefused' = dbRefused \cup {n}
  /\ UNCHANGED noticeRest

NoticeNext ==
  \E n \in Notice :
    \/ FetchForEmail(n) \/ FetchForSms(n) \/ Render(n) \/ SendSms(n) \/ RecordSent(n)
    \/ WriteNoticeAudit(n) \/ RecordFailure(n) \/ DatabaseRefuses(n)

NoticeSpec == NoticeInit /\ [][NoticeNext]_noticeVars

-----------------------------------------------------------------------------
(* What is true of it                                                      *)

RowsOf(n) == rows[n]["SENT"] + rows[n]["FAILED"]

NoticeTypeOK ==
  /\ notice \in [Notice -> Over \cup
       {"start", "template", "send", "record", "audit", "failing", "caught"}]
  /\ rows \in [Notice -> [Status -> Nat]]
  /\ \A n \in Notice : message[n] = NoMessage <=> notice[n] \notin {"template", "send", "record"}
  /\ noticeAudits \subseteq Notice /\ {d.call : d \in delivered} \subseteq Sms
  /\ dbRefused \subseteq Notice

\* What a call answers, what the table says and what was sent agree: success
\* is answered for a SENT row with its audit entry, a SENT row of an SMS is
\* one the provider took, and a call no statement of which was refused leaves
\* exactly one row, unless the student did not opt in.  (A refusal may leave
\* none, or a FAILED row for an SMS that was sent.)  A call throws only when
\* the database refused the record of its failure.  And the provider is asked
\* once a call at most, for an E.164 number, with no more than 160 characters
\* in which a default template leaves no placeholder.
RecordsAreHonest ==
  \A n \in Notice :
    /\ notice[n] = "succeeded" =>
         /\ n \in noticeAudits /\ RowsOf(n) = 1
         /\ rows[n]["SENT"] = 1
    /\ n \in Sms /\ rows[n]["SENT"] > 0 =>
         \E d \in delivered : d.call = n
    /\ notice[n] \in Over /\ n \notin dbRefused =>
         RowsOf(n) = (IF notice[n] = "skipped" THEN 0 ELSE 1)
    /\ notice[n] = "threw" => n \in dbRefused /\ RowsOf(n) = 0
    /\ \A d, e \in delivered : d.call = e.call => d = e
    /\ \A d \in delivered :
         LET m == d.message IN
         /\ E164(m.to) /\ m.size <= 160
         /\ m.type \notin DOMAIN OwnTemplates => m.left = {}
=============================================================================
