------------------------------ MODULE AgentMail ------------------------------
(***************************************************************************)
(* A2ARouter (src/mcp/a2a.py), the mailboxes through which agents write to *)
(* each other (send_a2a, receive_a2a of src/agents/base.py).  A mailbox is *)
(* a key of a dict: it is made by the first direct message and vanishes    *)
(* with receive(), and a broadcast goes to the mailboxes there are.        *)
(***************************************************************************)
EXTENDS Naturals, Sequences, SequencesExt

CONSTANTS
  Roles,
  MaxMessages   \* bound on the messages since the last clear() of everything

ASSUME AgentMailAssumption == MaxMessages \in Nat /\ "all" \notin Roles

VARIABLES
  mailboxes,    \* _mailboxes: numbers of messages
  mailHistory,  \* _history: the message of each number
  readUpTo      \* history: the messages there had been when each agent last received
                \* or was cleared

mailVars == <<mailboxes, mailHistory, readUpTo>>

Mail == [from : Roles, to : Roles \cup {"all"}]

MailTypeOK ==
  /\ mailHistory \in Seq(Mail) /\ Len(mailHistory) <= MaxMessages
  /\ DOMAIN mailboxes \subseteq Roles
  /\ \A a \in DOMAIN mailboxes : mailboxes[a] \in Seq(DOMAIN mailHistory)
  /\ readUpTo \in [Roles -> 0 .. Len(mailHistory)]

NoMail == [a \in {} |-> <<>>]
MailInit ==
  /\ mailboxes = NoMail /\ mailHistory = <<>> /\ readUpTo = [a \in Roles |-> 0]

Put(n, receivers) ==
  mailboxes' = [a \in DOMAIN mailboxes \cup receivers |->
                  IF a \notin receivers THEN mailboxes[a]
                  ELSE IF a \in DOMAIN mailboxes THEN Append(mailboxes[a], n) ELSE <<n>>]

Without(a) == mailboxes' = [b \in DOMAIN mailboxes \ {a} |-> mailboxes[b]]
ReadNow(a) == readUpTo' = [readUpTo EXCEPT ![a] = Len(mailHistory)]

SendMail(from, to) ==
  /\ Len(mailHistory) < MaxMessages
  /\ mailHistory' = Append(mailHistory, [from |-> from, to |-> to])
  /\ Put(Len(mailHistory) + 1, IF to = "all" THEN DOMAIN mailboxes \ {from} ELSE {to})
  /\ UNCHANGED readUpTo

\* receive(), and clear() of one agent.
ReceiveMail(a) == Without(a) /\ ReadNow(a) /\ UNCHANGED mailHistory

ClearMail ==
  /\ mailHistory # <<>>
  /\ mailboxes' = NoMail /\ mailHistory' = <<>> /\ readUpTo' = [a \in Roles |-> 0]

MailNext ==
  \/ \E from \in Roles, to \in Roles \cup {"all"} : SendMail(from, to)
  \/ \E a \in Roles : ReceiveMail(a)
  \/ ClearMail

MailSpec == MailInit /\ [][MailNext]_mailVars
-----------------------------------------------------------------------------
\* The messages an agent has not read, as the history shows them: since it last
\* received, from the first one addressed to it on, those addressed to it and the
\* broadcasts of others.
Unread(a) ==
  LET later == (readUpTo[a] + 1) .. Len(mailHistory)
      direct == {n \in later : mailHistory[n].to = a}
  IN  {n \in later :
         \/ n \in direct
         \/ /\ mailHistory[n].to = "all" /\ mailHistory[n].from # a
            /\ \E d \in direct : d < n}

\* A mailbox holds what its agent has not read, each message once and in the order they
\* were sent; a broadcast misses whoever has nothing waiting (a2a.py:72, 90).
MailboxIsUnread ==
  \A a \in Roles :
    LET box == IF a \in DOMAIN mailboxes THEN mailboxes[a] ELSE <<>> IN
    /\ Range(box) = Unread(a)
    /\ \A i, j \in DOMAIN box : i < j => box[i] < box[j]
=============================================================================
