-------------------------- MODULE KnowledgeReview --------------------------
(***************************************************************************)
(* Knowledge items and their review: BusinessDataService in                *)
(* app/tenants/business_service.py, behind app/api/v1/knowledge.py.  Items *)
(* that are APPROVED or ACTIVE are what agents and the message router tell *)
(* customers.  Rows are read without a lock and written column by column.  *)
(***************************************************************************)
EXTENDS Integers, FiniteSets

CONSTANTS
  Sessions,
  Items,       \* knowledge items that may be created
  Contents,    \* what title, content and category may say
  MaxVersion,  \* bound on the edits of one item
  None

VALID_KNOWLEDGE_TRANSITIONS == [
  DRAFT      |-> {"VALIDATING", "ARCHIVED"},
  VALIDATING |-> {"DRAFT", "ARCHIVED"},
  APPROVED   |-> {"ACTIVE", "OUTDATED", "ARCHIVED", "DRAFT"},
  ACTIVE     |-> {"OUTDATED", "ARCHIVED", "DRAFT"},
  OUTDATED   |-> {"ACTIVE", "ARCHIVED", "DRAFT"},
  ARCHIVED   |-> {"DRAFT"} ]

Setting == None \notin Items

KnowledgeStatus == DOMAIN VALID_KNOWLEDGE_TRANSITIONS
Told == {"APPROVED", "ACTIVE"}     \* list_active_and_approved, search_active_knowledge

ValidKnowledgeMove(from, to) == from = to \/ to \in VALID_KNOWLEDGE_TRANSITIONS[from]
-----------------------------------------------------------------------------
VARIABLES
  item,       \* knowledge_items rows
  tx,         \* the row a session has read
  approvals   \* approvals rows: what was approved, of which item

vars == <<item, tx, approvals>>

NoApproval == [item |-> None, content |-> None]
Approval   == [item : Items, content : Contents]
ItemRow == [status : {"NONE"} \cup KnowledgeStatus, content : Contents \cup {None},
            version : Nat, approval : Approval \cup {NoApproval}]
SessionRow == [item : Items \cup {None}, copy : ItemRow]

Absent == [status |-> "NONE", content |-> None, version |-> 0, approval |-> NoApproval]
Idle   == [item |-> None, copy |-> Absent]

Init ==
  /\ item = [i \in Items |-> Absent]
  /\ tx = [s \in Sessions |-> Idle]
  /\ approvals = {}
-----------------------------------------------------------------------------
Leave(s) == tx' = [tx EXCEPT ![s] = Idle]

(* The flush writes the columns of new that differ from the session's copy. *)
Flush(db, copy, new) == [c \in DOMAIN db |-> IF new[c] # copy[c] THEN new[c] ELSE db[c]]

Save(s, new) ==
  /\ item' = [item EXCEPT ![tx[s].item] = Flush(@, tx[s].copy, new)]
  /\ Leave(s)

(* Whatever status is asked for, an item is created as a draft. *)
CreateItem(i, content) ==
  /\ item[i].status = "NONE"
  /\ item' = [item EXCEPT ![i] = [Absent EXCEPT !.status = "DRAFT", !.content = content, !.version = 1]]
  /\ UNCHANGED <<tx, approvals>>

ReadItem(s, i) ==
  /\ tx[s].item = None
  /\ item[i].status # "NONE"
  /\ tx' = [tx EXCEPT ![s] = [item |-> i, copy |-> item[i]]]
  /\ UNCHANGED <<item, approvals>>

GrantRefused(copy, status) == status \in Told /\ copy.status \in {"DRAFT", "VALIDATING"}

(* The item as update_knowledge_item changes it: a change of the content     *)
(* counts a version and sends an approved item back to DRAFT.                *)
Edited_KeepsActive(copy, content, status) ==
  LET changed == content # copy.content
      reset   == changed /\ copy.status = "APPROVED"
  IN [status   |-> IF reset THEN "DRAFT" ELSE status,
      content  |-> content,
      version  |-> IF changed THEN copy.version + 1 ELSE copy.version,
      approval |-> IF reset THEN NoApproval ELSE copy.approval]

Edited(copy, content, status) ==
  LET changed == content # copy.content
      reset   == changed /\ copy.status \in Told
  IN [status   |-> IF reset THEN "DRAFT" ELSE status,
      content  |-> content,
      version  |-> IF changed THEN copy.version + 1 ELSE copy.version,
      approval |-> IF reset THEN NoApproval ELSE copy.approval]

UpdateItem(s, content, status) ==
  LET copy == tx[s].copy
      new  == Edited(copy, content, status)
  IN
  /\ tx[s].item # None
  /\ new.version <= MaxVersion
  /\ IF GrantRefused(copy, status) \/ ~ ValidKnowledgeMove(copy.status, new.status)
     THEN Leave(s) /\ UNCHANGED item
     ELSE Save(s, new)
  /\ UNCHANGED approvals

(* approve_knowledge_item records what the approver was shown. *)
ApproveItem(s) ==
  LET copy == tx[s].copy
      a    == [item |-> tx[s].item, content |-> copy.content]
  IN
  /\ tx[s].item # None
  /\ copy.status \in {"DRAFT", "VALIDATING"}
  /\ approvals' = approvals \cup {a}
  /\ item' = [item EXCEPT ![a.item].status = "APPROVED", ![a.item].approval = a]
  /\ Leave(s)

ArchiveItem(s) ==
  /\ tx[s].item # None
  /\ ValidKnowledgeMove(tx[s].copy.status, "ARCHIVED")
  /\ Save(s, [tx[s].copy EXCEPT !.status = "ARCHIVED"])
  /\ UNCHANGED approvals

(* Refused, or the connection is lost. *)
Drop(s) == tx[s].item # None /\ Leave(s) /\ UNCHANGED <<item, approvals>>
-----------------------------------------------------------------------------
Quiet == (\A s \in Sessions : tx[s].item = None) /\ UNCHANGED vars

Next ==
  \/ \E i \in Items, content \in Contents : CreateItem(i, content)
  \/ \E s \in Sessions, i \in Items : ReadItem(s, i)
  \/ \E s \in Sessions, content \in Contents, status \in KnowledgeStatus : UpdateItem(s, content, status)
  \/ \E s \in Sessions : ApproveItem(s) \/ ArchiveItem(s) \/ Drop(s)
  \/ Quiet

Spec == Init /\ [][Next]_vars
-----------------------------------------------------------------------------
(* Every variable keeps its type.                                            *)
TypeOK ==
  /\ item \in [Items -> ItemRow]
  /\ tx \in [Sessions -> SessionRow]
  /\ approvals \subseteq Approval

(* What an item says that is told, or was, is what its approval was for.     *)
Reviewed(i) ==
  item[i].status \in Told \cup {"OUTDATED"} =>
    item[i].approval = [item |-> i, content |-> item[i].content]

(* "Content change MUST reset status to DRAFT and clear approval_id": a       *)
(* request that finds the item as it has read it, whatever other requests    *)
(* made of it before, never lets customers hear what was not approved.  The   *)
(* exception is an OUTDATED item, whose content update_knowledge_item changes *)
(* without a new review.                                                     *)
OnlyReviewedIsTold ==
  [][\A s \in Sessions, i \in Items :
       /\ tx[s].item = i /\ tx'[s].item = None
       /\ tx[s].copy = item[i] /\ Reviewed(i)
       /\ item[i].status = "OUTDATED" => item'[i].content = item[i].content
       => Reviewed(i)']_vars

(* The same of every request, also of those that overlap: what is told was   *)
(* approved, at some time, as it reads.                                      *)
ToldIsReviewed ==
  \A i \in Items :
    item[i].status \in Told => [item |-> i, content |-> item[i].content] \in approvals
=============================================================================
