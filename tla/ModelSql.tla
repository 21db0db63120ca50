------------------------------ MODULE ModelSql ------------------------------
(***************************************************************************)
(* The SQLite database of TravelMe (Model/ModelSql.swift).                 *)
(*                                                                         *)
(* The POSTS table is a function from post ids to the content stored under *)
(* that primary key.  Contents are told apart by the number of the server  *)
(* commit that wrote them; NoRow says that the table has no such row.  The *)
(* LAST_UPADATE_DATE table is the date stored under "POSTS", 0 for none.   *)
(*                                                                         *)
(* setLastUpdate, getLastUpdateDate and delete bind a Swift String with a  *)
(* nil destructor: SQLite keeps the pointer, and the buffer Swift made for *)
(* the call is freed before sqlite3_step reads it.  What the statement     *)
(* sees is then undefined: either the intended text, because nothing has   *)
(* reused the memory yet, or a text that names no row of interest.  Each   *)
(* of the three operators is therefore the SET of its possible results.    *)
(* addPost binds arrays that are variables of its scope; they are taken to *)
(* live until the end of it, as in an unoptimised build.                   *)
(***************************************************************************)
EXTENDS Naturals

NoRow == 0

(* Faulty variants, named for the fault; the properties must reject them. *)
addPostOrIgnore(rows, id, content) ==
  [rows EXCEPT ![id] = IF @ = NoRow THEN content ELSE @]

getLastUpdateDateOffByOne(stored) == {0, stored + 1}

ListedUnfiltered(rows, postSet) == rows

SweptInverted(rows, postSet) ==
  {[p \in DOMAIN rows |-> IF p \in postSet THEN NoRow ELSE rows[p]]}

(* INSERT OR REPLACE INTO POSTS: the row is written, whatever was there. *)
addPost(rows, id, content) == [rows EXCEPT ![id] = content]

(* DELETE FROM POSTS where POSTKY = ?, which may miss the row. *)
delete(rows, id) == {rows, [rows EXCEPT ![id] = NoRow]}

(* INSERT OR REPLACE INTO LAST_UPADATE_DATE: the date, or, written under   *)
(* another name, the date that was there before.                           *)
setLastUpdate(stored, date) == {stored, date}

(* SELECT ... where NAME like ?: the stored date, or 0 when no name fits.  *)
getLastUpdateDate(stored) == {0, stored}

(***************************************************************************)
(* getAllPosts steps through every row.  A row whose id is not in          *)
(* Post.postSet is deleted and left out of the list, wherever the delete   *)
(* misses too: Listed is what it returns, Swept the tables it may leave.   *)
(***************************************************************************)
Listed(rows, postSet) ==
  [p \in DOMAIN rows |-> IF p \in postSet THEN rows[p] ELSE NoRow]

Swept(rows, postSet) ==
  {[p \in DOMAIN rows |->
       IF p \in postSet \cup missed THEN rows[p] ELSE NoRow] :
     missed \in SUBSET DOMAIN rows}
=============================================================================
