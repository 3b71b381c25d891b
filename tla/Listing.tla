------------------------------- MODULE Listing -------------------------------
(***************************************************************************)
(* What every listing ends with: the conditions of the query are applied,  *)
(* the records are sorted and a page of them is cut out.  A query (the     *)
(* FilterModel of the code) is a record                                    *)
(*   page, limit   the page and its size                                   *)
(*   skip          whether the whole list is wanted                        *)
(*   cond          the conditions: a function from names of fields         *)
(*   sort          "none", "asc" or "desc"                                 *)
(***************************************************************************)
EXTENDS Naturals, Sequences, FiniteSets

CONSTANT DefaultLimit   \* the size of a page when the query names none

ASSUME LimitAssumption == DefaultLimit \in Nat \ {0}

(* The constructor: what is not given, or 0, keeps its default.            *)
FilterModel(page, limit, skip, cond, sort) ==
  [page |-> IF page > 0 THEN page ELSE 1,
   limit |-> IF limit > 0 THEN limit ELSE DefaultLimit,
   skip |-> skip, cond |-> cond, sort |-> sort]

(* The conditions on other fields than these are not looked at.            *)
Satisfies(v, q, fields) == \A f \in fields \cap DOMAIN q.cond : v[f] = q.cond[f]

(* Array.filter: the records at some places of a list, in its order.       *)
Kept(list, places) ==
  LET ahead == [i \in places |-> Cardinality(places \cap 1 .. i - 1)]
  IN  [k \in 1 .. Cardinality(places) |-> list[CHOOSE i \in places : ahead[i] = k - 1]]

(* A stable sort by a field of the records that holds a number.            *)
SortListObject(list, q, key) ==
  LET Before(i, j) ==
        \/ q.sort = "asc" /\ list[i][key] < list[j][key]
        \/ q.sort = "desc" /\ list[i][key] > list[j][key]
        \/ (q.sort = "none" \/ list[i][key] = list[j][key]) /\ i < j
      Rank(i) == Cardinality({j \in DOMAIN list : Before(j, i)}) + 1
  IN  [k \in DOMAIN list |-> list[CHOOSE i \in DOMAIN list : Rank(i) = k]]

(* Array.slice: past the end there is nothing.                             *)
Slice(list, page, limit) ==
  SubSeq(list, (page - 1) * limit + 1,
         IF page * limit < Len(list) THEN page * limit ELSE Len(list))

Paged(list, q) ==
  [list |-> IF q.skip THEN list ELSE Slice(list, q.page, q.limit), total |-> Len(list)]

FilterAndSortVpnProvider(list, q) ==
  LET fields == {"providerIdentity", "isRegister", "proxyCount"}
  IN  Paged(Kept(list, {i \in DOMAIN list : Satisfies(list[i], q, fields)}), q)

(* A proxy has one downstream, whose status is a field of it here.         *)
FilterAndSortProxyUpstream(list, q) ==
  Paged(Kept(list, {i \in DOMAIN list : Satisfies(list[i], q, {"listenPort", "status"})}), q)

FilterAndSortRunner(list, q) == Paged(list, q)

(* The port stands for the date: proxies are created on growing ports.     *)
FilterAndSortUsersProxy(list, q) == Paged(SortListObject(list, q, "listenPort"), q)

(* The pages of a listing, one after the other, for a size of the page.    *)
Pages(Answer(_), limit, cond, sort, count) ==
  LET Nth(k) == Answer(FilterModel(k, limit, FALSE, cond, sort)).list
      upto[k \in 0 .. count] == IF k = 0 THEN <<>> ELSE upto[k - 1] \o Nth(k)
  IN  upto[count]
=============================================================================
