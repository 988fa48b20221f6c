------------------------------ MODULE MenuProofs ------------------------------
(***************************************************************************)
(* Proofs about the menu, for any number of categories, items, pictures    *)
(* and managers.  An item's picture is shared with no other because every  *)
(* picture has one home: the item that shows it, or the one that a form or *)
(* a request is about to give it to.                                       *)
(***************************************************************************)
EXTENDS MenuBook, TLAPS

LEMMA MenuStart == MenuInit => MenuInv
<1> SUFFICES ASSUME MenuInit PROVE MenuInv
  OBVIOUS
<1>1. /\ \A p \in Callers : request[p] = NoCall /\ request[p].at = "idle"
      /\ \A p \in Pages : task[p] = NoCall /\ task[p].at = "idle" /\ itemForm[p] = Closed
      /\ \A i \in Items : ~ Has(i)
  BY DEF MenuInit, NoCall, Has
<1>2. MenuTypeOK
  BY <1>1 DEF MenuInit, MenuTypeOK, ItemRows, Forms, RequestRows, TaskRows
<1>3. NamesDiffer /\ RequestsStand /\ MenuErrorsAreRaces
  BY <1>1 DEF MenuInit, NamesDiffer, RequestsStand, MenuErrorsAreRaces
<1>4. PicturesHaveOneHome
  BY <1>1, MenuAssumption DEF PicturesHaveOneHome, HomesOf
<1> QED
  BY <1>2, <1>3, <1>4 DEF MenuInv

\* The fields of the rows.
LEMMA RowFields ==
  ASSUME MenuTypeOK
  PROVE  /\ \A i \in Items : Has(i) => /\ item[i] \in [cat : Categories, avail : BOOLEAN, image : Image]
                                       /\ item[i].cat \in Categories /\ item[i].avail \in BOOLEAN
                                       /\ item[i].image \in Image
         /\ \A p \in Pages : itemForm[p] # Closed => /\ itemForm[p].on \in Items \cup {"new"}
                                                     /\ itemForm[p].image \in Image
         /\ \A p \in Pages : task[p] # NoCall => /\ task[p].at \in {"upload", "removal"}
                                                 /\ task[p].image \in Images
BY DEF MenuTypeOK, ItemRows, Forms, TaskRows, Has

LEMMA RequestFields ==
  ASSUME MenuTypeOK, NEW p \in Callers
  PROVE  /\ request[p].at \in {"idle", "category", "uncategory", "save", "toggle", "remove"}
         /\ request[p].at = "idle" <=> request[p] = NoCall
         /\ request[p].at # "idle" => request[p].raced \in BOOLEAN
         /\ request[p].at \in {"category", "uncategory"} =>
              /\ request[p] \in [at : {"category", "uncategory"}, on : Categories,
                                 name : Names \cup {"none"}, new : BOOLEAN, raced : BOOLEAN]
              /\ request[p].on \in Categories /\ request[p].name \in Names \cup {"none"}
              /\ request[p].new \in BOOLEAN
         /\ request[p].at = "save" =>
              /\ request[p] \in [at : {"save"}, on : Items \cup {"new"}, cat : Categories,
                                 avail : BOOLEAN, image : Image, raced : BOOLEAN]
              /\ p \in Pages /\ request[p].on \in Items \cup {"new"}
              /\ request[p].cat \in Categories /\ request[p].avail \in BOOLEAN
              /\ request[p].image \in Image
         /\ request[p].at = "toggle" =>
              /\ request[p] \in [at : {"toggle"}, on : Items, avail : BOOLEAN, raced : BOOLEAN]
              /\ request[p].on \in Items /\ request[p].avail \in BOOLEAN
         /\ request[p].at = "remove" =>
              /\ request[p] \in [at : {"remove"}, on : Items, raced : BOOLEAN]
              /\ request[p].on \in Items
<1>1. request[p] \in RequestRows /\ (p \notin Pages => request[p].at # "save")
  BY DEF MenuTypeOK
<1> QED
  BY <1>1 DEF RequestRows, NoCall

-----------------------------------------------------------------------------
\* Homes

LEMMA HomeIs ==
  ASSUME NEW g
  PROVE  /\ \A i \in Items : Has(i) /\ item[i].image = g => <<"item", i>> \in HomesOf(g)
         /\ \A p \in Pages : itemForm[p] # Closed /\ itemForm[p].image = g =>
              Home(p, itemForm[p].on) \in HomesOf(g)
         /\ \A p \in Pages : request[p].at = "save" /\ request[p].image = g =>
              Home(p, request[p].on) \in HomesOf(g)
BY DEF HomesOf

LEMMA HomesWithin ==
  ASSUME NEW g, NEW S,
         \A i \in Items : item'[i] # NoItem /\ item'[i].image = g => <<"item", i>> \in S,
         \A p \in Pages : itemForm'[p] # Closed /\ itemForm'[p].image = g =>
           Home(p, itemForm'[p].on) \in S,
         \A p \in Pages : request'[p].at = "save" /\ request'[p].image = g =>
           Home(p, request'[p].on) \in S
  PROVE  HomesOf(g)' \subseteq S
BY DEF HomesOf, Has

\* Where no picture gets a new home and no upload starts, homes stay single.
LEMMA HomesKept ==
  ASSUME PicturesHaveOneHome, lostAnswer => lostAnswer',
         lostAnswer' \/ \A g \in Images : HomesOf(g)' \subseteq HomesOf(g),
         \A p \in Pages : task'[p] = task[p] \/ task'[p].at = "idle"
  PROVE  PicturesHaveOneHome'
BY DEF PicturesHaveOneHome

-----------------------------------------------------------------------------
\* The checks of a request

LEMMA CheckKeeps ==
  ASSUME MenuInv, NEW p \in Callers, NEW r \in RequestRows, Check(p, r), Stands(r),
         r.at = "category" => r.name # "none", r.at = "uncategory" => r.name = "none",
         r.at = "save" => /\ p \in Pages /\ itemForm[p] # Closed
                          /\ r.on = itemForm[p].on /\ r.image = itemForm[p].image
  PROVE  MenuInv'
<1> USE DEF MenuInv
<1>1. /\ request' = [request EXCEPT ![p] = r]
      /\ UNCHANGED <<name, item, ordered, files, itemForm, task, lostAnswer, startled>>
  BY DEF Check, rowVars
<1>2. \A q \in Callers : request'[q] = IF q = p THEN r ELSE request[q]
  BY <1>1 DEF MenuTypeOK
<1>3. MenuTypeOK'
  BY <1>1, <1>2 DEF MenuTypeOK
<1>4. NamesDiffer' /\ MenuErrorsAreRaces'
  BY <1>1 DEF NamesDiffer, MenuErrorsAreRaces
<1>5. RequestsStand'
  BY <1>1, <1>2 DEF RequestsStand, Stands, Has, IsCategory
<1>6. ASSUME NEW g \in Images
      PROVE  HomesOf(g)' \subseteq HomesOf(g)
  <2>1. \A q \in Pages : q \in Callers
    BY MenuAssumption
  <2>2. /\ \A i \in Items : item'[i] # NoItem /\ item'[i].image = g => <<"item", i>> \in HomesOf(g)
        /\ \A q \in Pages : itemForm'[q] # Closed /\ itemForm'[q].image = g =>
             Home(q, itemForm'[q].on) \in HomesOf(g)
    BY <1>1, HomeIs DEF Has
  <2>3. ASSUME NEW q \in Pages, request'[q].at = "save", request'[q].image = g
        PROVE  Home(q, request'[q].on) \in HomesOf(g)
    <3>1. CASE q = p
      BY <1>2, <2>1, <2>3, <3>1, HomeIs
    <3>2. CASE q # p
      BY <1>2, <2>1, <2>3, <3>2, HomeIs
    <3> QED
      BY <3>1, <3>2
  <2> QED
    BY <2>2, <2>3, HomesWithin
<1>7. PicturesHaveOneHome'
  BY <1>1, <1>6, HomesKept
<1> QED
  BY <1>3, <1>4, <1>5, <1>7

LEMMA NameCategoryKeeps ==
  ASSUME MenuInv, NEW p \in Callers, NEW c \in Categories, NEW n \in Names,
         NameCategory(p, c, n)
  PROVE  MenuInv'
<1> DEFINE r == [at |-> "category", on |-> c, name |-> n, new |-> ~ IsCategory(c), raced |-> FALSE]
<1>1. (n # name[c] => \A d \in Categories : name[d] # n) /\ Check(p, r)
  BY DEF NameCategory
<1>2. (~ IsCategory(c)) \in BOOLEAN
  BY DEF IsCategory
<1>3. r \in RequestRows
  BY <1>2 DEF RequestRows
<1>4. n # "none" /\ \A d \in Categories \ {c} : name[d] # n
  BY <1>1, MenuAssumption DEF MenuInv, NamesDiffer
<1>5. r.at = "category" /\ r.on = c /\ r.name = n /\ (r.new <=> ~ IsCategory(c))
  OBVIOUS
<1> HIDE DEF r
<1>6. Stands(r)
  BY <1>4, <1>5 DEF Stands
<1> QED
  BY <1>1, <1>3, <1>4, <1>5, <1>6, CheckKeeps

LEMMA RemoveCategoryKeeps ==
  ASSUME MenuInv, NEW p \in Callers, NEW c \in Categories, RemoveCategory(p, c)
  PROVE  MenuInv'
<1> DEFINE r == [at |-> "uncategory", on |-> c, name |-> "none", new |-> FALSE, raced |-> FALSE]
<1>1. IsCategory(c) /\ (\A i \in Items : item[i].cat # c) /\ Check(p, r)
  BY DEF RemoveCategory
<1>2. r \in RequestRows /\ r.at = "uncategory" /\ r.on = c /\ r.name = "none" /\ ~ r.new
  BY DEF RequestRows
<1> HIDE DEF r
<1>3. Stands(r)
  BY <1>1, <1>2 DEF Stands
<1> QED
  BY <1>1, <1>2, <1>3, CheckKeeps

LEMMA SubmitFormKeeps ==
  ASSUME MenuInv, NEW p \in Pages, NEW c \in Categories, NEW v \in BOOLEAN, SubmitForm(p, c, v)
  PROVE  MenuInv'
<1> DEFINE r == Payload(p, c, v)
<1>1. /\ itemForm[p] # Closed /\ IsCategory(c) /\ Check(p, r)
      /\ itemForm[p].on # "new" => Has(itemForm[p].on)
  BY DEF SubmitForm
<1>2. itemForm[p].on \in Items \cup {"new"} /\ itemForm[p].image \in Image
  BY <1>1, RowFields DEF MenuInv
<1>3. /\ r \in RequestRows /\ r.at = "save" /\ r.on = itemForm[p].on /\ r.cat = c
      /\ r.image = itemForm[p].image
  BY <1>2 DEF RequestRows, Payload
<1> HIDE DEF r
<1>4. Stands(r) /\ p \in Callers
  BY <1>1, <1>3, MenuAssumption DEF Stands
<1> QED
  BY <1>1, <1>3, <1>4, CheckKeeps

LEMMA ToggleItemKeeps ==
  ASSUME MenuInv, NEW p \in Callers, NEW i \in Items, ToggleItem(p, i)
  PROVE  MenuInv'
<1> DEFINE r == [at |-> "toggle", on |-> i, avail |-> ~ item[i].avail, raced |-> FALSE]
<1>1. Has(i) /\ Check(p, r)
  BY DEF ToggleItem
<1>2. r \in RequestRows /\ r.at = "toggle" /\ r.on = i
  BY DEF RequestRows
<1> HIDE DEF r
<1>3. Stands(r)
  BY <1>1, <1>2 DEF Stands
<1> QED
  BY <1>1, <1>2, <1>3, CheckKeeps

LEMMA RemoveItemKeeps ==
  ASSUME MenuInv, NEW p \in Callers, NEW i \in Items, RemoveItem(p, i)
  PROVE  MenuInv'
<1> DEFINE r == [at |-> "remove", on |-> i, raced |-> FALSE]
<1>1. Has(i) /\ ordered[i] # "active" /\ Check(p, r)
  BY DEF RemoveItem
<1>2. r \in RequestRows /\ r.at = "remove" /\ r.on = i
  BY DEF RequestRows
<1> HIDE DEF r
<1>3. Stands(r)
  BY <1>1, <1>2 DEF Stands
<1> QED
  BY <1>1, <1>2, <1>3, CheckKeeps

-----------------------------------------------------------------------------
\* The writes

\* A request that is overtaken changes in that alone.
LEMMA LateRow ==
  ASSUME MenuTypeOK, NEW q \in Callers, request[q] # NoCall
  PROVE  LET late == [request[q] EXCEPT !.raced = TRUE] IN
         /\ late \in RequestRows /\ late.at = request[q].at /\ late.raced = TRUE
         /\ request[q].at \in {"category", "uncategory"} => late.name = request[q].name
         /\ request[q].at = "save" => late.on = request[q].on /\ late.image = request[q].image
<1> DEFINE late == [request[q] EXCEPT !.raced = TRUE]
<1>1. request[q].at \in {"category", "uncategory", "save", "toggle", "remove"}
  BY RequestFields
<1>2. CASE request[q].at \in {"category", "uncategory"}
  BY <1>2, RequestFields DEF RequestRows
<1>3. CASE request[q].at = "save"
  BY <1>3, RequestFields DEF RequestRows
<1>4. CASE request[q].at = "toggle"
  BY <1>4, RequestFields DEF RequestRows
<1>5. CASE request[q].at = "remove"
  BY <1>5, RequestFields DEF RequestRows
<1> QED
  BY <1>1, <1>2, <1>3, <1>4, <1>5

\* The requests when some are overtaken and that of Done, if any, has ended.
LEMMA RequestsAfter ==
  ASSUME MenuInv, NEW Done \in SUBSET Callers, NEW Late \in SUBSET Callers,
         \A q \in Late : request[q] # NoCall,
         request' = [q \in Callers |-> IF q \in Done THEN NoCall
                                       ELSE IF q \in Late THEN [request[q] EXCEPT !.raced = TRUE]
                                       ELSE request[q]]
  PROVE  /\ request' \in [Callers -> RequestRows]
         /\ \A q \in Done : request'[q].at = "idle"
         /\ \A q \in Callers \ Done :
              /\ request'[q].at = request[q].at
              /\ request[q].at \in {"category", "uncategory"} => request'[q].name = request[q].name
              /\ request[q].at = "save" => /\ request'[q].on = request[q].on
                                           /\ request'[q].image = request[q].image
              /\ q \in Late => request'[q].raced = TRUE
              /\ q \notin Late => request'[q] = request[q]
         /\ \A q \in Callers : /\ request'[q].at = "category" => request'[q].name # "none"
                               /\ request'[q].at = "uncategory" => request'[q].name = "none"
<1>1. NoCall \in RequestRows /\ NoCall.at = "idle"
  BY DEF NoCall, RequestRows
<1>2. \A q \in Callers : request[q] \in RequestRows
  BY DEF MenuInv, MenuTypeOK
<1>3. \A q \in Late : LET late == [request[q] EXCEPT !.raced = TRUE] IN
        /\ late \in RequestRows /\ late.at = request[q].at /\ late.raced = TRUE
        /\ request[q].at \in {"category", "uncategory"} => late.name = request[q].name
        /\ request[q].at = "save" => late.on = request[q].on /\ late.image = request[q].image
  BY LateRow DEF MenuInv
<1>4. /\ \A q \in Done : request'[q] = NoCall
      /\ \A q \in Callers \ Done : q \notin Late => request'[q] = request[q]
      /\ \A q \in Late \ Done :
           /\ request'[q] \in RequestRows /\ request'[q].at = request[q].at /\ request'[q].raced = TRUE
           /\ request[q].at \in {"category", "uncategory"} => request'[q].name = request[q].name
           /\ request[q].at = "save" => /\ request'[q].on = request[q].on
                                        /\ request'[q].image = request[q].image
  BY <1>3
<1>5. \A q \in Callers : request'[q] \in RequestRows
  BY <1>1, <1>2, <1>4
<1>6. request' \in [Callers -> RequestRows]
  BY <1>5
<1>7. \A q \in Callers \ Done :
        /\ request'[q].at = request[q].at
        /\ request[q].at \in {"category", "uncategory"} => request'[q].name = request[q].name
  BY <1>4
<1>8. \A q \in Callers : /\ request[q].at = "category" => request[q].name # "none"
                         /\ request[q].at = "uncategory" => request[q].name = "none"
  BY DEF MenuInv, RequestsStand
<1>9. \A q \in Callers : /\ request'[q].at = "category" => request'[q].name # "none"
                         /\ request'[q].at = "uncategory" => request'[q].name = "none"
  BY <1>1, <1>4, <1>7, <1>8
<1> QED
  BY <1>1, <1>4, <1>6, <1>9

\* A refusal changes nothing but the requests; nobody is surprised whose request
\* would still pass its checks.
LEMMA RefuseKeeps ==
  ASSUME MenuInv, NEW p \in Callers, Refuse(p),
         ~ request[p].raced => request[p].at = "remove" /\ ordered[request[p].on] = "past"
  PROVE  MenuInv'
<1> USE DEF MenuInv
<1>1. /\ request' = [request EXCEPT ![p] = NoCall]
      /\ startled' = (startled \/ (~ request[p].raced /\
           ~ (request[p].at = "remove" /\ ordered[request[p].on] = "past")))
      /\ UNCHANGED <<name, item, ordered, files, itemForm, task, lostAnswer>>
  BY DEF Refuse, rowVars
<1>2. startled' \in BOOLEAN /\ ~ startled'
  BY <1>1, Zenon DEF MenuErrorsAreRaces
<1>3. \A q \in Callers : request'[q] = IF q = p THEN NoCall ELSE request[q]
  BY <1>1 DEF MenuTypeOK
<1>4. NoCall \in RequestRows /\ NoCall.at = "idle"
  BY DEF NoCall, RequestRows
<1>5. MenuTypeOK'
  BY <1>1, <1>3, <1>4, <1>2 DEF MenuTypeOK
<1>6. NamesDiffer' /\ MenuErrorsAreRaces'
  BY <1>1, <1>2 DEF NamesDiffer, MenuErrorsAreRaces
<1>7. RequestsStand'
  BY <1>1, <1>3, <1>4 DEF RequestsStand, Stands, Has, IsCategory
<1>8. ASSUME NEW g \in Images
      PROVE  HomesOf(g)' \subseteq HomesOf(g)
  <2>1. \A q \in Pages : request'[q].at = "save" => request'[q] = request[q]
    BY <1>3, <1>4, MenuAssumption
  <2> QED
    BY <1>1, <2>1, HomeIs, HomesWithin DEF Has
<1>9. PicturesHaveOneHome'
  BY <1>1, <1>8, HomesKept
<1> QED
  BY <1>5, <1>6, <1>7, <1>9

\* Requests that a change of the categories overtakes: all that look at one.
LEMMA WriteCategoryKeeps ==
  ASSUME MenuInv, NEW p \in Callers, WriteCategory(p)
  PROVE  MenuInv'
<1> USE DEF MenuInv
<1> DEFINE r == request[p]
           ok == /\ IsCategory(r.on) <=> ~ r.new
                 /\ IF r.at = "category" THEN \A d \in Categories \ {r.on} : name[d] # r.name
                    ELSE \A i \in Items : item[i].cat # r.on
           Late == {q \in Callers : request[q] # NoCall /\ AboutCategories(request[q])}
<1>1. r.at \in {"category", "uncategory"} /\ r.on \in Categories /\ r.raced \in BOOLEAN
      /\ r.name \in Names \cup {"none"}
  BY RequestFields DEF WriteCategory
<1>2. CASE ~ ok
  <2>1. Refuse(p)
    BY <1>2 DEF WriteCategory
  <2>2. ~ Stands(r)
    BY <1>1, <1>2 DEF Stands
  <2>3. r.raced
    BY <1>1, <2>2 DEF RequestsStand
  <2> QED
    BY <2>1, <2>3, RefuseKeeps
<1>3. CASE ok
  <2>1. /\ name' = [name EXCEPT ![r.on] = r.name]
        /\ request' = [Raced(AboutCategories) EXCEPT ![p] = NoCall]
        /\ UNCHANGED <<item, ordered, files, itemForm, task, lostAnswer, startled>>
    BY <1>3 DEF WriteCategory
  <2>2. request' = [q \in Callers |-> IF q \in {p} THEN NoCall
                                      ELSE IF q \in Late THEN [request[q] EXCEPT !.raced = TRUE]
                                      ELSE request[q]]
    BY <2>1 DEF Raced
  <2>3. Late \in SUBSET Callers /\ \A q \in Late : request[q] # NoCall
    OBVIOUS
  <2>4. \A q \in Callers \ Late : request[q].at \in {"idle", "toggle", "remove"}
    BY RequestFields DEF AboutCategories
  <2>5. \A c \in Categories : name'[c] = IF c = r.on THEN r.name ELSE name[c]
    BY <1>1, <2>1 DEF MenuTypeOK
  <2>6. r.name # "none" => \A d \in Categories \ {r.on} : name[d] # r.name
    BY <1>1, <1>3 DEF RequestsStand
  <2> HIDE DEF Late, ok, r
  <2>7. /\ request' \in [Callers -> RequestRows]
        /\ \A q \in {p} : request'[q].at = "idle"
        /\ \A q \in Callers \ {p} :
             /\ request'[q].at = request[q].at
             /\ request[q].at = "save" => /\ request'[q].on = request[q].on
                                          /\ request'[q].image = request[q].image
             /\ q \in Late => request'[q].raced = TRUE
             /\ q \notin Late => request'[q] = request[q]
        /\ \A q \in Callers : /\ request'[q].at = "category" => request'[q].name # "none"
                              /\ request'[q].at = "uncategory" => request'[q].name = "none"
    BY <2>2, <2>3, RequestsAfter
  <2>8. MenuTypeOK'
    BY <1>1, <2>1, <2>7 DEF MenuTypeOK
  <2>9. NamesDiffer' /\ MenuErrorsAreRaces'
    BY <2>1, <2>5, <2>6 DEF NamesDiffer, MenuErrorsAreRaces
  <2>10. RequestsStand'
    BY <2>1, <2>4, <2>7 DEF RequestsStand, Stands, Has
  <2>11. ASSUME NEW g \in Images
         PROVE  HomesOf(g)' \subseteq HomesOf(g)
    <3>1. \A q \in Pages : request'[q].at = "save" =>
            request[q].at = "save" /\ request'[q].on = request[q].on
            /\ request'[q].image = request[q].image
      BY <2>7, MenuAssumption
    <3> QED
      BY <2>1, <3>1, HomeIs, HomesWithin DEF Has
  <2>12. PicturesHaveOneHome'
    BY <2>1, <2>11, HomesKept
  <2> QED
    BY <2>8, <2>9, <2>10, <2>12
<1> QED
  BY <1>2, <1>3

\* A change of an item overtakes the requests about it; nothing that others have
\* looked at is lost.
LEMMA WriteButtonKeeps ==
  ASSUME MenuInv, NEW p \in Callers, WriteButton(p)
  PROVE  MenuInv'
<1> USE DEF MenuInv
<1> DEFINE r == request[p]
           Late == {q \in Callers : request[q] # NoCall /\ AboutItem(request[q], r.on)}
<1>1. r.at \in {"toggle", "remove"} /\ r.on \in Items /\ r.raced \in BOOLEAN
      /\ (r.at = "toggle" => r.avail \in BOOLEAN)
  BY RequestFields DEF WriteButton
<1>2. CASE ~ Has(r.on) \/ (r.at = "remove" /\ ordered[r.on] # "none")
  <2>1. Refuse(p)
    BY <1>2 DEF WriteButton
  <2>2. ~ r.raced => Has(r.on) /\ (r.at = "remove" => ordered[r.on] # "active")
    BY <1>1 DEF RequestsStand, Stands
  <2>3. ordered[r.on] \in {"none", "active", "past"}
    BY <1>1 DEF MenuTypeOK
  <2> QED
    BY <1>2, <2>1, <2>2, <2>3, RefuseKeeps
<1>3. CASE Has(r.on) /\ ~ (r.at = "remove" /\ ordered[r.on] # "none")
  <2>1. /\ item' = [item EXCEPT ![r.on] =
               IF r.at = "remove" THEN NoItem ELSE [item[r.on] EXCEPT !.avail = r.avail]]
        /\ request' = [[q \in Callers |-> IF request[q] # NoCall /\ AboutItem(request[q], r.on)
                                          THEN [request[q] EXCEPT !.raced = TRUE] ELSE request[q]]
                         EXCEPT ![p] = NoCall]
        /\ UNCHANGED <<name, ordered, files, itemForm, task, lostAnswer, startled>>
    BY <1>3 DEF WriteButton, Raced
  <2>2. request' = [q \in Callers |-> IF q \in {p} THEN NoCall
                                      ELSE IF q \in Late THEN [request[q] EXCEPT !.raced = TRUE]
                                      ELSE request[q]]
    BY <2>1
  <2>3. Late \in SUBSET Callers /\ \A q \in Late : request[q] # NoCall
    OBVIOUS
  <2>4. \A q \in Callers \ Late : request[q].at \in {"save", "toggle", "remove"} => request[q].on # r.on
    BY DEF AboutItem, NoCall
  <2>5. \A i \in Items : item'[i] = IF i # r.on THEN item[i]
                                    ELSE IF r.at = "remove" THEN NoItem
                                    ELSE [item[i] EXCEPT !.avail = r.avail]
    BY <1>1, <2>1 DEF MenuTypeOK
  <2>6. LET row == [item[r.on] EXCEPT !.avail = r.avail] IN
        r.at = "toggle" => /\ row \in [cat : Categories, avail : BOOLEAN, image : Image]
                           /\ row.cat = item[r.on].cat /\ row.image = item[r.on].image
    BY <1>1, <1>3, RowFields
  <2> HIDE DEF Late, r
  <2>7. /\ request' \in [Callers -> RequestRows]
        /\ \A q \in {p} : request'[q].at = "idle"
        /\ \A q \in Callers \ {p} :
             /\ request'[q].at = request[q].at
             /\ request[q].at = "save" => /\ request'[q].on = request[q].on
                                          /\ request'[q].image = request[q].image
             /\ q \in Late => request'[q].raced = TRUE
             /\ q \notin Late => request'[q] = request[q]
        /\ \A q \in Callers : /\ request'[q].at = "category" => request'[q].name # "none"
                              /\ request'[q].at = "uncategory" => request'[q].name = "none"
    BY <2>2, <2>3, RequestsAfter
  <2>8. \A i \in Items : item'[i] \in ItemRows
    BY <1>1, <2>5, <2>6 DEF MenuTypeOK, ItemRows
  <2>9. MenuTypeOK'
    BY <1>1, <2>1, <2>7, <2>8 DEF MenuTypeOK
  <2>10. NamesDiffer' /\ MenuErrorsAreRaces'
    BY <2>1 DEF NamesDiffer, MenuErrorsAreRaces
  <2>11. \A i \in Items : /\ item'[i].cat = item[i].cat \/ item'[i].cat = "none"
                          /\ item'[i] # NoItem => Has(i) /\ item'[i].image = item[i].image
                          /\ i # r.on => item'[i] = item[i]
    <3>1. r.at = "remove" => item'[r.on] = NoItem /\ NoItem.cat = "none"
      BY <1>1, <2>5 DEF NoItem
    <3>2. r.at = "toggle" => /\ item'[r.on].cat = item[r.on].cat
                             /\ item'[r.on].image = item[r.on].image
      BY <1>1, <2>5, <2>6
    <3>3. \A i \in Items \ {r.on} : item'[i] = item[i]
      BY <2>5
    <3> QED
      BY <1>1, <1>3, <3>1, <3>2, <3>3 DEF Has
  <2>12. \A q \in Callers : request[q].at = "uncategory" => request[q].on # "none"
    BY RequestFields, MenuAssumption
  <2>13. RequestsStand'
    <3> SUFFICES ASSUME NEW q \in Callers, request'[q].at # "idle"
                 PROVE  request'[q].raced \/ Stands(request[q])'
      BY <2>7 DEF RequestsStand
    <3>1. q # p
      BY <2>7
    <3>2. CASE q \in Late
      BY <2>7, <3>1, <3>2
    <3>3. CASE q \notin Late
      <4>1. request'[q] = request[q] /\ (request[q].raced \/ Stands(request[q]))
        BY <2>7, <3>1, <3>3 DEF RequestsStand
      <4>2. request[q].at \in {"save", "toggle", "remove"} => request[q].on # r.on
        BY <2>4, <3>3
      <4>3. request[q].at \in {"toggle", "remove"} => request[q].on \in Items
        BY RequestFields
      <4>4. request[q].at = "save" => request[q].on \in Items \cup {"new"}
        BY RequestFields
      <4> SUFFICES ASSUME Stands(request[q])
                   PROVE  Stands(request[q])'
        BY <4>1
      <4>5. \A i \in Items \ {r.on} : item'[i] # NoItem <=> item[i] # NoItem
        BY <2>11 DEF Has
      <4>6. request[q].at = "category" => Stands(request[q])'
        BY <2>1, <4>1 DEF Stands, IsCategory
      <4>7. request[q].at = "uncategory" => Stands(request[q])'
        <5>1. request[q].at = "uncategory" =>
                /\ IsCategory(request[q].on) /\ ~ request[q].new
                /\ \A i \in Items : item[i].cat # request[q].on
          BY DEF Stands
        <5>2. request[q].at = "uncategory" => \A i \in Items : item'[i].cat # request[q].on
          BY <2>11, <2>12, <5>1
        <5> QED
          BY <2>1, <4>1, <5>1, <5>2 DEF Stands, IsCategory
      <4>8. request[q].at = "save" => Stands(request[q])'
        BY <2>1, <4>1, <4>2, <4>4, <4>5 DEF Stands, Has, IsCategory
      <4>9. request[q].at = "toggle" => Stands(request[q])'
        BY <2>1, <4>1, <4>2, <4>3, <4>5 DEF Stands, Has
      <4>10. request[q].at = "remove" => Stands(request[q])'
        BY <2>1, <4>1, <4>2, <4>3, <4>5 DEF Stands, Has
      <4> QED
        BY <4>1, <4>6, <4>7, <4>8, <4>9, <4>10 DEF Stands
    <3> QED
      BY <3>2, <3>3
  <2>14. ASSUME NEW g \in Images
         PROVE  HomesOf(g)' \subseteq HomesOf(g)
    <3>1. \A q \in Pages : request'[q].at = "save" =>
            request[q].at = "save" /\ request'[q].on = request[q].on
            /\ request'[q].image = request[q].image
      BY <2>7, MenuAssumption
    <3>2. \A i \in Items : item'[i] # NoItem /\ item'[i].image = g => <<"item", i>> \in HomesOf(g)
      BY <2>11, HomeIs
    <3>3. \A q \in Pages : itemForm'[q] # Closed /\ itemForm'[q].image = g =>
            Home(q, itemForm'[q].on) \in HomesOf(g)
      BY <2>1, HomeIs
    <3>4. \A q \in Pages : request'[q].at = "save" /\ request'[q].image = g =>
            Home(q, request'[q].on) \in HomesOf(g)
      BY <3>1, HomeIs
    <3> QED
      BY <3>2, <3>3, <3>4, HomesWithin
  <2>15. PicturesHaveOneHome'
    BY <2>1, <2>14, HomesKept
  <2> QED
    BY <2>9, <2>10, <2>13, <2>15
<1> QED
  BY <1>2, <1>3

LEMMA DishIsOrderedKeeps ==
  ASSUME MenuInv, NEW i \in Items, DishIsOrdered(i)
  PROVE  MenuInv'
<1> USE DEF MenuInv
<1> DEFINE Late == {q \in Callers : request[q] # NoCall /\ AboutItem(request[q], i)}
<1>1. /\ \E o \in {"active", "past"} : ordered' = [ordered EXCEPT ![i] = o]
      /\ request' = [q \in Callers |-> IF request[q] # NoCall /\ AboutItem(request[q], i)
                                       THEN [request[q] EXCEPT !.raced = TRUE] ELSE request[q]]
      /\ UNCHANGED <<name, item, files, itemForm, task, lostAnswer, startled>>
  BY DEF DishIsOrdered, Raced
<1>2. request' = [q \in Callers |-> IF q \in {} THEN NoCall
                                    ELSE IF q \in Late THEN [request[q] EXCEPT !.raced = TRUE]
                                    ELSE request[q]]
  BY <1>1
<1>3. Late \in SUBSET Callers /\ \A q \in Late : request[q] # NoCall
  OBVIOUS
<1>4. \A q \in Callers \ Late : request[q].at = "remove" => request[q].on # i
  BY DEF AboutItem, NoCall
<1>5. ordered' \in [Items -> {"none", "active", "past"}]
      /\ \A j \in Items \ {i} : ordered'[j] = ordered[j]
  BY <1>1 DEF MenuTypeOK
<1> HIDE DEF Late
<1>6. /\ request' \in [Callers -> RequestRows]
      /\ \A q \in Callers :
           /\ request'[q].at = request[q].at
           /\ request[q].at = "save" => /\ request'[q].on = request[q].on
                                        /\ request'[q].image = request[q].image
           /\ q \in Late => request'[q].raced = TRUE
           /\ q \notin Late => request'[q] = request[q]
      /\ \A q \in Callers : /\ request'[q].at = "category" => request'[q].name # "none"
                            /\ request'[q].at = "uncategory" => request'[q].name = "none"
  <2>1. {} \in SUBSET Callers /\ Callers \ {} = Callers
    OBVIOUS
  <2> QED
    BY ONLY <1>2, <1>3, <2>1, RequestsAfter, MenuInv DEF MenuInv
<1>7. MenuTypeOK'
  BY <1>1, <1>5, <1>6 DEF MenuTypeOK
<1>8. NamesDiffer' /\ MenuErrorsAreRaces'
  BY <1>1 DEF NamesDiffer, MenuErrorsAreRaces
<1>9. RequestsStand'
  <2> SUFFICES ASSUME NEW q \in Callers, request'[q].at # "idle"
               PROVE  request'[q].raced \/ Stands(request[q])'
    BY <1>6 DEF RequestsStand
  <2>1. CASE q \in Late
    BY <1>6, <2>1
  <2>2. CASE q \notin Late
    <3>1. request'[q] = request[q] /\ (request[q].raced \/ Stands(request[q]))
      BY <1>6, <2>2 DEF RequestsStand
    <3>2. request[q].at = "remove" => ordered'[request[q].on] = ordered[request[q].on]
      BY <1>4, <1>5, <2>2, RequestFields
    <3> QED
      BY <1>1, <3>1, <3>2 DEF Stands, Has, IsCategory
  <2> QED
    BY <2>1, <2>2
<1>10. ASSUME NEW g \in Images
       PROVE  HomesOf(g)' \subseteq HomesOf(g)
  <2>1. \A q \in Pages : request'[q].at = "save" =>
          request[q].at = "save" /\ request'[q].on = request[q].on
          /\ request'[q].image = request[q].image
    BY <1>6, MenuAssumption
  <2>2. item' = item /\ itemForm' = itemForm
    BY <1>1
  <2> QED
    BY <2>1, <2>2, HomeIs, HomesWithin DEF Has
<1>11. PicturesHaveOneHome'
  BY <1>1, <1>10, HomesKept
<1> QED
  BY <1>7, <1>8, <1>9, <1>11

\* A saved item takes over the home of the picture of its form: the only new home
\* is that of a new item, and the form it came from is closed, or its answer lost.
LEMMA WriteItemKeeps ==
  ASSUME MenuInv, NEW p \in Pages, NEW i \in Items, WriteItem(p, i)
  PROVE  MenuInv'
<1> USE DEF MenuInv
<1> DEFINE r == request[p]
           picture == IF r.image = "none" /\ r.on # "new" THEN item[i].image ELSE r.image
           row == [cat |-> r.cat, avail |-> r.avail, image |-> picture]
           Late == {q \in Callers : request[q] # NoCall
                                    /\ (AboutItem(request[q], i) \/ request[q].at = "uncategory")}
<1>1. /\ p \in Callers /\ r.at = "save" /\ r.raced \in BOOLEAN
      /\ r.cat \in Categories /\ r.avail \in BOOLEAN /\ r.image \in Image
      /\ IF r.on = "new" THEN ~ Has(i) ELSE i = r.on
  BY RequestFields, MenuAssumption DEF WriteItem
<1>2. CASE ~ IsCategory(r.cat) \/ (r.on # "new" /\ ~ Has(i))
  <2>1. Refuse(p)
    BY <1>2 DEF WriteItem
  <2>2. r.raced
    BY <1>1, <1>2 DEF RequestsStand, Stands
  <2> QED
    BY <1>1, <2>1, <2>2, RefuseKeeps
<1>3. CASE IsCategory(r.cat) /\ (r.on # "new" => Has(i))
  <2>1. /\ item' = [item EXCEPT ![i] = row]
        /\ request' = [[q \in Callers |-> IF request[q] # NoCall
                                             /\ (AboutItem(request[q], i) \/ request[q].at = "uncategory")
                                          THEN [request[q] EXCEPT !.raced = TRUE] ELSE request[q]]
                         EXCEPT ![p] = NoCall]
        /\ \/ itemForm' = [itemForm EXCEPT ![p] = Closed] /\ UNCHANGED lostAnswer
           \/ lostAnswer' = TRUE /\ UNCHANGED itemForm
        /\ UNCHANGED <<name, ordered, files, task, startled>>
    BY <1>3 DEF WriteItem, Raced
  <2>2. request' = [q \in Callers |-> IF q \in {p} THEN NoCall
                                      ELSE IF q \in Late THEN [request[q] EXCEPT !.raced = TRUE]
                                      ELSE request[q]]
    BY <1>1, <2>1
  <2>3. Late \in SUBSET Callers /\ \A q \in Late : request[q] # NoCall
    OBVIOUS
  <2>4. \A q \in Callers \ Late :
          /\ request[q].at # "uncategory"
          /\ request[q].at \in {"save", "toggle", "remove"} => request[q].on # i
    BY DEF AboutItem, NoCall
  <2>5. picture \in Image
    BY <1>1, <1>3, RowFields
  <2>6. row \in [cat : Categories, avail : BOOLEAN, image : Image] /\ row.image = picture
    BY <1>1, <2>5
  <2>7. /\ r.on = "new" => picture = r.image
        /\ r.on # "new" => r.on = i /\ Has(i) /\ picture \in {item[i].image, r.image}
    BY <1>1, <1>3
  <2> HIDE DEF Late, row, picture
  <2>8. /\ request' \in [Callers -> RequestRows]
        /\ \A q \in {p} : request'[q].at = "idle"
        /\ \A q \in Callers \ {p} :
             /\ request'[q].at = request[q].at
             /\ request[q].at = "save" => /\ request'[q].on = request[q].on
                                          /\ request'[q].image = request[q].image
             /\ q \in Late => request'[q].raced = TRUE
             /\ q \notin Late => request'[q] = request[q]
        /\ \A q \in Callers : /\ request'[q].at = "category" => request'[q].name # "none"
                              /\ request'[q].at = "uncategory" => request'[q].name = "none"
    BY <1>1, <2>2, <2>3, RequestsAfter
  <2>9. \A j \in Items : item'[j] = IF j = i THEN row ELSE item[j]
    BY <2>1 DEF MenuTypeOK
  <2>10. \A q \in Pages : itemForm'[q] = itemForm[q] \/ itemForm'[q] = Closed
    BY <2>1 DEF MenuTypeOK
  <2>11. item' \in [Items -> ItemRows]
    BY <2>1, <2>6 DEF MenuTypeOK, ItemRows
  <2>12. itemForm' \in [Pages -> Forms] /\ lostAnswer' \in BOOLEAN
    BY <2>1 DEF MenuTypeOK, Forms
  <2>13. MenuTypeOK'
    BY <2>1, <2>8, <2>11, <2>12 DEF MenuTypeOK
  <2>14. NamesDiffer' /\ MenuErrorsAreRaces'
    BY <2>1 DEF NamesDiffer, MenuErrorsAreRaces
  <2>15. RequestsStand'
    <3> SUFFICES ASSUME NEW q \in Callers, request'[q].at # "idle"
                 PROVE  request'[q].raced \/ Stands(request[q])'
      BY <2>8 DEF RequestsStand
    <3>1. q # p
      BY <2>8
    <3>2. CASE q \in Late
      BY <2>8, <3>1, <3>2
    <3>3. CASE q \notin Late
      <4>1. request'[q] = request[q] /\ (request[q].raced \/ Stands(request[q]))
        BY <2>8, <3>1, <3>3 DEF RequestsStand
      <4>2. /\ request[q].at # "uncategory"
            /\ request[q].at \in {"save", "toggle", "remove"} => request[q].on # i
        BY <2>4, <3>3
      <4>3. /\ request[q].at \in {"toggle", "remove"} => request[q].on \in Items
            /\ request[q].at = "save" => request[q].on \in Items \cup {"new"}
        BY RequestFields
      <4> QED
        BY <2>1, <2>9, <4>1, <4>2, <4>3 DEF Stands, Has, IsCategory
    <3> QED
      BY <3>2, <3>3
  <2>16. \A q \in Pages : request'[q].at = "save" =>
           q # p /\ request[q].at = "save" /\ request'[q].on = request[q].on
           /\ request'[q].image = request[q].image
    BY <2>8, MenuAssumption
  <2>17. ASSUME NEW g \in Images, picture # g \/ r.on # "new"
         PROVE  HomesOf(g)' \subseteq HomesOf(g)
    <3>1. picture = g => <<"item", i>> \in HomesOf(g)
      BY <1>1, <2>7, <2>17, HomeIs, MenuAssumption DEF Home
    <3>2. \A j \in Items : item'[j] # NoItem /\ item'[j].image = g => <<"item", j>> \in HomesOf(g)
      BY <2>6, <2>9, <3>1, HomeIs DEF Has
    <3> QED
      BY <2>10, <2>16, <3>2, HomeIs, HomesWithin
  <2>18. ASSUME NEW g \in Images, picture = g, r.on = "new", ~ lostAnswer'
         PROVE  /\ HomesOf(g)' \subseteq {<<"item", i>>}
                /\ \A q \in Pages : ~ (task[q].at = "upload" /\ task[q].image = g)
    <3>1. ~ lostAnswer /\ itemForm'[p] = Closed
      BY <2>1, <2>18 DEF MenuTypeOK
    <3>2. <<"new", p>> \in HomesOf(g)
      BY <1>1, <2>7, <2>18, HomeIs DEF Home
    <3>3. \A h \in HomesOf(g) : h = <<"new", p>>
      BY <2>18, <3>1, <3>2 DEF PicturesHaveOneHome
    <3>4. \A j \in Items : <<"item", j>> # <<"new", p>>
      OBVIOUS
    <3>5. \A q, on : q # p => Home(q, on) # <<"new", p>>
      BY DEF Home
    <3>6. \A j \in Items \ {i} : ~ (item'[j] # NoItem /\ item'[j].image = g)
      BY <2>9, <3>3, <3>4, HomeIs DEF Has
    <3>7. \A q \in Pages : ~ (itemForm'[q] # Closed /\ itemForm'[q].image = g)
      BY <2>10, <3>1, <3>3, <3>5, HomeIs
    <3>8. \A q \in Pages : ~ (request'[q].at = "save" /\ request'[q].image = g)
      BY <2>16, <3>3, <3>5, HomeIs
    <3>9. HomesOf(g)' \subseteq {<<"item", i>>}
      BY <3>6, <3>7, <3>8, HomesWithin
    <3>10. \A q \in Pages : ~ (task[q].at = "upload" /\ task[q].image = g)
      BY <2>18, <3>1, <3>2 DEF PicturesHaveOneHome
    <3> QED
      BY <3>9, <3>10
  <2>19. PicturesHaveOneHome'
    <3> SUFFICES ASSUME ~ lostAnswer', NEW g \in Images
                 PROVE  /\ \A h, k \in HomesOf(g)' : h = k
                        /\ \A q \in Pages : task'[q].at = "upload" /\ task'[q].image = g =>
                             /\ HomesOf(g)' = {}
                             /\ \A o \in Pages : task'[o].at # "idle" /\ task'[o].image = g => o = q
      BY DEF PicturesHaveOneHome
    <3>1. task' = task /\ ~ lostAnswer
      BY <2>1
    <3>2. CASE r.on = "new" /\ picture = g
      BY <2>18, <3>1, <3>2
    <3>3. CASE ~ (r.on = "new" /\ picture = g)
      BY <2>17, <3>1, <3>3 DEF PicturesHaveOneHome
    <3> QED
      BY <3>2, <3>3
  <2> QED
    BY <2>13, <2>14, <2>15, <2>19
<1> QED
  BY <1>2, <1>3

-----------------------------------------------------------------------------
\* The item form and its picture box

\* What moves only forms, files and their tasks disturbs only the homes.
LEMMA FormsAlone ==
  ASSUME MenuInv, UNCHANGED <<name, item, ordered, request, lostAnswer, startled>>,
         itemForm' \in [Pages -> Forms], task' \in [Pages -> TaskRows], PicturesHaveOneHome'
  PROVE  MenuInv'
<1> USE DEF MenuInv
<1>1. MenuTypeOK'
  BY DEF MenuTypeOK
<1>2. NamesDiffer' /\ MenuErrorsAreRaces'
  BY DEF NamesDiffer, MenuErrorsAreRaces
<1>3. RequestsStand'
  BY DEF RequestsStand, Stands, Has, IsCategory
<1> QED
  BY <1>1, <1>2, <1>3

\* The homes when only forms have changed.
LEMMA FormHomes ==
  ASSUME NEW g \in Images, item' = item, request' = request,
         \A q \in Pages : itemForm'[q] # Closed /\ itemForm'[q].image = g =>
           Home(q, itemForm'[q].on) \in HomesOf(g)
  PROVE  HomesOf(g)' \subseteq HomesOf(g)
BY HomeIs, HomesWithin DEF Has

LEMMA OpenFormKeeps ==
  ASSUME MenuInv, NEW p \in Pages, NEW i \in Items \cup {"new"}, OpenForm(p, i)
  PROVE  MenuInv'
<1> USE DEF MenuInv
<1> PICK form : /\ itemForm' = [itemForm EXCEPT ![p] = form]
                /\ \/ form = EmptyForm
                   \/ i \in Items /\ Has(i) /\ form = [on |-> i, image |-> item[i].image]
  BY DEF OpenForm
<1>1. UNCHANGED <<name, item, ordered, request, task, lostAnswer, startled>>
  BY DEF OpenForm, rowVars
<1>2. form \in Forms
  BY RowFields DEF EmptyForm, Forms, Image
<1>3. itemForm' \in [Pages -> Forms] /\ \A q \in Pages : itemForm'[q] = IF q = p THEN form ELSE itemForm[q]
  BY <1>2 DEF MenuTypeOK
<1>4. ASSUME NEW g \in Images
      PROVE  HomesOf(g)' \subseteq HomesOf(g)
  <2>1. form.image = g => Home(p, form.on) \in HomesOf(g)
    BY HomeIs, MenuAssumption DEF Home, EmptyForm
  <2> QED
    BY <1>1, <1>3, <2>1, HomeIs, FormHomes
<1>5. PicturesHaveOneHome'
  BY <1>1, <1>4, HomesKept
<1> QED
  BY <1>1, <1>3, <1>5, FormsAlone DEF MenuTypeOK

LEMMA CloseItemFormKeeps ==
  ASSUME MenuInv, NEW p \in Pages, CloseItemForm(p)
  PROVE  MenuInv'
<1> USE DEF MenuInv
<1>1. /\ itemForm' = [itemForm EXCEPT ![p] = Closed]
      /\ UNCHANGED <<name, item, ordered, request, task, lostAnswer, startled>>
  BY DEF CloseItemForm, rowVars
<1>2. itemForm' \in [Pages -> Forms] /\ \A q \in Pages : itemForm'[q] \in {itemForm[q], Closed}
  BY <1>1 DEF MenuTypeOK, Forms
<1>3. ASSUME NEW g \in Images
      PROVE  HomesOf(g)' \subseteq HomesOf(g)
  BY <1>1, <1>2, HomeIs, FormHomes
<1>4. PicturesHaveOneHome'
  BY <1>1, <1>3, HomesKept
<1> QED
  BY <1>1, <1>2, <1>4, FormsAlone DEF MenuTypeOK

\* An upload starts with a picture that has no home.
LEMMA StartUploadKeeps ==
  ASSUME MenuInv, NEW p \in Pages, NEW g \in Images, StartUpload(p, g)
  PROVE  MenuInv'
<1> USE DEF MenuInv
<1> DEFINE t == [at |-> "upload", image |-> g]
<1>1. /\ Fresh(g) /\ task' = [task EXCEPT ![p] = t]
      /\ UNCHANGED <<name, item, ordered, itemForm, request, lostAnswer, startled>>
  BY DEF StartUpload, rowVars
<1>2. task' \in [Pages -> TaskRows] /\ \A q \in Pages : task'[q] = IF q = p THEN t ELSE task[q]
  BY <1>1 DEF MenuTypeOK, TaskRows
<1>3. HomesOf(g) = {} /\ \A q \in Pages : task[q].at # "idle" => task[q].image # g
  BY <1>1 DEF Fresh, HomesOf, NoCall
<1>4. \A h \in Images : HomesOf(h)' = HomesOf(h)
  BY <1>1 DEF HomesOf, Has
<1>5. t.at = "upload" /\ t.image = g
  OBVIOUS
<1> HIDE DEF t
<1>6. PicturesHaveOneHome'
  <2> SUFFICES ASSUME ~ lostAnswer, NEW h \in Images
               PROVE  /\ \A j, k \in HomesOf(h)' : j = k
                      /\ \A q \in Pages : task'[q].at = "upload" /\ task'[q].image = h =>
                           /\ HomesOf(h)' = {}
                           /\ \A o \in Pages : task'[o].at # "idle" /\ task'[o].image = h => o = q
    BY <1>1 DEF PicturesHaveOneHome
  <2> QED
    BY <1>2, <1>3, <1>4, <1>5 DEF PicturesHaveOneHome
<1> QED
  BY <1>1, <1>2, <1>6, FormsAlone DEF MenuTypeOK

\* A removal starts with a picture that has a home already.
LEMMA StartRemovalKeeps ==
  ASSUME MenuInv, NEW p \in Pages, StartRemoval(p)
  PROVE  MenuInv'
<1> USE DEF MenuInv
<1> DEFINE t == [at |-> "removal", image |-> itemForm[p].image]
<1>1. /\ itemForm[p] # Closed /\ itemForm[p].image # "none" /\ task' = [task EXCEPT ![p] = t]
      /\ UNCHANGED <<name, item, ordered, itemForm, request, lostAnswer, startled>>
  BY DEF StartRemoval, BoxIsOpen, rowVars
<1>2. itemForm[p].image \in Images
  BY <1>1, RowFields DEF Image
<1>3. task' \in [Pages -> TaskRows] /\ \A q \in Pages : task'[q] = IF q = p THEN t ELSE task[q]
  BY <1>1, <1>2 DEF MenuTypeOK, TaskRows
<1>4. HomesOf(itemForm[p].image) # {}
  BY <1>1, HomeIs
<1>5. \A h \in Images : HomesOf(h)' = HomesOf(h)
  BY <1>1 DEF HomesOf, Has
<1>6. t.at = "removal" /\ t.image = itemForm[p].image
  OBVIOUS
<1> HIDE DEF t
<1>7. PicturesHaveOneHome'
  <2> SUFFICES ASSUME ~ lostAnswer, NEW h \in Images
               PROVE  /\ \A j, k \in HomesOf(h)' : j = k
                      /\ \A q \in Pages : task'[q].at = "upload" /\ task'[q].image = h =>
                           /\ HomesOf(h)' = {}
                           /\ \A o \in Pages : task'[o].at # "idle" /\ task'[o].image = h => o = q
    BY <1>1 DEF PicturesHaveOneHome
  <2> QED
    BY <1>3, <1>4, <1>5, <1>6 DEF PicturesHaveOneHome
<1> QED
  BY <1>1, <1>3, <1>7, FormsAlone DEF MenuTypeOK

\* An upload that ends gives its picture the home of the form that is open.
LEMMA EndTaskKeeps ==
  ASSUME MenuInv, NEW p \in Pages, EndTask(p)
  PROVE  MenuInv'
<1> USE DEF MenuInv
<1> DEFINE t == task[p]
           shown == IF t.at = "upload" THEN t.image ELSE "none"
<1>1. /\ t # NoCall
      /\ itemForm' = IF itemForm[p] = Closed THEN itemForm ELSE [itemForm EXCEPT ![p].image = shown]
      /\ task' = [task EXCEPT ![p] = NoCall]
      /\ UNCHANGED <<name, item, ordered, request, lostAnswer, startled>>
  BY DEF EndTask
<1>2. t.at \in {"upload", "removal"} /\ t.image \in Images /\ shown \in Image
  BY <1>1, RowFields DEF Image
<1>3. task' \in [Pages -> TaskRows] /\ task'[p].at = "idle" /\ \A q \in Pages \ {p} : task'[q] = task[q]
  BY <1>1 DEF MenuTypeOK, TaskRows, NoCall
<1>4. shown # "none" => t.at = "upload" /\ shown = t.image
  OBVIOUS
<1> HIDE DEF t, shown
<1>5. itemForm[p] # Closed =>
        LET form == [itemForm[p] EXCEPT !.image = shown] IN
        form \in Forms /\ form.on = itemForm[p].on /\ form.image = shown
  <2>1. itemForm[p] # Closed => itemForm[p] \in [on : Items \cup {"new"}, image : Image]
    BY DEF MenuTypeOK, Forms
  <2> QED
    BY <1>2, <2>1 DEF Forms
<1>6. itemForm' \in [Pages -> Forms]
  BY <1>1, <1>5 DEF MenuTypeOK
<1>7. /\ \A q \in Pages \ {p} : itemForm'[q] = itemForm[q]
      /\ itemForm'[p] # Closed => itemForm[p] # Closed /\ itemForm'[p].on = itemForm[p].on
                                  /\ itemForm'[p].image = shown
  BY <1>1, <1>5 DEF MenuTypeOK
<1>8. ASSUME NEW g \in Images, shown # g
      PROVE  HomesOf(g)' \subseteq HomesOf(g)
  BY <1>1, <1>7, <1>8, HomeIs, FormHomes
<1>9. ASSUME NEW g \in Images, shown = g, ~ lostAnswer
      PROVE  /\ HomesOf(g)' \subseteq {Home(p, itemForm[p].on)}
             /\ \A q \in Pages \ {p} : ~ (task[q].at # "idle" /\ task[q].image = g)
  <2>1. task[p].at = "upload" /\ task[p].image = g
    BY <1>4, <1>9, MenuAssumption DEF t
  <2>2. HomesOf(g) = {} /\ \A q \in Pages \ {p} : ~ (task[q].at # "idle" /\ task[q].image = g)
    BY <1>9, <2>1 DEF PicturesHaveOneHome
  <2>3. \A i \in Items : ~ (item'[i] # NoItem /\ item'[i].image = g)
    BY <1>1, <2>2, HomeIs DEF Has
  <2>4. \A q \in Pages : ~ (request'[q].at = "save" /\ request'[q].image = g)
    BY <1>1, <2>2, HomeIs
  <2>5. \A q \in Pages : itemForm'[q] # Closed /\ itemForm'[q].image = g =>
          Home(q, itemForm'[q].on) = Home(p, itemForm[p].on)
    BY <1>7, <2>2, HomeIs
  <2>6. PICK S : S = {Home(p, itemForm[p].on)}
    OBVIOUS
  <2>7. HomesOf(g)' \subseteq S
    BY <2>3, <2>4, <2>5, <2>6, HomesWithin
  <2> QED
    BY <2>2, <2>6, <2>7
<1>10. PicturesHaveOneHome'
  <2> SUFFICES ASSUME ~ lostAnswer, NEW g \in Images
               PROVE  /\ \A h, k \in HomesOf(g)' : h = k
                      /\ \A q \in Pages : task'[q].at = "upload" /\ task'[q].image = g =>
                           /\ HomesOf(g)' = {}
                           /\ \A o \in Pages : task'[o].at # "idle" /\ task'[o].image = g => o = q
    BY <1>1 DEF PicturesHaveOneHome
  <2>1. CASE shown = g
    BY <1>3, <1>9, <2>1
  <2>2. CASE shown # g
    BY <1>3, <1>8, <2>2 DEF PicturesHaveOneHome
  <2> QED
    BY <2>1, <2>2
<1> QED
  BY <1>1, <1>3, <1>6, <1>10, FormsAlone

LEMMA FailTaskKeeps ==
  ASSUME MenuInv, NEW p \in Pages, FailTask(p)
  PROVE  MenuInv'
<1> USE DEF MenuInv
<1>1. /\ task' = [task EXCEPT ![p] = NoCall]
      /\ UNCHANGED <<name, item, ordered, itemForm, request, lostAnswer, startled>>
  BY DEF FailTask, rowVars
<1>2. task' \in [Pages -> TaskRows] /\ \A q \in Pages : task'[q] = task[q] \/ task'[q].at = "idle"
  BY <1>1 DEF MenuTypeOK, TaskRows, NoCall
<1>3. \A g \in Images : HomesOf(g)' = HomesOf(g)
  BY <1>1 DEF HomesOf, Has
<1>4. PicturesHaveOneHome'
  BY <1>1, <1>2, <1>3, HomesKept
<1> QED
  BY <1>1, <1>2, <1>4, FormsAlone DEF MenuTypeOK

-----------------------------------------------------------------------------
LEMMA MenuKeep == MenuInv /\ [MenuNext]_menuVars => MenuInv'
<1> SUFFICES ASSUME MenuInv, [MenuNext]_menuVars PROVE MenuInv'
  OBVIOUS
<1>1. CASE UNCHANGED menuVars
  <2>1. UNCHANGED <<name, item, ordered, itemForm, request, task, lostAnswer, startled>>
    BY <1>1 DEF menuVars, rowVars
  <2>2. \A g \in Images : HomesOf(g)' = HomesOf(g)
    BY <2>1 DEF HomesOf, Has
  <2>3. PicturesHaveOneHome'
    BY <2>1, <2>2, HomesKept DEF MenuInv
  <2> QED
    BY <2>1, <2>3, FormsAlone DEF MenuInv, MenuTypeOK
<1> QED
  BY <1>1, RemoveCategoryKeeps, NameCategoryKeeps, ToggleItemKeeps, RemoveItemKeeps,
     WriteCategoryKeeps, WriteButtonKeeps, OpenFormKeeps, CloseItemFormKeeps, SubmitFormKeeps,
     WriteItemKeeps, StartUploadKeeps, StartRemovalKeeps, EndTaskKeeps, FailTaskKeeps,
     DishIsOrderedKeeps
  DEF MenuNext

\* Two items show one picture only after an answer to a save was lost.
THEOREM APictureHasOneHome == MenuSpec => []PicturesAreNotShared
<1>1. MenuInv => PicturesAreNotShared
  <2> SUFFICES ASSUME MenuInv, NEW i \in Items, NEW j \in Items, i # j, Has(i), Has(j),
                      item[i].image = item[j].image, item[i].image # "none", ~ lostAnswer
               PROVE  FALSE
    BY DEF PicturesAreNotShared
  <2>1. item[i].image \in Images
    BY RowFields DEF MenuInv, Image
  <2>2. {<<"item", i>>, <<"item", j>>} \subseteq HomesOf(item[i].image)
    BY HomeIs
  <2>3. <<"item", i>> = <<"item", j>>
    BY <2>1, <2>2 DEF MenuInv, PicturesHaveOneHome
  <2> QED
    BY <2>3
<1> QED
  BY <1>1, MenuStart, MenuKeep, PTL DEF MenuSpec

\* The database refuses no write about the menu that nobody overtook, but the
\* removal of an item that occurs in past orders.
THEOREM MenuErrorsAreFromRaces == MenuSpec => []MenuErrorsAreRaces
<1>1. MenuInv => MenuErrorsAreRaces
  BY DEF MenuInv
<1> QED
  BY <1>1, MenuStart, MenuKeep, PTL DEF MenuSpec
=============================================================================
