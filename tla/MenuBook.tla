------------------------------ MODULE MenuBook ------------------------------
(***************************************************************************)
(* MenuService and UploadService behind the menu page.  The page holds one *)
(* item form per manager; saving, uploading and removing a picture answer  *)
(* later, into whatever form is open then.  A picture is a file first and  *)
(* the column of an item only when the form is saved.                      *)
(***************************************************************************)
EXTENDS Naturals

CONSTANTS
  Items, Categories, Names, Images,
  Callers,     \* managers, each with one request at a time (a bound)
  Pages        \* those of them who use the item form and its picture box

ASSUME MenuAssumption ==
  /\ Pages \subseteq Callers
  /\ "none" \notin Names \cup Categories \cup Images /\ "new" \notin Items

VARIABLES
  name,        \* name of a category, "none" when there is no such row
  item,        \* row of an item, NoItem without one
  ordered,     \* orders an item occurs in: "none", an "active" one, only "past" ones
  files,       \* pictures stored under uploads/
  itemForm,    \* the item form of a page
  request,     \* the request of a page that is checked and not yet written
  task,        \* the upload or removal of a page that is not answered
  lostAnswer,  \* history: a save was written and its answer was lost
  startled     \* history: a 500 nobody raced for, but for items of past orders

rowVars == <<name, item, ordered, files>>
menuVars == <<rowVars, itemForm, request, task, lostAnswer, startled>>

NoItem == [cat |-> "none"]
NoCall == [at |-> "idle"]
Closed == [on |-> "closed"]
EmptyForm == [on |-> "new", image |-> "none"]
Has(i) == item[i] # NoItem
IsCategory(c) == name[c] # "none"

MenuInit ==
  /\ name = [c \in Categories |-> "none"]
  /\ item = [i \in Items |-> NoItem]
  /\ ordered = [i \in Items |-> "none"]
  /\ files = {}
  /\ itemForm = [p \in Pages |-> Closed]
  /\ request = [p \in Callers |-> NoCall] /\ task = [p \in Pages |-> NoCall]
  /\ lostAnswer = FALSE /\ startled = FALSE

Check(p, r) ==
  /\ request[p] = NoCall
  /\ request' = [request EXCEPT ![p] = r]
  /\ UNCHANGED <<rowVars, itemForm, task, lostAnswer, startled>>

\* A row that a check has looked at has changed: its write may fail for that.
Raced(Changed(_)) ==
  [p \in Callers |-> IF request[p] # NoCall /\ Changed(request[p])
                   THEN [request[p] EXCEPT !.raced = TRUE] ELSE request[p]]
AboutItem(r, i) == r.at \in {"save", "toggle", "remove"} /\ r.on = i
AboutCategories(r) == r.at \in {"category", "uncategory", "save"}

\* The database refuses the write of p: a bare 500.
Refuse(p) ==
  /\ request' = [request EXCEPT ![p] = NoCall]
  /\ startled' = (startled \/ (~ request[p].raced /\
       ~ (request[p].at = "remove" /\ ordered[request[p].on] = "past")))
  /\ UNCHANGED <<rowVars, itemForm, task, lostAnswer>>

-----------------------------------------------------------------------------
\* Categories: createCategory and updateCategory look for the name ...

NameCategory(p, c, n) ==
  /\ n # name[c] => \A d \in Categories : name[d] # n
  /\ Check(p, [at |-> "category", on |-> c, name |-> n, new |-> ~ IsCategory(c), raced |-> FALSE])

\* ... removeCategory for items.
RemoveCategory(p, c) ==
  /\ IsCategory(c) /\ \A i \in Items : item[i].cat # c
  /\ Check(p, [at |-> "uncategory", on |-> c, name |-> "none", new |-> FALSE, raced |-> FALSE])

\* Names are unique, and an item keeps its category from being deleted.
WriteCategory(p) ==
  LET r == request[p]
      ok == /\ IsCategory(r.on) <=> ~ r.new
            /\ IF r.at = "category" THEN \A d \in Categories \ {r.on} : name[d] # r.name
               ELSE \A i \in Items : item[i].cat # r.on
  IN /\ r.at \in {"category", "uncategory"}
     /\ IF ~ ok THEN Refuse(p)
        ELSE /\ name' = [name EXCEPT ![r.on] = r.name]
             /\ request' = [Raced(AboutCategories) EXCEPT ![p] = NoCall]
             /\ UNCHANGED <<item, ordered, files, itemForm, task, lostAnswer, startled>>

-----------------------------------------------------------------------------
\* The item form

\* Mutant: the form for a new item opens as the last one was left.
OpenFormAsLeft(p, i) ==
  /\ itemForm[p] = Closed
  /\ itemForm' = [itemForm EXCEPT ![p] = [on |-> "new",
       image |-> IF i \in Items /\ Has(i) THEN item[i].image ELSE "none"]]
  /\ UNCHANGED <<rowVars, request, task, lostAnswer, startled>>

\* openCreateItemPanel, or startEditItem with the row the page has loaded.
OpenForm(p, i) ==
  /\ itemForm[p] = Closed
  /\ \/ i = "new" /\ itemForm' = [itemForm EXCEPT ![p] = EmptyForm]
     \/ /\ i \in Items /\ Has(i)
        /\ itemForm' = [itemForm EXCEPT ![p] = [on |-> i, image |-> item[i].image]]
  /\ UNCHANGED <<rowVars, request, task, lostAnswer, startled>>

\* Cancel, Escape and the backdrop work while a save or an upload is under way.
CloseItemForm(p) ==
  /\ itemForm[p] # Closed
  /\ itemForm' = [itemForm EXCEPT ![p] = Closed]
  /\ UNCHANGED <<rowVars, request, task, lostAnswer, startled>>

\* The fields as they are sent: the category chosen and the availability switched
\* in the form, the picture as the picture box has left it.
Payload(p, c, v) ==
  [at |-> "save", on |-> itemForm[p].on, cat |-> c, avail |-> v,
   image |-> itemForm[p].image, raced |-> FALSE]

\* createItem and updateItem look for the item and the category ...
SubmitForm(p, c, v) ==
  /\ itemForm[p] # Closed /\ IsCategory(c)
  /\ itemForm[p].on # "new" => Has(itemForm[p].on)
  /\ Check(p, Payload(p, c, v))

\* ... and write every field; a picture taken out of the form is sent as nothing
\* and stays.  The answer, if it arrives, closes the form that is open by then.
WriteItem(p, i) ==
  LET r == request[p] IN
  /\ r.at = "save"
  /\ IF r.on = "new" THEN ~ Has(i) ELSE i = r.on
  /\ IF ~ IsCategory(r.cat) \/ (r.on # "new" /\ ~ Has(i)) THEN Refuse(p)
     ELSE LET Changed(q) == AboutItem(q, i) \/ q.at = "uncategory" IN
          /\ item' = [item EXCEPT ![i] = [cat |-> r.cat, avail |-> r.avail,
               image |-> IF r.image = "none" /\ r.on # "new" THEN item[i].image ELSE r.image]]
          /\ request' = [Raced(Changed) EXCEPT ![p] = NoCall]
          /\ \/ itemForm' = [itemForm EXCEPT ![p] = Closed] /\ UNCHANGED lostAnswer
             \/ lostAnswer' = TRUE /\ UNCHANGED itemForm
          /\ UNCHANGED <<name, ordered, files, task, startled>>

-----------------------------------------------------------------------------
\* Buttons of an item: toggleAvailability and removeItem

ToggleItem(p, i) ==
  /\ Has(i)
  /\ Check(p, [at |-> "toggle", on |-> i, avail |-> ~ item[i].avail, raced |-> FALSE])

\* Mutant: no order is counted.
RemoveItemAny(p, i) ==
  /\ Has(i)
  /\ Check(p, [at |-> "remove", on |-> i, raced |-> FALSE])

RemoveItem(p, i) ==
  /\ Has(i) /\ ordered[i] # "active"
  /\ Check(p, [at |-> "remove", on |-> i, raced |-> FALSE])

\* An order item keeps its menu item from being deleted, whatever its order is.
WriteButton(p) ==
  LET r == request[p] IN
  /\ r.at \in {"toggle", "remove"}
  /\ IF ~ Has(r.on) \/ (r.at = "remove" /\ ordered[r.on] # "none") THEN Refuse(p)
     ELSE LET Changed(q) == AboutItem(q, r.on) IN
          /\ item' = [item EXCEPT ![r.on] =
               IF r.at = "remove" THEN NoItem ELSE [@ EXCEPT !.avail = r.avail]]
          /\ request' = [Raced(Changed) EXCEPT ![p] = NoCall]
          /\ UNCHANGED <<name, ordered, files, itemForm, task, lostAnswer, startled>>

-----------------------------------------------------------------------------
\* ImageUpload: one file task per page (a bound: a form that is opened
\* anew can start another)

\* Every stored file gets a name of its own.
Fresh(g) ==
  /\ g \notin files
  /\ \A i \in Items : Has(i) => item[i].image # g
  /\ \A q \in Pages :
       /\ task[q] # NoCall => task[q].image # g
       /\ itemForm[q] # Closed => itemForm[q].image # g
       /\ request[q].at = "save" => request[q].image # g

\* The picture box, which saving disables.
BoxIsOpen(p) == itemForm[p] # Closed /\ task[p] = NoCall /\ request[p].at # "save"

StartUpload(p, g) ==
  /\ BoxIsOpen(p)
  /\ Fresh(g)
  /\ task' = [task EXCEPT ![p] = [at |-> "upload", image |-> g]]
  /\ UNCHANGED <<rowVars, itemForm, request, lostAnswer, startled>>

StartRemoval(p) ==
  /\ BoxIsOpen(p)
  /\ itemForm[p].image # "none"
  /\ task' = [task EXCEPT ![p] = [at |-> "removal", image |-> itemForm[p].image]]
  /\ UNCHANGED <<rowVars, itemForm, request, lostAnswer, startled>>

\* validateAndStore or deleteUploadedFile ran; the answer changes the open form.
EndTask(p) ==
  LET t == task[p]
      shown == IF t.at = "upload" THEN t.image ELSE "none"
  IN /\ t # NoCall
     /\ files' = IF t.at = "upload" THEN files \cup {t.image} ELSE files \ {t.image}
     /\ itemForm' = IF itemForm[p] = Closed THEN itemForm ELSE [itemForm EXCEPT ![p].image = shown]
     /\ task' = [task EXCEPT ![p] = NoCall]
     /\ UNCHANGED <<name, item, ordered, request, lostAnswer, startled>>

FailTask(p) ==
  /\ task[p] # NoCall
  /\ task' = [task EXCEPT ![p] = NoCall]
  /\ UNCHANGED <<rowVars, itemForm, request, lostAnswer, startled>>

\* OrdersService, as far as the menu sees it.
DishIsOrdered(i) ==
  LET Changed(q) == AboutItem(q, i) IN
  /\ Has(i)
  /\ \/ item[i].avail /\ ordered' = [ordered EXCEPT ![i] = "active"]
     \/ ordered[i] = "active" /\ ordered' = [ordered EXCEPT ![i] = "past"]
  /\ request' = Raced(Changed)
  /\ UNCHANGED <<name, item, files, itemForm, task, lostAnswer, startled>>

MenuNext ==
  \/ \E p \in Callers :
       \/ \E c \in Categories : RemoveCategory(p, c) \/ \E n \in Names : NameCategory(p, c, n)
       \/ \E i \in Items : ToggleItem(p, i) \/ RemoveItem(p, i)
       \/ WriteCategory(p) \/ WriteButton(p)
  \/ \E p \in Pages :
       \/ \E i \in Items \cup {"new"} : OpenForm(p, i)
       \/ CloseItemForm(p) \/ \E c \in Categories, v \in BOOLEAN : SubmitForm(p, c, v)
       \/ \E i \in Items : WriteItem(p, i)
       \/ \E g \in Images : StartUpload(p, g)
       \/ StartRemoval(p) \/ EndTask(p) \/ FailTask(p)
  \/ \E i \in Items : DishIsOrdered(i)

MenuSpec == MenuInit /\ [][MenuNext]_menuVars

-----------------------------------------------------------------------------
\* Two items show one picture only if a save was written whose answer was lost,
\* so that the form could be sent again: uploads that land in another form than
\* the one they were chosen in give an item a wrong picture, never a shared one.
PicturesAreNotShared ==
  \A i, j \in Items :
    i # j /\ Has(i) /\ Has(j) /\ item[i].image = item[j].image =>
      item[i].image = "none" \/ lostAnswer

\* Whoever is answered with a bare 500 was overtaken by another request, or was
\* deleting an item that occurs in past orders only.
MenuErrorsAreRaces == ~ startled

\* The variables hold rows, forms and requests.
Image == Images \cup {"none"}
ItemRows == {NoItem} \cup [cat : Categories, avail : BOOLEAN, image : Image]
Forms == {Closed} \cup [on : Items \cup {"new"}, image : Image]
RequestRows ==
  {NoCall}
  \cup [at : {"category", "uncategory"}, on : Categories, name : Names \cup {"none"},
        new : BOOLEAN, raced : BOOLEAN]
  \cup [at : {"save"}, on : Items \cup {"new"}, cat : Categories, avail : BOOLEAN,
        image : Image, raced : BOOLEAN]
  \cup [at : {"toggle"}, on : Items, avail : BOOLEAN, raced : BOOLEAN]
  \cup [at : {"remove"}, on : Items, raced : BOOLEAN]
TaskRows == {NoCall} \cup [at : {"upload", "removal"}, image : Images]
MenuTypeOK ==
  /\ name \in [Categories -> Names \cup {"none"}]
  /\ item \in [Items -> ItemRows]
  /\ ordered \in [Items -> {"none", "active", "past"}]
  /\ itemForm \in [Pages -> Forms]
  /\ request \in [Callers -> RequestRows] /\ \A p \in Callers \ Pages : request[p].at # "save"
  /\ task \in [Pages -> TaskRows]
  /\ lostAnswer \in BOOLEAN /\ startled \in BOOLEAN

\* What MenuErrorsAreRaces needs: names differ, and a request nobody overtook
\* would still pass its checks.
NamesDiffer ==
  \A c, d \in Categories : name[c] = name[d] /\ name[c] # "none" => c = d
Stands(r) ==
  /\ r.at = "category" => /\ r.name # "none" /\ (IsCategory(r.on) <=> ~ r.new)
                          /\ \A d \in Categories \ {r.on} : name[d] # r.name
  /\ r.at = "uncategory" => IsCategory(r.on) /\ ~ r.new /\ \A i \in Items : item[i].cat # r.on
  /\ r.at = "save" => IsCategory(r.cat) /\ (r.on # "new" => Has(r.on))
  /\ r.at = "toggle" => Has(r.on)
  /\ r.at = "remove" => Has(r.on) /\ ordered[r.on] # "active"
RequestsStand ==
  /\ \A p \in Callers : request[p].at # "idle" => request[p].raced \/ Stands(request[p])
  /\ \A p \in Callers : /\ request[p].at = "category" => request[p].name # "none"
                        /\ request[p].at = "uncategory" => request[p].name = "none"

\* What PicturesAreNotShared needs: a picture is on its way to one item only,
\* the one that shows it or the one a page is about to make.
Home(p, on) == IF on = "new" THEN <<"new", p>> ELSE <<"item", on>>
HomesOf(g) ==
  {<<"item", i>> : i \in {i \in Items : Has(i) /\ item[i].image = g}}
  \cup {Home(p, itemForm[p].on) : p \in {p \in Pages : itemForm[p] # Closed /\ itemForm[p].image = g}}
  \cup {Home(p, request[p].on) : p \in {p \in Pages : request[p].at = "save" /\ request[p].image = g}}
PicturesHaveOneHome ==
  lostAnswer \/ \A g \in Images :
    /\ \A h, k \in HomesOf(g) : h = k
    /\ \A p \in Pages : task[p].at = "upload" /\ task[p].image = g =>
         /\ HomesOf(g) = {}
         /\ \A q \in Pages : task[q].at # "idle" /\ task[q].image = g => q = p

MenuInv ==
  /\ MenuTypeOK /\ NamesDiffer /\ RequestsStand /\ MenuErrorsAreRaces
  /\ PicturesHaveOneHome
=============================================================================
