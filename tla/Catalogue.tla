------------------------------- MODULE Catalogue -------------------------------
(***************************************************************************)
(* The catalogue: articles with their image and category, as the forms of  *)
(* the back office write them through the API (new-article-form.tsx,       *)
(* edit-article-form.tsx, articles.service.ts), and the categories         *)
(* (article-categories.service.ts).                                        *)
(*                                                                         *)
(* Only updates of an image touch files.  Names, texts, prices and         *)
(* `online' are left out, and so are categories named by a slug.           *)
(***************************************************************************)
EXTENDS Integers, FiniteSets

CONSTANTS
  Articles,    \* the articles that may be created
  FormIds,     \* pages with an article form
  Categories,  \* the categories, by id, positive
  Autres,      \* the default category, from the migration
  Slugs,       \* the slugs a category may have, "autres" among them
  StaffIds,    \* requests to remove or change a category or an article
  MaxFile      \* bound on uploads

ASSUME CatalogueAssumption ==
  /\ Categories \subseteq Nat \ {0}
  /\ Autres \in Categories
  /\ "autres" \in Slugs
  /\ MaxFile \in Nat

NoArticle == "no article"
NoCategory == 0
NoFile == 0

VARIABLES
  article,   \* the Article rows
  usedIn,   \* what refers to an article: nothing, its journal, or sales too
  category,  \* the ArticleCategory rows
  disk,      \* the files in the upload directory
  lastFile,  \* file names are never used twice
  form,      \* the forms, each with the request it waits for
  staff,     \* such requests, between their read and their write
  unsure     \* history: articles whose image update was lost on the way back

catalogueVars == <<article, usedIn, category, disk, lastFile, form, staff, unsure>>

NoArticleRow == [state |-> "absent", category |-> NoCategory, image |-> NoFile]
NoForm == [at |-> "closed", page |-> NoArticle, target |-> NoArticle,
           category |-> NoCategory, file |-> NoFile, old |-> NoFile]
NoWork == [op |-> "none", category |-> NoCategory, article |-> NoArticle,
           slug |-> "autres", free |-> FALSE]

CategoryExists(c) == category[c].state \in {"active", "inactive"}
Stored(a) == article[a].state \in {"live", "archived"}

CatalogueInit ==
  /\ article = [a \in Articles |-> NoArticleRow]
  /\ usedIn = [a \in Articles |-> "none"]
  /\ category = [c \in Categories |->
                  [state |-> IF c = Autres THEN "active" ELSE "absent", slug |-> "autres"]]
  /\ disk = {} /\ lastFile = 0
  /\ form = [f \in FormIds |-> NoForm]
  /\ staff = [s \in StaffIds |-> NoWork]
  /\ unsure = {}

-----------------------------------------------------------------------------
(* The article forms.                                                      *)

Moves(f, new) == form' = [form EXCEPT ![f] = new]
FormOnly(f, new) ==
  /\ Moves(f, new)
  /\ UNCHANGED <<article, usedIn, category, disk, lastFile, staff, unsure>>

\* The page of a new article, or of one that is there.
OpenForm(f, a) ==
  /\ form[f].at = "closed"
  /\ a # NoArticle => Stored(a)
  /\ FormOnly(f, [NoForm EXCEPT !.at = "open", !.page = a])

LeaveForm(f) == form[f].at # "closed" /\ FormOnly(f, NoForm)

\* An error on display: a page for a new article forgets what it has created.
Reopened(f) == [NoForm EXCEPT !.at = "open", !.page = form[f].page]

Assignable == {NoCategory} \cup {c \in Categories : category[c].state = "active"}

\* handleSubmit, and the API as far as resolveCategoryId; the list the page
\* offers may be old.
ResolveCategory(f, c) ==
  /\ form[f].at = "open" /\ c \in Assignable
  /\ FormOnly(f, [form[f] EXCEPT !.at = "resolved", !.category = c])

\* create or update: refused when the category, or the article, is gone by then.
SaveArticle(f, a) ==
  /\ form[f].at = "resolved"
  /\ IF form[f].page = NoArticle THEN article[a].state = "absent" ELSE a = form[f].page
  /\ LET c == form[f].category
         refused == (c # NoCategory /\ ~ CategoryExists(c)) \/ article[a].state = "deleted"
         state == IF article[a].state = "absent" THEN "live" ELSE article[a].state
     IN  IF refused
         THEN Moves(f, Reopened(f)) /\ UNCHANGED article
         ELSE /\ article' = [article EXCEPT ![a].state = state, ![a].category = c]
              /\ \/ Moves(f, NoForm)
                 \/ Moves(f, [Reopened(f) EXCEPT !.at = "saved", !.target = a])
  /\ UNCHANGED <<usedIn, category, disk, lastFile, staff, unsure>>

\* The upload that follows: the file is on the disk before its handler runs,
\* unless the API finds it too large, which the form need not.
StoreImage(f) ==
  /\ form[f].at = "saved"
  /\ lastFile < MaxFile
  /\ lastFile' = lastFile + 1
  /\ disk' = disk \cup {lastFile'}
  /\ Moves(f, [form[f] EXCEPT !.at = "stored", !.file = lastFile'])
  /\ UNCHANGED <<article, usedIn, category, staff, unsure>>

RefuseImage(f) == form[f].at = "saved" /\ FormOnly(f, Reopened(f))

\* updateImage: the image to be replaced is read; without an article, the new
\* file is deleted.
ReadImage(f) ==
  /\ form[f].at = "stored"
  /\ IF Stored(form[f].target)
     THEN /\ Moves(f, [form[f] EXCEPT !.at = "read", !.old = article[form[f].target].image])
          /\ UNCHANGED disk
     ELSE Moves(f, Reopened(f)) /\ disk' = disk \ {form[f].file}
  /\ UNCHANGED <<article, usedIn, category, lastFile, staff, unsure>>

UpdateImage(f) ==
  /\ form[f].at = "read" /\ Stored(form[f].target)
  /\ article' = [article EXCEPT ![form[f].target].image = form[f].file]
  /\ Moves(f, [form[f] EXCEPT !.at = "updated"])
  /\ unsure' = unsure \ {form[f].target}
  /\ UNCHANGED <<usedIn, category, disk, lastFile, staff>>

\* The update throws, perhaps after the row was written: the file goes.
UpdateImageFails(f) ==
  /\ form[f].at = "read"
  /\ \/ UNCHANGED <<article, unsure>>
     \/ /\ Stored(form[f].target)
        /\ article' = [article EXCEPT ![form[f].target].image = form[f].file]
        /\ unsure' = unsure \cup {form[f].target}
  /\ disk' = disk \ {form[f].file}
  /\ Moves(f, Reopened(f))
  /\ UNCHANGED <<usedIn, category, lastFile, staff>>

\* Variant: what the row has now is deleted.
DeleteCurrentImage(f) ==
  /\ form[f].at = "updated"
  /\ disk' = disk \ {article[form[f].target].image}
  /\ Moves(f, NoForm)
  /\ UNCHANGED <<article, usedIn, category, lastFile, staff, unsure>>

\* What it read before is deleted from the disk.
DeleteOldImage(f) ==
  /\ form[f].at = "updated"
  /\ disk' = disk \ {form[f].old}
  /\ Moves(f, NoForm)
  /\ UNCHANGED <<article, usedIn, category, lastFile, staff, unsure>>

-----------------------------------------------------------------------------
(* The articles themselves.                                                *)

ForStaff(s, work) == staff' = [staff EXCEPT ![s] = work]

\* A movement or a lot, or an order or a sale; what an order read of the article
\* may be old.
UseArticle(a, kind) ==
  /\ Stored(a) /\ usedIn[a] # "sales"
  /\ usedIn' = [usedIn EXCEPT ![a] = kind]
  /\ UNCHANGED <<article, category, disk, lastFile, form, staff, unsure>>

\* remove, with its first statement: what refers to the article is counted.
BeginRemoveArticle(s, a) ==
  /\ staff[s] = NoWork /\ Stored(a)
  /\ ForStaff(s, [NoWork EXCEPT !.op = "remove article", !.article = a,
                                !.free = usedIn[a] = "none"])
  /\ UNCHANGED <<article, usedIn, category, disk, lastFile, form, unsure>>

\* The schema: order lines and sale lines keep their article, movements and lots
\* lose it.
Deletable(a) == usedIn[a] # "sales"

\* Archived if anything was counted, or deleted; the image stays on the disk.
EndRemoveArticle(s) ==
  /\ staff[s].op = "remove article"
  /\ LET a == staff[s].article
     IN  article' = [article EXCEPT ![a] =
           IF ~ Stored(a) THEN @
           ELSE IF ~ staff[s].free THEN [@ EXCEPT !.state = "archived"]
           ELSE IF Deletable(a) THEN [NoArticleRow EXCEPT !.state = "deleted"] ELSE @]
  /\ ForStaff(s, NoWork)
  /\ UNCHANGED <<usedIn, category, disk, lastFile, form, unsure>>

-----------------------------------------------------------------------------
(* The categories.                                                         *)

Taken(slug, c) == \E d \in Categories \ {c} : CategoryExists(d) /\ category[d].slug = slug

ForCategories(s, work) ==
  /\ ForStaff(s, work)
  /\ UNCHANGED <<article, usedIn, disk, lastFile, form, unsure>>

CreateCategory(c, slug) ==
  /\ category[c].state = "absent" /\ ~ Taken(slug, c)
  /\ category' = [category EXCEPT ![c] = [state |-> "active", slug |-> slug]]
  /\ UNCHANGED <<article, usedIn, disk, lastFile, form, staff, unsure>>

\* Variant: only its state is kept.
BeginUpdateOfAnySlug(s, c, op, slug) ==
  /\ staff[s] = NoWork /\ CategoryExists(c)
  /\ category[c].slug = "autres" => op # "deactivate"
  /\ ForCategories(s, [NoWork EXCEPT !.op = op, !.category = c, !.slug = slug])
  /\ UNCHANGED category

\* update, with its first read: the default category stays active, with its slug.
BeginUpdate(s, c, op, slug) ==
  /\ staff[s] = NoWork /\ CategoryExists(c)
  /\ category[c].slug = "autres" => op # "deactivate" /\ slug = "autres"
  /\ ForCategories(s, [NoWork EXCEPT !.op = op, !.category = c, !.slug = slug])
  /\ UNCHANGED category

EndUpdate(s) ==
  /\ staff[s].op \in {"activate", "deactivate"}
  /\ LET c == staff[s].category
     IN  category' = IF CategoryExists(c) /\ ~ Taken(staff[s].slug, c)
                     THEN [category EXCEPT ![c] =
                            [state |-> IF staff[s].op = "activate" THEN "active"
                                       ELSE "inactive",
                             slug |-> staff[s].slug]]
                     ELSE category
  /\ ForCategories(s, NoWork)

\* remove, with its first read: the default category stays.
BeginRemove(s, c) ==
  /\ staff[s] = NoWork /\ CategoryExists(c)
  /\ category[c].slug # "autres"
  /\ ForCategories(s, [NoWork EXCEPT !.op = "remove category", !.category = c,
       !.free = \A a \in Articles : article[a].category # c])
  /\ UNCHANGED category

\* A category found empty is deleted; articles assigned since then lose it.
EndRemove(s) ==
  /\ staff[s].op = "remove category"
  /\ LET c == staff[s].category
     IN  IF ~ CategoryExists(c) THEN UNCHANGED <<category, article>>
         ELSE IF staff[s].free
         THEN /\ category' = [category EXCEPT ![c] = [state |-> "deleted", slug |-> "autres"]]
              /\ article' = [a \in Articles |->
                   IF article[a].category = c
                   THEN [article[a] EXCEPT !.category = NoCategory] ELSE article[a]]
         ELSE category' = [category EXCEPT ![c].state = "inactive"] /\ UNCHANGED article
  /\ ForStaff(s, NoWork)
  /\ UNCHANGED <<usedIn, disk, lastFile, form, unsure>>

CatalogueNext ==
  \/ \E f \in FormIds :
       \/ \E a \in Articles \cup {NoArticle} : OpenForm(f, a)
       \/ \E c \in Categories \cup {NoCategory} : ResolveCategory(f, c)
       \/ \E a \in Articles : SaveArticle(f, a)
       \/ StoreImage(f) \/ RefuseImage(f) \/ ReadImage(f)
       \/ UpdateImage(f) \/ UpdateImageFails(f) \/ DeleteOldImage(f) \/ LeaveForm(f)
  \/ \E a \in Articles, kind \in {"journal", "sales"} : UseArticle(a, kind)
  \/ \E c \in Categories, slug \in Slugs : CreateCategory(c, slug)
  \/ \E s \in StaffIds :
       \/ \E c \in Categories, op \in {"activate", "deactivate"}, slug \in Slugs :
            BeginUpdate(s, c, op, slug)
       \/ \E c \in Categories : BeginRemove(s, c)
       \/ \E a \in Articles : BeginRemoveArticle(s, a)
       \/ EndUpdate(s) \/ EndRemove(s) \/ EndRemoveArticle(s)

CatalogueSpec == CatalogueInit /\ [][CatalogueNext]_catalogueVars

-----------------------------------------------------------------------------
(* Properties.                                                             *)

\* An article never refers to an image whose file is gone, whoever else uploads
\* for it at the same time, unless the answer of its own update was lost.
ImagesAreOnDisk ==
  \A a \in Articles : a \notin unsure => article[a].image \in disk \cup {NoFile}

\* The default category is always there, active, although what is checked of a
\* category is checked before another statement writes it; the category of an
\* article is always one there is; and an article that was ordered or sold is
\* never deleted, although what refers to it is counted before.
CatalogueIsSound ==
  /\ category[Autres] = [state |-> "active", slug |-> "autres"]
  /\ \A a \in Articles :
       /\ article[a].category # NoCategory => CategoryExists(article[a].category)
       /\ usedIn[a] = "sales" => Stored(a)
=============================================================================
