-------------------------- MODULE BackOfficeProofs --------------------------
(***************************************************************************)
(* Proofs about the components of the back office: the catalogue, the      *)
(* staff accounts, the till, what is to be produced and the pages.         *)
(***************************************************************************)
EXTENDS Catalogue, Accounts, CashRegister, ProductionNeeds, BackOffice, SumLemmas,
        TLAPS

-----------------------------------------------------------------------------
(***************************************************************************)
(* Catalogue, for any articles, forms, categories and requests, and any    *)
(* number of uploads.                                                      *)
(***************************************************************************)

ArticleRows == [state : {"absent", "live", "archived", "deleted"},
                category : Categories \cup {NoCategory}, image : 0..lastFile]
CategoryRows == [state : {"absent", "active", "inactive", "deleted"}, slug : Slugs]
Forms == [at : {"closed", "open", "resolved", "saved", "stored", "read", "updated"},
          page : Articles \cup {NoArticle}, target : Articles \cup {NoArticle},
          category : Categories \cup {NoCategory}, file : 0..lastFile, old : 0..lastFile]
StaffWork == [op : {"none", "remove article", "activate", "deactivate", "remove category"},
              category : Categories \cup {NoCategory}, article : Articles \cup {NoArticle},
              slug : Slugs, free : BOOLEAN]

\* Rows, forms and requests have their types.
CatalogueTypeOK ==
  /\ lastFile \in Nat
  /\ article \in [Articles -> ArticleRows]
  /\ usedIn \in [Articles -> {"none", "journal", "sales"}]
  /\ category \in [Categories -> CategoryRows]
  /\ disk \subseteq 1..lastFile
  /\ form \in [FormIds -> Forms]
  /\ staff \in [StaffIds -> StaffWork]
  /\ unsure \subseteq Articles

-----------------------------------------------------------------------------
(* Images.                                                                 *)

Uploading(f) == form[f].at \in {"stored", "read"}
HasTarget(f) == form[f].at \in {"saved", "stored", "read", "updated"}

\* A form past its article has one.
TargetKnown == \A f \in FormIds : HasTarget(f) => form[f].target \in Articles

\* A file on its way to a row is on the disk, and nothing refers to it yet: no
\* row, no other form, and no form that will delete what it read.
FilesAreFresh ==
  \A f \in FormIds : Uploading(f) =>
    /\ form[f].file \in disk
    /\ \A a \in Articles : article[a].image # form[f].file
    /\ \A g \in FormIds : form[g].old # form[f].file
    /\ \A g \in FormIds \ {f} : form[g].file # form[f].file

\* A form that has not stored a file has none, nor has it read one.
Bare(x) == /\ x.at \in {"closed", "open", "resolved", "saved"}
           /\ x.file = NoFile /\ x.old = NoFile
           /\ x.at = "saved" => x.target \in Articles
BareHoldsNoFile ==
  \A f \in FormIds :
    /\ form[f].at \in {"closed", "open", "resolved", "saved"} => Bare(form[f])
    /\ form[f].at = "stored" => form[f].old = NoFile

\* What a form will delete is the image of its own article at most, and of none
\* once it has been replaced.
OldIsUnused ==
  \A f \in FormIds : \A a \in Articles :
    /\ form[f].at = "read" /\ a # form[f].target
         => form[f].old = NoFile \/ article[a].image # form[f].old
    /\ form[f].at = "updated" => form[f].old = NoFile \/ article[a].image # form[f].old

\* Two articles never share an image.
ImagesApart ==
  \A a, b \in Articles : a # b => article[a].image = NoFile \/ article[a].image # article[b].image

ImagesInv == /\ CatalogueTypeOK /\ TargetKnown /\ FilesAreFresh /\ BareHoldsNoFile
             /\ OldIsUnused /\ ImagesApart /\ ImagesAreOnDisk

-----------------------------------------------------------------------------
(* Categories.                                                             *)

\* No request under way would take away the default category or its slug.
DefaultIsSpared ==
  \A s \in StaffIds : staff[s].category = Autres =>
    /\ staff[s].op \notin {"deactivate", "remove category"}
    /\ staff[s].op = "activate" => staff[s].slug = "autres"

\* A request has what it works on.
WorkIsKnown ==
  \A s \in StaffIds :
    /\ staff[s].op \in {"activate", "deactivate", "remove category"}
         => staff[s].category \in Categories
    /\ staff[s].op = "remove article" => staff[s].article \in Articles

CategoriesInv == CatalogueTypeOK /\ DefaultIsSpared /\ WorkIsKnown /\ CatalogueIsSound

-----------------------------------------------------------------------------

LEMMA CatalogueInitInv == CatalogueInit => ImagesInv /\ CategoriesInv
<1> SUFFICES ASSUME CatalogueInit PROVE ImagesInv /\ CategoriesInv
  OBVIOUS
<1> USE CatalogueAssumption DEF CatalogueInit, NoFile, NoCategory
<1>1. CatalogueTypeOK
  BY DEF CatalogueTypeOK, ArticleRows, CategoryRows, Forms, StaffWork, NoArticleRow, NoForm, NoWork
<1>2. TargetKnown /\ FilesAreFresh /\ BareHoldsNoFile /\ OldIsUnused
  BY DEF TargetKnown, HasTarget, FilesAreFresh, Uploading, BareHoldsNoFile, Bare, OldIsUnused, NoForm
<1>3. ImagesApart /\ ImagesAreOnDisk /\ CatalogueIsSound
  BY DEF ImagesApart, ImagesAreOnDisk, CatalogueIsSound, NoArticleRow
<1>4. DefaultIsSpared /\ WorkIsKnown
  BY DEF DefaultIsSpared, WorkIsKnown, NoWork
<1> QED BY <1>1, <1>2, <1>3, <1>4 DEF ImagesInv, CategoriesInv

\* The value of a form after a step that moves it.
LEMMA FormMoves ==
  ASSUME CatalogueTypeOK, NEW f \in FormIds, NEW new, Moves(f, new)
  PROVE  /\ \A g \in FormIds : form'[g] = IF g = f THEN new ELSE form[g]
         /\ new \in Forms => form' \in [FormIds -> Forms]
BY DEF CatalogueTypeOK, Moves

-----------------------------------------------------------------------------
(* Types.                                                                  *)

LEMMA FormOnlyType ==
  ASSUME CatalogueTypeOK, NEW f \in FormIds, NEW new \in Forms, FormOnly(f, new)
  PROVE  CatalogueTypeOK'
BY FormMoves DEF CatalogueTypeOK, FormOnly, ArticleRows, CategoryRows, Forms, StaffWork

LEMMA NoFileIsAFile == CatalogueTypeOK => NoFile \in 0..lastFile
BY DEF CatalogueTypeOK, NoFile

LEMMA NoFormType == CatalogueTypeOK => NoForm \in Forms /\ \A f \in FormIds : Reopened(f) \in Forms
<1> SUFFICES ASSUME CatalogueTypeOK
             PROVE  NoForm \in Forms /\ \A f \in FormIds : Reopened(f) \in Forms
  OBVIOUS
<1>1. NoFile \in 0..lastFile
  BY NoFileIsAFile
<1>2. NoForm \in Forms
  BY <1>1 DEF NoForm, Forms
<1>3. ASSUME NEW f \in FormIds PROVE Reopened(f) \in Forms
  <2>1. form[f].page \in Articles \cup {NoArticle}
    BY DEF CatalogueTypeOK, Forms
  <2> QED BY <1>1, <2>1 DEF Reopened, NoForm, Forms
<1> QED BY <1>2, <1>3

LEMMA FormsType ==
  ASSUME CatalogueTypeOK, NEW f \in FormIds,
         \/ \E a \in Articles \cup {NoArticle} : OpenForm(f, a)
         \/ \E c \in Categories \cup {NoCategory} : ResolveCategory(f, c)
         \/ RefuseImage(f) \/ LeaveForm(f)
  PROVE  CatalogueTypeOK'
<1>1. ASSUME NEW a \in Articles \cup {NoArticle}, OpenForm(f, a) PROVE CatalogueTypeOK'
  <2>1. [NoForm EXCEPT !.at = "open", !.page = a] \in Forms
    BY NoFormType DEF Forms
  <2> QED BY <1>1, <2>1, FormOnlyType DEF OpenForm
<1>2. ASSUME NEW c \in Categories \cup {NoCategory}, ResolveCategory(f, c) PROVE CatalogueTypeOK'
  <2>1. [form[f] EXCEPT !.at = "resolved", !.category = c] \in Forms
    BY DEF CatalogueTypeOK, Forms
  <2> QED BY <1>2, <2>1, FormOnlyType DEF ResolveCategory
<1>3. CASE RefuseImage(f) \/ LeaveForm(f)
  BY <1>3, NoFormType, FormOnlyType DEF RefuseImage, LeaveForm
<1> QED BY <1>1, <1>2, <1>3

LEMMA SaveArticleType ==
  ASSUME CatalogueTypeOK, NEW f \in FormIds, NEW a \in Articles, SaveArticle(f, a)
  PROVE  CatalogueTypeOK'
<1>1. [Reopened(f) EXCEPT !.at = "saved", !.target = a] \in Forms
  BY NoFormType DEF Forms
<1>2. form' \in [FormIds -> Forms]
  BY <1>1, NoFormType, FormMoves DEF SaveArticle
<1>3. article' \in [Articles -> ArticleRows]
  BY DEF SaveArticle, CatalogueTypeOK, ArticleRows, Forms
<1> QED BY <1>2, <1>3 DEF CatalogueTypeOK, SaveArticle, ArticleRows, CategoryRows, Forms, StaffWork

LEMMA ImageType ==
  ASSUME CatalogueTypeOK, NEW f \in FormIds,
         StoreImage(f) \/ ReadImage(f) \/ UpdateImage(f) \/ UpdateImageFails(f) \/ DeleteOldImage(f),
         TargetKnown
  PROVE  CatalogueTypeOK'
<1> USE DEF CatalogueTypeOK, Moves, TargetKnown, HasTarget
<1>1. CASE StoreImage(f)
  <2>1. lastFile' = lastFile + 1 /\ 0..lastFile \subseteq 0..lastFile' /\ disk' \subseteq 1..lastFile'
    BY <1>1 DEF StoreImage
  <2>2. Forms \subseteq Forms' /\ ArticleRows \subseteq ArticleRows'
    BY <2>1 DEF Forms, ArticleRows
  <2>3. [form[f] EXCEPT !.at = "stored", !.file = lastFile'] \in Forms'
    <3>1. form[f] \in Forms' /\ lastFile' \in 0..lastFile'
      BY <2>1, <2>2
    <3> QED BY <3>1 DEF Forms
  <2>4. form' \in [FormIds -> Forms'] /\ article' \in [Articles -> ArticleRows']
    BY <1>1, <2>2, <2>3 DEF StoreImage
  <2>5. UNCHANGED <<article, usedIn, category, staff, unsure>> /\ lastFile' \in Nat
    BY <1>1, <2>1 DEF StoreImage
  <2> QED BY <2>1, <2>4, <2>5 DEF CategoryRows, StaffWork
<1>2. CASE ReadImage(f)
  <2>1. form[f].target \in Articles
    BY <1>2 DEF ReadImage
  <2>2. [form[f] EXCEPT !.at = "read", !.old = article[form[f].target].image] \in Forms
    BY <2>1 DEF Forms, ArticleRows
  <2>3. form' \in [FormIds -> Forms] /\ disk' \subseteq disk
    BY <1>2, <2>2, NoFormType DEF ReadImage
  <2> QED BY <1>2, <2>3 DEF ReadImage, ArticleRows, CategoryRows, Forms, StaffWork
<1>3. CASE UpdateImage(f) \/ UpdateImageFails(f) \/ DeleteOldImage(f)
  <2>1. form[f].target \in Articles
    BY <1>3 DEF UpdateImage, UpdateImageFails, DeleteOldImage
  <2>2. form[f].file \in 0..lastFile /\ [form[f] EXCEPT !.at = "updated"] \in Forms
    BY DEF Forms
  <2>3. [article EXCEPT ![form[f].target].image = form[f].file] \in [Articles -> ArticleRows]
    BY <2>1, <2>2 DEF ArticleRows
  <2>4. /\ form' \in [FormIds -> Forms] /\ article' \in [Articles -> ArticleRows]
        /\ disk' \subseteq disk /\ unsure' \subseteq Articles
    BY <1>3, <2>1, <2>2, <2>3, NoFormType DEF UpdateImage, UpdateImageFails, DeleteOldImage
  <2>5. UNCHANGED <<lastFile, usedIn, category, staff>>
    BY <1>3 DEF UpdateImage, UpdateImageFails, DeleteOldImage
  <2> QED BY <2>4, <2>5 DEF ArticleRows, CategoryRows, Forms, StaffWork
<1> QED BY <1>1, <1>2, <1>3

RowSteps ==
  \/ \E a \in Articles, kind \in {"journal", "sales"} : UseArticle(a, kind)
  \/ \E c \in Categories, slug \in Slugs : CreateCategory(c, slug)
  \/ \E s \in StaffIds :
       \/ \E c \in Categories, op \in {"activate", "deactivate"}, slug \in Slugs :
            BeginUpdate(s, c, op, slug)
       \/ \E c \in Categories : BeginRemove(s, c)
       \/ \E a \in Articles : BeginRemoveArticle(s, a)
       \/ EndUpdate(s) \/ EndRemove(s) \/ EndRemoveArticle(s)

\* What the steps of the staff and of those who use articles have in common.
LEMMA RowStepsFacts ==
  ASSUME CatalogueTypeOK, WorkIsKnown, RowSteps
  PROVE  /\ CatalogueTypeOK'
         /\ UNCHANGED <<form, disk, lastFile, unsure>>
         /\ \A a \in Articles : article'[a].image \in {article[a].image, NoFile}
<1> USE CatalogueAssumption DEF CatalogueTypeOK, ForStaff, ForCategories, WorkIsKnown
<1> DEFINE Facts == /\ CatalogueTypeOK'
                    /\ UNCHANGED <<form, disk, lastFile, unsure>>
                    /\ \A a \in Articles : article'[a].image \in {article[a].image, NoFile}
<1>0. NoWork \in StaffWork /\ NoArticleRow \in ArticleRows
  <2>1. NoFile \in 0..lastFile
    BY NoFileIsAFile
  <2>2. NoWork \in StaffWork
    BY DEF NoWork, StaffWork
  <2>3. NoArticleRow \in ArticleRows
    BY <2>1 DEF NoArticleRow, ArticleRows
  <2> QED BY <2>2, <2>3
<1>1. ASSUME NEW a \in Articles, NEW kind \in {"journal", "sales"}, UseArticle(a, kind) PROVE Facts
  BY <1>1 DEF UseArticle, ArticleRows, CategoryRows, Forms, StaffWork
<1>2. ASSUME NEW c \in Categories, NEW slug \in Slugs, CreateCategory(c, slug) PROVE Facts
  BY <1>2 DEF CreateCategory, ArticleRows, CategoryRows, Forms, StaffWork
<1>3. ASSUME NEW s \in StaffIds, NEW c \in Categories, NEW op \in {"activate", "deactivate"},
             NEW slug \in Slugs, BeginUpdate(s, c, op, slug)
      PROVE  Facts
  <2>1. [NoWork EXCEPT !.op = op, !.category = c, !.slug = slug] \in StaffWork
    BY <1>0 DEF StaffWork
  <2> QED BY <1>3, <2>1 DEF BeginUpdate, ArticleRows, CategoryRows, Forms, StaffWork
<1>4. ASSUME NEW s \in StaffIds, NEW c \in Categories, BeginRemove(s, c) PROVE Facts
  <2> DEFINE free == \A a \in Articles : article[a].category # c
  <2>1. [NoWork EXCEPT !.op = "remove category", !.category = c, !.free = free] \in StaffWork
    <3> HIDE DEF CatalogueTypeOK
    <3>1. free \in BOOLEAN
      OBVIOUS
    <3> HIDE DEF free
    <3> QED BY <1>0, <3>1 DEF StaffWork
  <2> QED BY <1>4, <2>1 DEF BeginRemove, ArticleRows, CategoryRows, Forms, StaffWork
<1>5. ASSUME NEW s \in StaffIds, NEW a \in Articles, BeginRemoveArticle(s, a) PROVE Facts
  <2>1. [NoWork EXCEPT !.op = "remove article", !.article = a, !.free = usedIn[a] = "none"]
          \in StaffWork
    BY <1>0 DEF StaffWork
  <2> QED BY <1>5, <2>1 DEF BeginRemoveArticle, ArticleRows, CategoryRows, Forms, StaffWork
<1>6. ASSUME NEW s \in StaffIds, EndUpdate(s) PROVE Facts
  <2>1. staff[s].category \in Categories /\ staff[s].slug \in Slugs
    BY <1>6 DEF EndUpdate, StaffWork
  <2>2. category' \in [Categories -> CategoryRows]
    BY <1>6, <2>1 DEF EndUpdate, CategoryRows
  <2> QED BY <1>0, <1>6, <2>2 DEF EndUpdate, ArticleRows, CategoryRows, Forms, StaffWork
<1>7. ASSUME NEW s \in StaffIds, EndRemove(s) PROVE Facts
  <2>1. staff[s].category \in Categories
    BY <1>7 DEF EndRemove
  <2> DEFINE c == staff[s].category
             removed == [state |-> "deleted", slug |-> "autres"]
  <2>2. \/ UNCHANGED <<category, article>>
        \/ /\ category' = [category EXCEPT ![c] = removed]
           /\ article' = [a \in Articles |->
                IF article[a].category = c
                THEN [article[a] EXCEPT !.category = NoCategory] ELSE article[a]]
        \/ category' = [category EXCEPT ![c].state = "inactive"] /\ UNCHANGED article
    BY <1>7 DEF EndRemove
  <2>3. removed \in CategoryRows
    BY DEF CategoryRows
  <2>4. category' \in [Categories -> CategoryRows]
    <3>1. [category EXCEPT ![c].state = "inactive"] \in [Categories -> CategoryRows]
      BY DEF CategoryRows
    <3> HIDE DEF removed, c
    <3>2. [category EXCEPT ![c] = removed] \in [Categories -> CategoryRows]
      BY <2>3
    <3> QED BY <2>2, <3>1, <3>2
  <2>5. /\ article' \in [Articles -> ArticleRows]
        /\ \A a \in Articles : article'[a].image = article[a].image
    <3>1. ASSUME NEW a \in Articles
          PROVE  [article[a] EXCEPT !.category = NoCategory] \in ArticleRows
      BY DEF ArticleRows
    <3>2. ASSUME NEW a \in Articles
          PROVE  [article[a] EXCEPT !.category = NoCategory].image = article[a].image
      BY DEF ArticleRows
    <3> DEFINE emptied == [a \in Articles |->
                            IF article[a].category = c
                            THEN [article[a] EXCEPT !.category = NoCategory] ELSE article[a]]
    <3>3. /\ emptied \in [Articles -> ArticleRows]
          /\ \A a \in Articles : emptied[a].image = article[a].image
      <4> HIDE DEF c
      <4>1. article \in [Articles -> ArticleRows]
        OBVIOUS
      <4> HIDE DEF CatalogueTypeOK
      <4> QED BY <3>1, <3>2, <4>1
    <3>4. article' = article \/ article' = emptied
      BY <2>2
    <3>5. article \in [Articles -> ArticleRows]
      OBVIOUS
    <3> HIDE DEF emptied, CatalogueTypeOK
    <3> QED BY <3>3, <3>4, <3>5
  <2> QED BY <1>0, <1>7, <2>4, <2>5 DEF EndRemove, ArticleRows, CategoryRows, Forms, StaffWork
<1>8. ASSUME NEW s \in StaffIds, EndRemoveArticle(s) PROVE Facts
  <2>1. staff[s].article \in Articles
    BY <1>8 DEF EndRemoveArticle
  <2>2. /\ article' \in [Articles -> ArticleRows]
        /\ \A a \in Articles : article'[a].image \in {article[a].image, NoFile}
    BY <1>0, <1>8, <2>1 DEF EndRemoveArticle, ArticleRows, NoArticleRow
  <2> QED BY <1>0, <1>8, <2>2 DEF EndRemoveArticle, ArticleRows, CategoryRows, Forms, StaffWork
<1> QED BY <1>1, <1>2, <1>3, <1>4, <1>5, <1>6, <1>7, <1>8 DEF RowSteps

-----------------------------------------------------------------------------
(* Images: step by step.                                                   *)

\* Steps that leave files, and the forms that hold one, alone.
LEMMA QuietImages ==
  ASSUME ImagesInv, CatalogueTypeOK', UNCHANGED <<disk, lastFile, unsure>>,
         \A a \in Articles : article'[a].image \in {article[a].image, NoFile},
         \A g \in FormIds : form'[g] = form[g] \/ Bare(form'[g])
  PROVE  ImagesInv'
<1> USE DEF ImagesInv
<1>1. \A f \in FormIds : Uploading(f)' =>
         Uploading(f) /\ form'[f] = form[f] /\ form[f].file # NoFile
  BY DEF Uploading, Bare, FilesAreFresh, CatalogueTypeOK, NoFile
<1>2. TargetKnown' /\ BareHoldsNoFile'
  BY DEF TargetKnown, HasTarget, Bare, BareHoldsNoFile
<1>3. \A g \in FormIds : \/ form'[g] = form[g]
                         \/ form'[g].file = NoFile /\ form'[g].old = NoFile
  BY DEF Bare
<1>4. FilesAreFresh'
  <2> SUFFICES ASSUME NEW f \in FormIds, Uploading(f)'
               PROVE  /\ form'[f].file \in disk'
                      /\ \A a \in Articles : article'[a].image # form'[f].file
                      /\ \A g \in FormIds : form'[g].old # form'[f].file
                      /\ \A g \in FormIds \ {f} : form'[g].file # form'[f].file
    BY DEF FilesAreFresh, Uploading
  <2> QED BY <1>1, <1>3 DEF FilesAreFresh
<1>5. OldIsUnused'
  <2> SUFFICES ASSUME NEW f \in FormIds, NEW a \in Articles
               PROVE  /\ form'[f].at = "read" /\ a # form'[f].target
                           => form'[f].old = NoFile \/ article'[a].image # form'[f].old
                      /\ form'[f].at = "updated"
                           => form'[f].old = NoFile \/ article'[a].image # form'[f].old
    BY DEF OldIsUnused
  <2> QED BY <1>3 DEF OldIsUnused
<1>6. ImagesAreOnDisk'
  BY DEF ImagesAreOnDisk
<1>7. ImagesApart'
  <2>1. \A a \in Articles : article'[a].image = article[a].image \/ article'[a].image = NoFile
    OBVIOUS
  <2> QED BY <2>1 DEF ImagesApart
<1> QED BY <1>2, <1>4, <1>5, <1>6, <1>7

LEMMA NoFormIsIdle ==
  Bare(NoForm) /\ \A f \in FormIds : Bare(Reopened(f))
BY DEF Bare, NoForm, Reopened, NoFile

\* An article that is saved keeps its image, and gets a category that is there.
LEMMA SaveArticleRows ==
  ASSUME CatalogueTypeOK, NEW f \in FormIds, NEW a \in Articles, SaveArticle(f, a),
         NEW b \in Articles
  PROVE  /\ article'[b].image = article[b].image
         /\ \/ article'[b].category = article[b].category
            \/ CategoryExists(article'[b].category) \/ article'[b].category = NoCategory
         /\ Stored(b) => Stored(b)'
<1> DEFINE c == form[f].category
           state == IF article[a].state = "absent" THEN "live" ELSE article[a].state
<1>1. \/ UNCHANGED article
      \/ /\ c = NoCategory \/ CategoryExists(c)
         /\ article' = [article EXCEPT ![a].state = state, ![a].category = c]
  BY DEF SaveArticle
<1>2. CASE UNCHANGED article
  BY <1>2 DEF Stored
<1>3. CASE /\ c = NoCategory \/ CategoryExists(c)
           /\ article' = [article EXCEPT ![a].state = state, ![a].category = c]
  <2> HIDE DEF c, state
  <2>1. /\ article'[b].image = article[b].image
        /\ article'[b].category = IF b = a THEN c ELSE article[b].category
        /\ article'[b].state = IF b = a THEN state ELSE article[b].state
    BY <1>3 DEF CatalogueTypeOK, ArticleRows
  <2>2. Stored(a) => state = article[a].state
    BY DEF state, Stored
  <2> QED BY <1>3, <2>1, <2>2 DEF Stored
<1> QED BY <1>1, <1>2, <1>3

LEMMA QuietFormSteps ==
  ASSUME ImagesInv, NEW f \in FormIds,
         \/ \E a \in Articles \cup {NoArticle} : OpenForm(f, a)
         \/ \E c \in Categories \cup {NoCategory} : ResolveCategory(f, c)
         \/ \E a \in Articles : SaveArticle(f, a)
         \/ RefuseImage(f) \/ LeaveForm(f)
  PROVE  ImagesInv'
<1> USE DEF ImagesInv
<1>1. CatalogueTypeOK'
  BY FormsType, SaveArticleType
<1>2. ASSUME NEW a \in Articles \cup {NoArticle}, OpenForm(f, a) PROVE ImagesInv'
  <2>1. Bare([NoForm EXCEPT !.at = "open", !.page = a])
    BY DEF Bare, NoForm, NoFile
  <2> QED BY <1>1, <1>2, <2>1, FormMoves, QuietImages DEF OpenForm, FormOnly
<1>3. ASSUME NEW c \in Categories \cup {NoCategory}, ResolveCategory(f, c) PROVE ImagesInv'
  <2>1. Bare([form[f] EXCEPT !.at = "resolved", !.category = c])
    BY <1>3 DEF ResolveCategory, BareHoldsNoFile, Bare, CatalogueTypeOK, Forms
  <2> QED BY <1>1, <1>3, <2>1, FormMoves, QuietImages DEF ResolveCategory, FormOnly
<1>4. ASSUME NEW a \in Articles, SaveArticle(f, a) PROVE ImagesInv'
  <2>1. Bare([Reopened(f) EXCEPT !.at = "saved", !.target = a])
    BY DEF Bare, Reopened, NoForm, NoFile
  <2>3. \A b \in Articles : article'[b].image = article[b].image
    BY <1>4, SaveArticleRows
  <2>4. \E new : Moves(f, new) /\ Bare(new)
    BY <1>4, <2>1, NoFormIsIdle DEF SaveArticle
  <2>5. \A g \in FormIds : form'[g] = form[g] \/ Bare(form'[g])
    BY <2>4, FormMoves
  <2> QED BY <1>1, <1>4, <2>3, <2>5, QuietImages DEF SaveArticle
<1>5. CASE RefuseImage(f) \/ LeaveForm(f)
  <2>1. \A g \in FormIds : form'[g] = form[g] \/ Bare(form'[g])
    BY <1>5, NoFormIsIdle, FormMoves DEF RefuseImage, LeaveForm, FormOnly
  <2> QED BY <1>1, <1>5, <2>1, QuietImages DEF RefuseImage, LeaveForm, FormOnly
<1> QED BY <1>2, <1>3, <1>4, <1>5

\* A new file has a name no row, no form and no file has.
LEMMA StoreImageInv ==
  ASSUME ImagesInv, NEW f \in FormIds, StoreImage(f)
  PROVE  ImagesInv'
<1> USE DEF ImagesInv
<1>1. CatalogueTypeOK'
  BY ImageType
<1> DEFINE new == [form[f] EXCEPT !.at = "stored", !.file = lastFile']
<1>2. /\ \A g \in FormIds : form'[g] = IF g = f THEN new ELSE form[g]
      /\ new.at = "stored" /\ new.file = lastFile + 1 /\ new.old = NoFile
      /\ new.target = form[f].target /\ form[f].target \in Articles
  BY FormMoves DEF StoreImage, CatalogueTypeOK, Forms, BareHoldsNoFile, Bare, TargetKnown, HasTarget
<1>3. /\ \A a \in Articles : article[a].image \in 0..lastFile
      /\ \A g \in FormIds : form[g].file \in 0..lastFile /\ form[g].old \in 0..lastFile
      /\ lastFile \in Nat
  BY DEF CatalogueTypeOK, ArticleRows, Forms
<1>4. UNCHANGED <<article, unsure>> /\ disk' = disk \cup {lastFile + 1}
  BY DEF StoreImage
<1> HIDE DEF new
<1>5. FilesAreFresh'
  <2> SUFFICES ASSUME NEW g \in FormIds, Uploading(g)'
               PROVE  /\ form'[g].file \in disk'
                      /\ \A a \in Articles : article'[a].image # form'[g].file
                      /\ \A h \in FormIds : form'[h].old # form'[g].file
                      /\ \A h \in FormIds \ {g} : form'[h].file # form'[g].file
    BY DEF FilesAreFresh, Uploading
  <2>1. CASE g = f
    BY <2>1, <1>2, <1>3, <1>4 DEF NoFile
  <2>2. CASE g # f
    <3>1. Uploading(g) /\ form[g].file \in 1..lastFile
      BY <2>2, <1>2 DEF Uploading, FilesAreFresh, CatalogueTypeOK
    <3> QED BY <3>1, <2>2, <1>2, <1>3, <1>4 DEF FilesAreFresh, NoFile
  <2> QED BY <2>1, <2>2
<1>6. TargetKnown' /\ BareHoldsNoFile'
  BY <1>2 DEF TargetKnown, HasTarget, BareHoldsNoFile, Bare
<1>7. OldIsUnused' /\ ImagesApart' /\ ImagesAreOnDisk'
  BY <1>2, <1>4 DEF OldIsUnused, ImagesApart, ImagesAreOnDisk
<1> QED BY <1>1, <1>5, <1>6, <1>7

LEMMA ReadImageInv ==
  ASSUME ImagesInv, NEW f \in FormIds, ReadImage(f)
  PROVE  ImagesInv'
<1> USE DEF ImagesInv
<1>1. CatalogueTypeOK'
  BY ImageType
<1>2. CASE Stored(form[f].target)
  <2> DEFINE new == [form[f] EXCEPT !.at = "read", !.old = article[form[f].target].image]
  <2>1. /\ \A g \in FormIds : form'[g] = IF g = f THEN new ELSE form[g]
        /\ new.at = "read" /\ new.file = form[f].file /\ new.target = form[f].target
        /\ new.old = article[form[f].target].image
        /\ form[f].at = "stored" /\ form[f].target \in Articles
    BY <1>2, FormMoves DEF ReadImage, CatalogueTypeOK, Forms, TargetKnown, HasTarget
  <2>2. UNCHANGED <<article, unsure, disk>>
    BY <1>2 DEF ReadImage
  <2> HIDE DEF new
  <2>3. FilesAreFresh'
    BY <2>1, <2>2 DEF FilesAreFresh, Uploading
  <2>4. TargetKnown' /\ BareHoldsNoFile'
    BY <2>1 DEF TargetKnown, HasTarget, BareHoldsNoFile, Bare
  <2>5. ImagesApart' /\ ImagesAreOnDisk'
    BY <2>2 DEF ImagesApart, ImagesAreOnDisk
  <2>6. \A a \in Articles : a # form[f].target => new.old = NoFile \/ article[a].image # new.old
    BY <2>1 DEF ImagesApart
  <2>7. OldIsUnused'
    BY <2>1, <2>2, <2>6 DEF OldIsUnused
  <2> QED BY <1>1, <2>3, <2>4, <2>5, <2>7
<1>3. CASE ~ Stored(form[f].target)
  <2>1. /\ \A g \in FormIds : form'[g] = IF g = f THEN Reopened(f) ELSE form[g]
        /\ UNCHANGED <<article, unsure>> /\ disk' = disk \ {form[f].file}
        /\ Uploading(f)
    BY <1>3, FormMoves DEF ReadImage, Uploading
  <2>2. FilesAreFresh'
    <3>1. \A g \in FormIds : \/ form'[g] = form[g] /\ g # f
                             \/ Bare(form'[g])
      BY <2>1, NoFormIsIdle
    <3>2. \A g \in FormIds : Uploading(g) => form[g].file # NoFile
      BY DEF FilesAreFresh, CatalogueTypeOK, NoFile
    <3> QED BY <2>1, <3>1, <3>2 DEF FilesAreFresh, Uploading, Bare
  <2>5. OldIsUnused' /\ ImagesApart'
    BY <2>1, NoFormIsIdle DEF OldIsUnused, ImagesApart, Bare
  <2>3. TargetKnown' /\ BareHoldsNoFile'
    BY <2>1, NoFormIsIdle DEF TargetKnown, HasTarget, BareHoldsNoFile, Bare
  <2>4. ImagesAreOnDisk'
    BY <2>1 DEF ImagesAreOnDisk, FilesAreFresh
  <2> QED BY <1>1, <2>2, <2>3, <2>4, <2>5
<1> QED BY <1>2, <1>3

\* The row gets the fresh file; what it had before is no longer used.
LEMMA UpdateImageInv ==
  ASSUME ImagesInv, NEW f \in FormIds, UpdateImage(f)
  PROVE  ImagesInv'
<1> USE DEF ImagesInv
<1>1. CatalogueTypeOK'
  BY ImageType
<1> DEFINE t == form[f].target
           new == [form[f] EXCEPT !.at = "updated"]
<1>2. /\ \A g \in FormIds : form'[g] = IF g = f THEN new ELSE form[g]
      /\ new.at = "updated" /\ new.file = form[f].file /\ new.old = form[f].old
      /\ new.target = t /\ t \in Articles /\ form[f].at = "read"
  BY FormMoves DEF UpdateImage, CatalogueTypeOK, Forms, TargetKnown, HasTarget
<1>3. \A a \in Articles : article'[a].image = IF a = t THEN form[f].file ELSE article[a].image
  BY DEF UpdateImage, CatalogueTypeOK, ArticleRows
<1>4. disk' = disk /\ unsure' = unsure \ {t}
  BY DEF UpdateImage
<1>5. /\ form[f].file \in disk
      /\ \A a \in Articles : article[a].image # form[f].file
      /\ \A g \in FormIds : form[g].old # form[f].file
      /\ \A g \in FormIds \ {f} : form[g].file # form[f].file
  BY <1>2 DEF FilesAreFresh, Uploading
<1> HIDE DEF new, t
<1>6. FilesAreFresh'
  BY <1>2, <1>3, <1>4, <1>5 DEF FilesAreFresh, Uploading
<1>7. TargetKnown' /\ BareHoldsNoFile'
  BY <1>2 DEF TargetKnown, HasTarget, BareHoldsNoFile, Bare
<1>8. ImagesApart' /\ ImagesAreOnDisk'
  BY <1>3, <1>4, <1>5 DEF ImagesApart, ImagesAreOnDisk
<1>9. OldIsUnused'
  BY <1>2, <1>3, <1>5 DEF OldIsUnused, t
<1> QED BY <1>1, <1>6, <1>7, <1>8, <1>9

\* The file goes; if the row had been written, the article is unsure.
LEMMA UpdateImageFailsInv ==
  ASSUME ImagesInv, NEW f \in FormIds, UpdateImageFails(f)
  PROVE  ImagesInv'
<1> USE DEF ImagesInv
<1>1. CatalogueTypeOK'
  BY ImageType
<1> DEFINE t == form[f].target
<1>2. /\ \A g \in FormIds : form'[g] = IF g = f THEN Reopened(f) ELSE form[g]
      /\ t \in Articles /\ form[f].at = "read" /\ Bare(Reopened(f))
  BY FormMoves, NoFormIsIdle DEF UpdateImageFails, TargetKnown, HasTarget
<1>3. disk' = disk \ {form[f].file}
  BY DEF UpdateImageFails
<1>4. \/ UNCHANGED <<article, unsure>>
      \/ /\ \A a \in Articles : article'[a].image = IF a = t THEN form[f].file
                                                    ELSE article[a].image
         /\ unsure' = unsure \cup {t}
  BY DEF UpdateImageFails, CatalogueTypeOK, ArticleRows
<1>5. /\ form[f].file \in disk
      /\ \A a \in Articles : article[a].image # form[f].file
      /\ \A g \in FormIds : form[g].old # form[f].file
      /\ \A g \in FormIds \ {f} : form[g].file # form[f].file
  BY <1>2 DEF FilesAreFresh, Uploading
<1> HIDE DEF t
<1>6. FilesAreFresh'
  <2>1. \A g \in FormIds : Uploading(g) => form[g].file # NoFile
    BY DEF FilesAreFresh, CatalogueTypeOK, NoFile
  <2>2. \A g \in FormIds : Uploading(g)' => Uploading(g) /\ g # f /\ form'[g] = form[g]
    BY <1>2 DEF Uploading, Bare
  <2>3. \A g \in FormIds : \/ form'[g] = form[g] /\ g # f
                           \/ form'[g].file = NoFile /\ form'[g].old = NoFile
    BY <1>2 DEF Bare
  <2> SUFFICES ASSUME NEW g \in FormIds, Uploading(g)'
               PROVE  /\ form'[g].file \in disk'
                      /\ \A a \in Articles : article'[a].image # form'[g].file
                      /\ \A h \in FormIds : form'[h].old # form'[g].file
                      /\ \A h \in FormIds \ {g} : form'[h].file # form'[g].file
    BY DEF FilesAreFresh, Uploading
  <2> QED BY <1>3, <1>4, <1>5, <2>1, <2>2, <2>3 DEF FilesAreFresh
<1>7. TargetKnown' /\ BareHoldsNoFile'
  BY <1>2 DEF TargetKnown, HasTarget, BareHoldsNoFile, Bare
<1>8. ImagesApart' /\ ImagesAreOnDisk'
  BY <1>3, <1>4, <1>5 DEF ImagesApart, ImagesAreOnDisk
<1>9. OldIsUnused'
  BY <1>2, <1>4, <1>5 DEF OldIsUnused, Bare
<1> QED BY <1>1, <1>6, <1>7, <1>8, <1>9

\* What goes is no image any more.
LEMMA DeleteOldImageInv ==
  ASSUME ImagesInv, NEW f \in FormIds, DeleteOldImage(f)
  PROVE  ImagesInv'
<1> USE DEF ImagesInv
<1>1. CatalogueTypeOK'
  BY ImageType
<1>2. /\ \A g \in FormIds : form'[g] = IF g = f THEN NoForm ELSE form[g]
      /\ form[f].at = "updated" /\ Bare(NoForm)
  BY FormMoves, NoFormIsIdle DEF DeleteOldImage
<1>3. UNCHANGED <<article, unsure>> /\ disk' = disk \ {form[f].old}
  BY DEF DeleteOldImage
<1>4. FilesAreFresh'
  <2>1. \A g \in FormIds : Uploading(g) => form[g].file # NoFile
    BY DEF FilesAreFresh, CatalogueTypeOK, NoFile
  <2> QED BY <1>2, <1>3, <2>1 DEF FilesAreFresh, Uploading, Bare
<1>5. TargetKnown' /\ BareHoldsNoFile'
  BY <1>2 DEF TargetKnown, HasTarget, BareHoldsNoFile, Bare
<1>6. OldIsUnused' /\ ImagesApart'
  BY <1>2, <1>3 DEF OldIsUnused, ImagesApart, Bare
<1>7. ImagesAreOnDisk'
  <2> SUFFICES ASSUME NEW a \in Articles, a \notin unsure
               PROVE  article[a].image \in (disk \ {form[f].old}) \cup {NoFile}
    BY <1>3 DEF ImagesAreOnDisk
  <2>1. article[a].image \in disk \cup {NoFile}
    BY DEF ImagesAreOnDisk
  <2>2. form[f].old = NoFile \/ article[a].image # form[f].old
    BY <1>2 DEF OldIsUnused
  <2> QED BY <2>1, <2>2
<1> QED BY <1>1, <1>4, <1>5, <1>6, <1>7

-----------------------------------------------------------------------------
(* Categories: step by step.                                               *)

\* The steps of the forms leave the categories alone, and give an article a
\* category that is there.
LEMMA FormStepsCategories ==
  ASSUME CategoriesInv, TargetKnown, NEW f \in FormIds,
         \/ \E a \in Articles \cup {NoArticle} : OpenForm(f, a)
         \/ \E c \in Categories \cup {NoCategory} : ResolveCategory(f, c)
         \/ \E a \in Articles : SaveArticle(f, a)
         \/ StoreImage(f) \/ RefuseImage(f) \/ ReadImage(f) \/ LeaveForm(f)
         \/ UpdateImage(f) \/ UpdateImageFails(f) \/ DeleteOldImage(f),
         CatalogueTypeOK'
  PROVE  CategoriesInv'
<1> USE DEF CategoriesInv
<1>1. UNCHANGED <<category, staff, usedIn>>
  BY DEF OpenForm, ResolveCategory, SaveArticle, StoreImage, RefuseImage, ReadImage, LeaveForm,
         UpdateImage, UpdateImageFails, DeleteOldImage, FormOnly
<1>2. DefaultIsSpared' /\ WorkIsKnown'
  BY <1>1 DEF DefaultIsSpared, WorkIsKnown
<1>3. \A a \in Articles :
        \/ article'[a].category = article[a].category
        \/ CategoryExists(article'[a].category) \/ article'[a].category = NoCategory
  <2>1. ASSUME NEW a \in Articles, SaveArticle(f, a),
               NEW b \in Articles
        PROVE  \/ article'[b].category = article[b].category
               \/ CategoryExists(article'[b].category) \/ article'[b].category = NoCategory
    BY <2>1, SaveArticleRows
  <2>2. CASE UpdateImage(f) \/ UpdateImageFails(f)
    BY <2>2 DEF UpdateImage, UpdateImageFails, CatalogueTypeOK, ArticleRows
  <2> QED
    BY <2>1, <2>2 DEF OpenForm, ResolveCategory, StoreImage, RefuseImage, ReadImage, LeaveForm,
                      DeleteOldImage, FormOnly
<1>4. \A a \in Articles : Stored(a) => Stored(a)'
  <2>1. ASSUME NEW a \in Articles, SaveArticle(f, a), NEW b \in Articles, Stored(b)
        PROVE  Stored(b)'
    BY <2>1, SaveArticleRows
  <2>2. CASE UpdateImage(f) \/ UpdateImageFails(f)
    BY <2>2 DEF UpdateImage, UpdateImageFails, CatalogueTypeOK, ArticleRows, Stored
  <2> QED
    BY <2>1, <2>2 DEF OpenForm, ResolveCategory, StoreImage, RefuseImage, ReadImage, LeaveForm,
                      DeleteOldImage, FormOnly, Stored
<1>5. CatalogueIsSound'
  BY <1>1, <1>3, <1>4 DEF CatalogueIsSound, CategoryExists
<1> QED BY <1>2, <1>5

\* A step that leaves articles, uses and categories alone.
LEMMA SameRowsAreSound ==
  ASSUME CatalogueIsSound, UNCHANGED <<article, usedIn, category>>
  PROVE  CatalogueIsSound'
BY DEF CatalogueIsSound, CategoryExists, Stored

\* A category that is written, to be there, and the default one as it was.
LEMMA CategoryStep ==
  ASSUME CatalogueTypeOK, CatalogueIsSound, UNCHANGED <<article, usedIn>>,
         NEW c \in Categories, NEW row,
         row.state \in {"active", "inactive"},
         c = Autres => row = [state |-> "active", slug |-> "autres"],
         \A d \in Categories : category'[d] = IF d = c THEN row ELSE category[d]
  PROVE  CatalogueIsSound'
<1>1. category'[Autres] = [state |-> "active", slug |-> "autres"]
  BY CatalogueAssumption DEF CatalogueIsSound
<1>2. \A d \in Categories : CategoryExists(d) => CategoryExists(d)'
  BY DEF CategoryExists
<1>3. \A a \in Articles : article[a].category \in Categories \cup {NoCategory}
  BY DEF CatalogueTypeOK, ArticleRows
<1> QED BY <1>1, <1>2, <1>3 DEF CatalogueIsSound, Stored

\* A request that starts or ends.
LEMMA WorkIsSafe ==
  ASSUME CatalogueTypeOK, DefaultIsSpared, WorkIsKnown, NEW s \in StaffIds, NEW work,
         staff' = [staff EXCEPT ![s] = work],
         work.category = Autres =>
           /\ work.op \notin {"deactivate", "remove category"}
           /\ work.op = "activate" => work.slug = "autres",
         work.op \in {"activate", "deactivate", "remove category"} => work.category \in Categories,
         work.op = "remove article" => work.article \in Articles
  PROVE  DefaultIsSpared' /\ WorkIsKnown'
<1>1. \A r \in StaffIds : staff'[r] = IF r = s THEN work ELSE staff[r]
  BY DEF CatalogueTypeOK
<1> QED BY <1>1 DEF DefaultIsSpared, WorkIsKnown

\* The steps of the staff: what was read of the default category, or of an
\* article that is used, protects it to the end.
LEMMA RowStepsCategories ==
  ASSUME CategoriesInv, RowSteps
  PROVE  CategoriesInv'
<1> USE CatalogueAssumption DEF CategoriesInv, ForStaff, ForCategories
<1>0. CatalogueTypeOK'
  BY RowStepsFacts
<1> DEFINE Rest == DefaultIsSpared' /\ WorkIsKnown' /\ CatalogueIsSound'
<1>2. NoWork.op = "none" /\ NoWork.category = NoCategory /\ NoCategory # Autres
  BY DEF NoWork, NoCategory
<1>3. ASSUME NEW a \in Articles, NEW kind \in {"journal", "sales"}, UseArticle(a, kind) PROVE Rest
  BY <1>3 DEF UseArticle, CatalogueTypeOK, DefaultIsSpared, WorkIsKnown, CatalogueIsSound,
              CategoryExists, Stored
<1>4. ASSUME NEW c \in Categories, NEW slug \in Slugs, CreateCategory(c, slug) PROVE Rest
  <2>1. DefaultIsSpared' /\ WorkIsKnown'
    BY <1>4 DEF CreateCategory, DefaultIsSpared, WorkIsKnown
  <2>2. c # Autres /\ UNCHANGED <<article, usedIn>>
    BY <1>4 DEF CreateCategory, CatalogueIsSound
  <2>3. \A d \in Categories : category'[d] =
          IF d = c THEN [state |-> "active", slug |-> slug] ELSE category[d]
    BY <1>4 DEF CreateCategory, CatalogueTypeOK
  <2>4. CatalogueIsSound'
    BY <2>2, <2>3, CategoryStep
  <2> QED BY <2>1, <2>4
<1>5. ASSUME NEW s \in StaffIds, NEW c \in Categories, NEW op \in {"activate", "deactivate"},
             NEW slug \in Slugs, BeginUpdate(s, c, op, slug)
      PROVE  Rest
  <2> DEFINE work == [NoWork EXCEPT !.op = op, !.category = c, !.slug = slug]
  <2>1. work.op = op /\ work.category = c /\ work.slug = slug
    BY DEF NoWork
  <2>2. staff' = [staff EXCEPT ![s] = work] /\ UNCHANGED <<article, usedIn, category>>
    BY <1>5 DEF BeginUpdate
  <2>3. c = Autres => op # "deactivate" /\ slug = "autres"
    BY <1>5 DEF BeginUpdate, CatalogueIsSound
  <2> HIDE DEF work
  <2>4. DefaultIsSpared' /\ WorkIsKnown'
    BY <2>1, <2>2, <2>3, WorkIsSafe
  <2> QED BY <2>2, <2>4, SameRowsAreSound
<1>6. ASSUME NEW s \in StaffIds, NEW c \in Categories, BeginRemove(s, c) PROVE Rest
  <2> DEFINE free == \A a \in Articles : article[a].category # c
             work == [NoWork EXCEPT !.op = "remove category", !.category = c, !.free = free]
  <2>1. work.op = "remove category" /\ work.category = c
    BY DEF NoWork
  <2>2. staff' = [staff EXCEPT ![s] = work] /\ UNCHANGED <<article, usedIn, category>>
    BY <1>6 DEF BeginRemove
  <2>3. c # Autres
    BY <1>6 DEF BeginRemove, CatalogueIsSound
  <2> HIDE DEF work
  <2>4. DefaultIsSpared' /\ WorkIsKnown'
    BY <2>1, <2>2, <2>3, WorkIsSafe
  <2> QED BY <2>2, <2>4, SameRowsAreSound
<1>7. ASSUME NEW s \in StaffIds, NEW a \in Articles, BeginRemoveArticle(s, a) PROVE Rest
  <2> DEFINE work == [NoWork EXCEPT !.op = "remove article", !.article = a,
                                    !.free = usedIn[a] = "none"]
  <2>1. work.op = "remove article" /\ work.article = a /\ work.category = NoCategory
    BY DEF NoWork
  <2>2. staff' = [staff EXCEPT ![s] = work] /\ UNCHANGED <<article, usedIn, category>>
    BY <1>7 DEF BeginRemoveArticle
  <2> HIDE DEF work
  <2>4. DefaultIsSpared' /\ WorkIsKnown'
    BY <1>2, <2>1, <2>2, WorkIsSafe
  <2> QED BY <2>2, <2>4, SameRowsAreSound
<1>8. ASSUME NEW s \in StaffIds, EndUpdate(s) \/ EndRemove(s) \/ EndRemoveArticle(s)
      PROVE  DefaultIsSpared' /\ WorkIsKnown'
  <2>1. staff' = [staff EXCEPT ![s] = NoWork]
    BY <1>8 DEF EndUpdate, EndRemove, EndRemoveArticle
  <2> QED BY <1>2, <2>1, WorkIsSafe
<1>9. ASSUME NEW s \in StaffIds, EndUpdate(s) PROVE CatalogueIsSound'
  <2> DEFINE c == staff[s].category
             new == [state |-> IF staff[s].op = "activate" THEN "active" ELSE "inactive",
                     slug |-> staff[s].slug]
  <2>1. UNCHANGED <<article, usedIn>> /\ c \in Categories
    BY <1>9 DEF EndUpdate, WorkIsKnown
  <2>2. \/ category' = category
        \/ CategoryExists(c) /\ category' = [category EXCEPT ![c] = new]
    BY <1>9 DEF EndUpdate
  <2>3. new.state \in {"active", "inactive"}
    OBVIOUS
  <2>4. c = Autres => new = [state |-> "active", slug |-> "autres"]
    BY <1>9 DEF EndUpdate, DefaultIsSpared
  <2> HIDE DEF c, new
  <2>5. CASE category' = category
    BY <2>1, <2>5, SameRowsAreSound
  <2>6. CASE category' = [category EXCEPT ![c] = new]
    <3>1. \A d \in Categories : category'[d] = IF d = c THEN new ELSE category[d]
      BY <2>6 DEF CatalogueTypeOK
    <3>2. CatalogueTypeOK /\ CatalogueIsSound /\ UNCHANGED <<article, usedIn>> /\ c \in Categories
      BY <2>1
    <3> HIDE DEF CategoriesInv
    <3> QED BY ONLY <2>3, <2>4, <3>1, <3>2, CategoryStep
  <2> QED BY <2>2, <2>5, <2>6
<1>10. ASSUME NEW s \in StaffIds, EndRemove(s) PROVE CatalogueIsSound'
  <2> DEFINE c == staff[s].category
             removed == [state |-> "deleted", slug |-> "autres"]
             emptied == [a \in Articles |->
                          IF article[a].category = c
                          THEN [article[a] EXCEPT !.category = NoCategory] ELSE article[a]]
  <2>1. UNCHANGED usedIn /\ c \in Categories /\ c # Autres
    BY <1>10 DEF EndRemove, WorkIsKnown, DefaultIsSpared
  <2>2. \/ UNCHANGED <<category, article>>
        \/ category' = [category EXCEPT ![c] = removed] /\ article' = emptied
        \/ /\ CategoryExists(c)
           /\ category' = [category EXCEPT ![c].state = "inactive"] /\ UNCHANGED article
    BY <1>10 DEF EndRemove
  <2>3. \A a \in Articles : /\ emptied[a].state = article[a].state
                            /\ emptied[a].category = IF article[a].category = c THEN NoCategory
                                                     ELSE article[a].category
    BY DEF CatalogueTypeOK, ArticleRows
  <2> HIDE DEF c, removed, emptied
  <2>4. CASE UNCHANGED <<category, article>>
    BY <2>1, <2>4 DEF CatalogueIsSound, CategoryExists, Stored
  <2>5. CASE category' = [category EXCEPT ![c] = removed] /\ article' = emptied
    BY <2>1, <2>3, <2>5 DEF CatalogueIsSound, CategoryExists, Stored, CatalogueTypeOK
  <2>6. CASE /\ CategoryExists(c)
             /\ category' = [category EXCEPT ![c].state = "inactive"] /\ UNCHANGED article
    BY <2>1, <2>6 DEF CatalogueIsSound, CategoryExists, Stored, CatalogueTypeOK, CategoryRows
  <2> QED BY <2>2, <2>4, <2>5, <2>6
<1>11. ASSUME NEW s \in StaffIds, EndRemoveArticle(s) PROVE CatalogueIsSound'
  <2> DEFINE a == staff[s].article
             archived == [article EXCEPT ![a].state = "archived"]
             deleted == [article EXCEPT ![a] = [NoArticleRow EXCEPT !.state = "deleted"]]
  <2>1. a \in Articles /\ UNCHANGED <<category, usedIn>>
    BY <1>11 DEF EndRemoveArticle, WorkIsKnown
  <2>2. \/ article' = article
        \/ article' = archived
        \/ usedIn[a] # "sales" /\ article' = deleted
    BY <1>11, <2>1 DEF EndRemoveArticle, Deletable, CatalogueTypeOK, ArticleRows
  <2>3. \A b \in Articles : /\ archived[b].category = article[b].category
                            /\ archived[b].state = IF b = a THEN "archived" ELSE article[b].state
    BY DEF CatalogueTypeOK, ArticleRows
  <2>4. \A b \in Articles : /\ deleted[b].category = IF b = a THEN NoCategory
                                                     ELSE article[b].category
                            /\ b # a => deleted[b].state = article[b].state
    BY DEF CatalogueTypeOK, ArticleRows, NoArticleRow
  <2> HIDE DEF a, archived, deleted
  <2> QED BY <2>1, <2>2, <2>3, <2>4 DEF CatalogueIsSound, CategoryExists, Stored
<1> QED
  BY <1>0, <1>3, <1>4, <1>5, <1>6, <1>7, <1>8, <1>9, <1>10, <1>11 DEF RowSteps

-----------------------------------------------------------------------------
(* The theorems.                                                           *)

LEMMA CatalogueStepInv ==
  ImagesInv /\ CategoriesInv /\ [CatalogueNext]_catalogueVars => ImagesInv' /\ CategoriesInv'
<1> SUFFICES ASSUME ImagesInv, CategoriesInv, [CatalogueNext]_catalogueVars
             PROVE  ImagesInv' /\ CategoriesInv'
  OBVIOUS
<1>1. CatalogueTypeOK /\ TargetKnown /\ WorkIsKnown
  BY DEF ImagesInv, CategoriesInv
<1>2. CASE UNCHANGED catalogueVars
  <2>1. CatalogueTypeOK'
    BY <1>1, <1>2 DEF catalogueVars, CatalogueTypeOK, ArticleRows, CategoryRows, Forms, StaffWork
  <2>2. ImagesInv'
    BY <1>1, <1>2, <2>1, QuietImages DEF catalogueVars
  <2>3. CategoriesInv'
    BY <1>2, <2>1 DEF catalogueVars, CategoriesInv, DefaultIsSpared, WorkIsKnown, CatalogueIsSound,
                      CategoryExists, Stored
  <2> QED BY <2>2, <2>3
<1>3. CASE RowSteps
  <2>1. ImagesInv'
    BY <1>1, <1>3, RowStepsFacts, QuietImages
  <2> QED BY <1>3, <2>1, RowStepsCategories
<1>4. ASSUME NEW f \in FormIds,
             \/ \E a \in Articles \cup {NoArticle} : OpenForm(f, a)
             \/ \E c \in Categories \cup {NoCategory} : ResolveCategory(f, c)
             \/ \E a \in Articles : SaveArticle(f, a)
             \/ StoreImage(f) \/ RefuseImage(f) \/ ReadImage(f) \/ LeaveForm(f)
             \/ UpdateImage(f) \/ UpdateImageFails(f) \/ DeleteOldImage(f)
      PROVE  ImagesInv' /\ CategoriesInv'
  <2>1. ImagesInv'
    BY <1>4, QuietFormSteps, StoreImageInv, ReadImageInv, UpdateImageInv, UpdateImageFailsInv,
       DeleteOldImageInv
  <2>2. CatalogueTypeOK'
    BY <2>1 DEF ImagesInv
  <2> QED BY <1>1, <1>4, <2>1, <2>2, FormStepsCategories
<1> QED BY <1>2, <1>3, <1>4 DEF CatalogueNext, RowSteps

\* Type correctness of rows, files, forms and requests.
THEOREM CatalogueTypeCorrect == CatalogueSpec => []CatalogueTypeOK
<1>1. ImagesInv => CatalogueTypeOK
  BY DEF ImagesInv
<1> QED BY <1>1, CatalogueInitInv, CatalogueStepInv, PTL DEF CatalogueSpec

\* However many forms upload for however many articles, an article never
\* refers to an image that is gone, unless an answer was lost.
THEOREM ImagesAlwaysOnDisk == CatalogueSpec => []ImagesAreOnDisk
<1>1. ImagesInv => ImagesAreOnDisk
  BY DEF ImagesInv
<1> QED BY <1>1, CatalogueInitInv, CatalogueStepInv, PTL DEF CatalogueSpec

\* The default category, the categories of articles and the articles that were
\* sold survive any number of requests that check before they write.
THEOREM CatalogueAlwaysSound == CatalogueSpec => []CatalogueIsSound
<1>1. CategoriesInv => CatalogueIsSound
  BY DEF CategoriesInv
<1> QED BY <1>1, CatalogueInitInv, CatalogueStepInv, PTL DEF CatalogueSpec

-----------------------------------------------------------------------------
(***************************************************************************)
(* Accounts, for any accounts and any number of requests.                  *)
(***************************************************************************)

RolesOfRows == AccountRoles \cup {"absent"}
Requests == [op : Ops \cup {"none"}, caller : Users \cup {NoUser},
             target : Users \cup {NoUser}, role : RolesOfRows]

\* Accounts and requests have their types.
AccountsTypeOK ==
  /\ roleOf \in [Users -> RolesOfRows]
  /\ request \in [RequestIds -> Requests]
  /\ overlapped \in BOOLEAN /\ selfDemoted \in BOOLEAN
  /\ \A r \in RequestIds : request[r].op # "none" => request[r].target \in Users

\* While no two of them overlap and none aims at its caller, one request at
\* most takes something away, and an administrator it does not aim at is
\* there: at first, its caller.
OneIsSpared ==
  ~ overlapped /\ ~ selfDemoted =>
    /\ \A q, r \in RequestIds : TakesAway(request[q]) /\ TakesAway(request[r]) => q = r
    /\ \E u \in Users :
         /\ roleOf[u] = "admin"
         /\ \A r \in RequestIds : TakesAway(request[r]) => request[r].target # u

AInv == AccountsTypeOK /\ OneIsSpared

LEMMA AccountsInitInv == AccountsInit => AInv
<1> SUFFICES ASSUME AccountsInit PROVE AInv
  OBVIOUS
<1>1. AccountsTypeOK
  BY AccountsAssumption
     DEF AccountsInit, AccountsTypeOK, RolesOfRows, AccountRoles, Requests, NoAdminRequest
<1>2. FirstAdmin \in Users /\ roleOf[FirstAdmin] = "admin"
  BY AccountsAssumption DEF AccountsInit
<1>3. \A r \in RequestIds : ~ TakesAway(request[r])
  BY DEF AccountsInit, TakesAway, NoAdminRequest
<1> QED BY <1>1, <1>2, <1>3 DEF AInv, OneIsSpared

\* A request that begins: its caller is an administrator and not its target,
\* or selfDemoted tells.
LEMMA BeginInv ==
  ASSUME AInv, NEW r \in RequestIds, NEW work \in Requests, Begin(r, work),
         work.op # "none", work.target \in Users,
         selfDemoted' \in BOOLEAN, selfDemoted => selfDemoted',
         TakesAway(work) => /\ work.caller \in Users
                            /\ roleOf[work.caller] = "admin"
                            /\ work.target # work.caller \/ selfDemoted'
  PROVE  AInv'
<1>1. AccountsTypeOK'
  BY DEF AInv, AccountsTypeOK, Begin
<1>2. OneIsSpared'
  <2> SUFFICES ASSUME ~ overlapped', ~ selfDemoted' PROVE OneIsSpared'
    BY DEF OneIsSpared
  <2>1. ~ overlapped /\ ~ selfDemoted /\ (TakesAway(work) => \A q \in RequestIds : ~ TakesAway(request[q]))
    BY DEF Begin, AInv, AccountsTypeOK
  <2>2. \A q \in RequestIds : request'[q] = IF q = r THEN work ELSE request[q]
    BY DEF Begin, AInv, AccountsTypeOK
  <2>3. roleOf' = roleOf
    BY DEF Begin
  <2>4. ~ TakesAway(request[r])
    BY DEF Begin, NoAdminRequest, TakesAway
  <2>5. \A q, s \in RequestIds : TakesAway(request'[q]) /\ TakesAway(request'[s]) => q = s
    BY <2>1, <2>2, <2>4 DEF AInv, OneIsSpared
  <2>6. \E u \in Users :
         /\ roleOf'[u] = "admin"
         /\ \A q \in RequestIds : TakesAway(request'[q]) => request'[q].target # u
    <3>1. CASE TakesAway(work)
      BY <3>1, <2>1, <2>2, <2>3
    <3>2. CASE ~ TakesAway(work)
      BY <3>2, <2>1, <2>2, <2>3, <2>4 DEF AInv, OneIsSpared
    <3> QED BY <3>1, <3>2
  <2> QED BY <2>5, <2>6 DEF OneIsSpared, TakesAway
<1> QED BY <1>1, <1>2 DEF AInv

\* A request that ends: the administrator who is spared keeps the role.
LEMMA EndInv ==
  ASSUME AInv, NEW r \in RequestIds, NEW op \in Ops, End(r, op),
         roleOf' \in [Users -> RolesOfRows],
         \A u \in Users : roleOf[u] = "admin" /\ (TakesAway(request[r]) => request[r].target # u)
                            => roleOf'[u] = "admin"
  PROVE  AInv'
<1>1. AccountsTypeOK'
  BY DEF AInv, AccountsTypeOK, End, Requests, NoAdminRequest, RolesOfRows
<1>2. \A q \in RequestIds : request'[q] = IF q = r THEN NoAdminRequest ELSE request[q]
  BY DEF End, AInv, AccountsTypeOK
<1>3. ~ TakesAway(NoAdminRequest)
  BY DEF TakesAway, NoAdminRequest
<1>4. OneIsSpared'
  <2> SUFFICES ASSUME ~ overlapped, ~ selfDemoted PROVE OneIsSpared'
    BY DEF OneIsSpared, End
  <2>1. \A q, s \in RequestIds : TakesAway(request'[q]) /\ TakesAway(request'[s]) => q = s
    BY <1>2, <1>3 DEF AInv, OneIsSpared
  <2>2. PICK u \in Users :
         /\ roleOf[u] = "admin"
         /\ \A q \in RequestIds : TakesAway(request[q]) => request[q].target # u
    BY DEF AInv, OneIsSpared
  <2>3. roleOf'[u] = "admin"
    BY <2>2
  <2>4. \A q \in RequestIds : TakesAway(request'[q]) => request'[q].target # u
    BY <2>2, <1>2, <1>3
  <2> QED BY <2>1, <2>3, <2>4 DEF OneIsSpared, TakesAway
<1> QED BY <1>1, <1>4 DEF AInv

LEMMA AccountsStepInv == AInv /\ [AccountsNext]_accountVars => AInv'
<1> SUFFICES ASSUME AInv, [AccountsNext]_accountVars PROVE AInv'
  OBVIOUS
<1> USE DEF AInv, AccountsTypeOK
<1>1. CASE UNCHANGED accountVars
  BY <1>1 DEF accountVars, OneIsSpared, TakesAway
<1>2. ASSUME NEW r \in RequestIds, NEW caller \in Users, NEW target \in Users,
             NEW new \in AccountRoles, BeginChange(r, caller, target, new)
      PROVE  AInv'
  BY <1>2, BeginInv DEF BeginChange, MayChange, Requests, Ops, RolesOfRows, TakesAway
<1>3. ASSUME NEW r \in RequestIds, NEW caller \in Users, NEW target \in Users,
             NEW new \in AccountRoles, BeginCreation(r, caller, target, new)
      PROVE  AInv'
  BY <1>3, BeginInv DEF BeginCreation, Requests, Ops, RolesOfRows, TakesAway
<1>4. ASSUME NEW r \in RequestIds, NEW caller \in Users, NEW target \in Users,
             BeginRemoval(r, caller, target)
      PROVE  AInv'
  BY <1>4, BeginInv DEF BeginRemoval, MayChange, Requests, Ops, RolesOfRows, TakesAway
<1>5. ASSUME NEW r \in RequestIds, UpdateUserRole(r) PROVE AInv'
  <2>1. request[r].target \in Users /\ request[r].role \in RolesOfRows
    BY <1>5 DEF UpdateUserRole, End, Requests
  <2>2. roleOf' \in [Users -> RolesOfRows]
    BY <1>5, <2>1 DEF UpdateUserRole
  <2>3. \A u \in Users : roleOf[u] = "admin" /\ (TakesAway(request[r]) => request[r].target # u)
                           => roleOf'[u] = "admin"
    BY <1>5, <2>1 DEF UpdateUserRole, End, TakesAway
  <2> QED BY <1>5, <2>2, <2>3, EndInv DEF UpdateUserRole, Ops
<1>6. ASSUME NEW r \in RequestIds, RemoveUser(r) PROVE AInv'
  <2>1. roleOf' \in [Users -> RolesOfRows]
    BY <1>6 DEF RemoveUser, RolesOfRows
  <2>2. \A u \in Users : roleOf[u] = "admin" /\ (TakesAway(request[r]) => request[r].target # u)
                           => roleOf'[u] = "admin"
    BY <1>6 DEF RemoveUser, End, TakesAway
  <2> QED BY <1>6, <2>1, <2>2, EndInv DEF RemoveUser, Ops
<1>7. ASSUME NEW r \in RequestIds, CreateUser(r) PROVE AInv'
  <2>1. roleOf' \in [Users -> RolesOfRows]
    BY <1>7 DEF CreateUser, End, Requests
  <2>2. \A u \in Users : roleOf[u] = "admin" => roleOf'[u] = "admin"
    BY <1>7 DEF CreateUser, IsUser
  <2> QED BY <1>7, <2>1, <2>2, EndInv DEF CreateUser, Ops
<1>8. ASSUME NEW r \in RequestIds, Abandon(r) PROVE AInv'
  BY <1>8, EndInv DEF Abandon
<1>9. ASSUME NEW r \in RequestIds, NEW caller \in Users, NEW target \in Users,
             NEW op \in Ops, NEW new \in AccountRoles,
             BeginAtBetterAuth(r, caller, target, op, new)
      PROVE  AInv'
  <2> DEFINE work == [op |-> op, caller |-> caller, target |-> target, role |-> new]
  <2>1. work \in Requests /\ work.op # "none" /\ work.target \in Users
    BY DEF Requests, Ops, RolesOfRows
  <2>2. /\ Begin(r, work)
        /\ selfDemoted' = (selfDemoted \/ (TakesAway(work) /\ target = caller))
    BY <1>9 DEF BeginAtBetterAuth
  <2>3. /\ selfDemoted' \in BOOLEAN
        /\ selfDemoted => selfDemoted'
        /\ TakesAway(work) => work.target # work.caller \/ selfDemoted'
    BY <2>2
  <2>4. work.caller \in Users /\ roleOf[work.caller] = "admin"
    BY <1>9 DEF BeginAtBetterAuth
  <2> HIDE DEF work
  <2> QED BY <2>1, <2>2, <2>3, <2>4, BeginInv
<1>10. ASSUME NEW v \in Users, SocialSignUp(v) PROVE AInv'
  <2>1. /\ roleOf' \in [Users -> RolesOfRows]
        /\ \A u \in Users : roleOf[u] = "admin" => roleOf'[u] = "admin"
    BY <1>10 DEF SocialSignUp, IsUser, RolesOfRows, AccountRoles
  <2>2. UNCHANGED <<request, overlapped, selfDemoted>>
    BY <1>10 DEF SocialSignUp
  <2>3. AccountsTypeOK'
    BY <2>1, <2>2
  <2>4. OneIsSpared'
    BY <2>1, <2>2 DEF OneIsSpared, TakesAway
  <2> QED BY <2>3, <2>4
<1> QED
  BY <1>1, <1>2, <1>3, <1>4, <1>5, <1>6, <1>7, <1>8, <1>9, <1>10 DEF AccountsNext

\* Type correctness of accounts and requests.
THEOREM AccountsTypeCorrect == AccountsSpec => []AccountsTypeOK
<1>1. AInv => AccountsTypeOK
  BY DEF AInv
<1> QED BY <1>1, AccountsInitInv, AccountsStepInv, PTL DEF AccountsSpec

\* There is an administrator at all times, for any number of accounts and of
\* requests, unless two requests that take something away overlapped or an
\* administrator asked Better Auth to take away his own role.
THEOREM AnAdminRemains == AccountsSpec => []SomeAdminRemains
<1>1. AInv => SomeAdminRemains
  BY DEF AInv, OneIsSpared, SomeAdminRemains
<1> QED BY <1>1, AccountsInitInv, AccountsStepInv, PTL DEF AccountsSpec

-----------------------------------------------------------------------------
(***************************************************************************)
(* CashRegister, for any sales, clerks, instants and tickets.  A closing   *)
(* counts sales that are made and belong to its day: what a request knows  *)
(* stays true until it writes it down, and the days of a table are apart.  *)
(***************************************************************************)

(* The till: amounts.                                                      *)

LEMMA RoundedBelow ==
  ASSUME NEW n \in Nat, NEW m \in Nat, NEW d \in Nat, d >= 1, n <= m * d
  PROVE  Rounded(n, d) \in Nat /\ Rounded(n, d) <= m
<1> DEFINE x == 2 * n + d
           y == 2 * d
           q == x \div y
           r == x % y
<1>1. x \in Nat /\ y \in Nat /\ y >= 1
  OBVIOUS
<1> HIDE DEF x, y
<1>2. q \in Nat /\ r \in Nat /\ x = y * q + r /\ r < y
  BY <1>1
<1> HIDE DEF q, r
<1>3. Rounded(n, d) = q
  BY DEF Rounded, q, x, y
<1>4. ~ (q >= m + 1)
  <2> SUFFICES ASSUME q >= m + 1 PROVE FALSE
    OBVIOUS
  <2>1. y * q >= y * (m + 1)
    BY <1>1, <1>2
  <2>2. y * (m + 1) = 2 * (m * d) + 2 * d
    BY DEF y
  <2> DEFINE a == y * q
             b == m * d
  <2>3. a \in Int /\ b \in Int /\ a >= 2 * b + 2 * d /\ n <= b /\ x = a + r
    BY <1>1, <1>2, <2>1, <2>2
  <2> HIDE DEF a, b
  <2> QED BY <1>2, <2>3 DEF x
<1> QED BY <1>2, <1>3, <1>4

LEMMA LineAmounts ==
  ASSUME NEW line \in LineOfSale
  PROVE  LineTtc(line) \in Nat /\ LineHt(line) \in Nat /\ LineHt(line) <= LineTtc(line)
<1> DEFINE ttc == LineTtc(line)
           d == 10000 + line.tvaBps
<1>1. ttc \in Nat /\ d \in Nat /\ d >= 10000
  BY DEF LineTtc, LineOfSale
<1>2. LineHt(line) = Rounded(ttc * 10000, d)
  BY DEF LineHt, CalculateHtFromTtc
<1> HIDE DEF ttc, d
<1>3. ttc * 10000 \in Nat /\ ttc * 10000 <= ttc * d
  BY <1>1
<1>4. Rounded(ttc * 10000, d) \in Nat /\ Rounded(ttc * 10000, d) <= ttc
  BY <1>1, <1>3, RoundedBelow
<1> QED BY <1>1, <1>2, <1>4 DEF ttc

\* The amount without tax of a ticket is between nothing and what is paid.
LEMMA TicketAmountsInOrder ==
  ASSUME NEW ticket \in Ticket
  PROVE  LET amounts == TicketAmounts(ticket.lines, ticket.remise)
         IN  amounts.ttc \in Nat /\ amounts.ht \in Nat /\ amounts.ht <= amounts.ttc
<1> DEFINE D == DOMAIN ticket.lines
           f == [n \in D |-> LineTtc(ticket.lines[n])]
           h == [n \in D |-> LineHt(ticket.lines[n])]
           ttc == SumFunctionOnSet(f, D)
           ht == SumFunctionOnSet(h, D)
           total == DiscountedTtc(ttc, ticket.remise)
           net == DiscountedHt(ht, ttc, total)
<1>1. ticket.lines \in Seq(LineOfSale) /\ ticket.remise \in Nat
  BY DEF Ticket
<1>2. IsFiniteSet(D)
  <2> DEFINE n == Len(ticket.lines)
  <2>1. D = 1..n /\ n \in Int
    BY <1>1
  <2> HIDE DEF D, n
  <2>2. IsFiniteSet(1..n)
    BY <2>1, FS_Interval
  <2> QED BY <2>1, <2>2
<1>3. \A n \in D : f[n] \in Nat /\ h[n] \in Nat /\ h[n] <= f[n]
  <2> TAKE n \in D
  <2>1. ticket.lines[n] \in LineOfSale
    BY <1>1
  <2> QED BY <2>1, LineAmounts
<1>4. TicketAmounts(ticket.lines, ticket.remise) = [ttc |-> total, ht |-> net]
  BY DEF TicketAmounts, SumOfLines
<1> HIDE DEF D, f, h
<1>5. ttc \in Nat /\ ht \in Nat /\ ht <= ttc
  <2>1. ttc \in Nat /\ ht \in Nat
    BY <1>2, <1>3, SumNat
  <2>2. \A n \in D : h[n] \in Int /\ f[n] \in Int /\ h[n] <= f[n]
    BY <1>3
  <2>3. ht <= ttc
    BY <1>2, <2>2, SumMonotonic
  <2> QED BY <2>1, <2>3
<1> HIDE DEF ttc, ht
<1>6. total \in Nat /\ total <= ttc
  BY <1>1, <1>5 DEF DiscountedTtc
<1> HIDE DEF total
<1>7. net \in Nat /\ net <= total
  <2>1. CASE ttc > 0
    <3>1. net = Rounded(ht * total, ttc)
      BY <2>1 DEF DiscountedHt
    <3>2. ht * total \in Nat /\ ht * total <= total * ttc
      BY <1>5, <1>6
    <3>3. Rounded(ht * total, ttc) \in Nat /\ Rounded(ht * total, ttc) <= total
      BY <1>5, <1>6, <2>1, <3>2, RoundedBelow
    <3> QED BY <3>1, <3>3
  <2>2. CASE ~ (ttc > 0)
    <3>1. net = ht /\ ht = 0
      BY <1>5, <2>2 DEF DiscountedHt
    <3> QED BY <1>6, <3>1
  <2> QED BY <2>1, <2>2
<1> HIDE DEF net
<1> QED BY <1>4, <1>6, <1>7

-----------------------------------------------------------------------------
(* The till: days.                                                         *)

LEMMA DayOfBounds ==
  ASSUME NEW d \in Int, NEW h \in Int, ParisMidnight(d) <= h, h < ParisMidnight(d + 1)
  PROVE  ParisDay(h) = d
<1>1. Spring \in Int /\ Autumn \in Int /\ Spring % 24 = 1 /\ Autumn % 24 = 1 /\ Spring < Autumn
  BY CashAssumption
<1>2. 24 * d <= h + Offset(h)
  BY <1>1 DEF ParisMidnight, Offset
<1>3. h + Offset(h) < 24 * (d + 1)
  BY <1>1 DEF ParisMidnight, Offset
<1>4. h + Offset(h) \in Int
  BY DEF Offset
<1> DEFINE x == h + Offset(h)
<1> HIDE DEF x
<1>5. x \in Int /\ 24 * d <= x /\ x < 24 * d + 24
  BY <1>2, <1>3, <1>4 DEF x
<1>6. x \div 24 = d
  BY <1>5
<1> QED BY <1>6 DEF ParisDay, x

LEMMA BoundsOfDay ==
  ASSUME NEW d \in Int, NEW h \in Int, ParisDay(h) = d
  PROVE  ParisMidnight(d) <= h /\ h < ParisMidnight(d + 1)
<1>1. Spring \in Int /\ Autumn \in Int /\ Spring % 24 = 1 /\ Autumn % 24 = 1 /\ Spring < Autumn
  BY CashAssumption
<1> DEFINE x == h + Offset(h)
<1>2. x \in Int
  BY DEF Offset
<1>3. x \div 24 = d
  BY DEF ParisDay
<1> HIDE DEF x
<1>4. 24 * d <= x /\ x < 24 * d + 24
  BY <1>2, <1>3
<1> QED BY <1>1, <1>4 DEF ParisMidnight, Offset, x

LEMMA ParisDayInt == ASSUME NEW h \in Int PROVE ParisDay(h) \in Int /\ ParisMidnight(ParisDay(h)) \in Int
BY DEF ParisDay, ParisMidnight, Offset

-----------------------------------------------------------------------------
(* The till: closings.                                                     *)

SaleRow == [state : {"none", "open", "done"}, date : Int, mode : Modes, ttc : Nat, ht : Nat]

\* What a closing's totals are worth by themselves.
AddUp(t) ==
  /\ t.ht + t.tva = t.ttc
  /\ 0 <= t.ht /\ t.ht <= t.ttc
  /\ t.parMode["cb"] + t.parMode["especes"] + t.parMode["cheque"] = t.ttc

\* Sales that are made and belong to one day.
SalesOfDay(S, d) ==
  \A s \in S : s \in Sales /\ ventes[s].state = "done" /\ ParisDay(ventes[s].date) = d

\* What a closing request knows.
ClerkRow(w) == w = [state |-> w.state, start |-> w.start, end |-> w.end,
                    seen |-> w.seen, totals |-> w.totals]

ClerkKnows(w) ==
  w.state # "idle" =>
    \E d \in Int :
      /\ w.start = ParisMidnight(d) /\ w.end = ParisMidnight(d + 1)
      /\ SalesOfDay(w.seen, d)
      /\ w.state = "totalled" =>
           \E t : /\ w.totals = {t} /\ w.seen \subseteq t.ventes
                  /\ SalesOfDay(t.ventes, d) /\ AddUp(t)

\* A row of the closed days.
DayIsRight(j) ==
  \E d \in Int : /\ j.date = ParisMidnight(d) /\ j.seen \subseteq j.totals.ventes
                 /\ SalesOfDay(j.totals.ventes, d) /\ AddUp(j.totals)

CashInv ==
  /\ hour \in Int
  /\ ventes \in [Sales -> SaleRow]
  /\ \A s \in Sales : ventes[s].ht <= ventes[s].ttc
  /\ DOMAIN clerk = Clerks
  /\ \A c \in Clerks : ClerkRow(clerk[c]) /\ ClerkKnows(clerk[c])
  /\ \A j \in journees : DayIsRight(j)
  /\ \A j, k \in journees : j.date = k.date => j = k

-----------------------------------------------------------------------------

\* The sum over the sales of one mode.
ModePart(S, m) == [s \in S |-> IF ventes[s].mode = m THEN ventes[s].ttc ELSE 0]

LEMMA TotalOfMode ==
  ASSUME NEW S \in SUBSET Sales, ventes \in [Sales -> SaleRow], NEW m \in Modes
  PROVE  TotalOf({s \in S : ventes[s].mode = m}, "ttc") = SumFunctionOnSet(ModePart(S, m), S)
<1> DEFINE T == {s \in S : ventes[s].mode = m}
           f == [s \in T |-> ventes[s].ttc]
           g == [s \in S |-> ventes[s].ttc]
<1>1. IsFiniteSet(S) /\ IsFiniteSet(T) /\ T \in SUBSET S
  BY CashAssumption, FS_Subset
<1>2. \A s \in S : g[s] \in Int
  BY DEF SaleRow
<1>3. \A s \in S : ModePart(S, m)[s] = IF s \in T THEN g[s] ELSE 0
  BY DEF ModePart
<1>4. \A s \in T : f[s] = g[s]
  OBVIOUS
<1>5. TotalOf(T, "ttc") = SumFunctionOnSet(f, T)
  BY DEF TotalOf
<1> HIDE DEF T, f, g
<1>6. SumFunctionOnSet(f, T) = SumFunctionOnSet(g, T)
  BY <1>1, <1>4, SumEqual
<1>7. SumFunctionOnSet(g, T) = SumFunctionOnSet(ModePart(S, m), S)
  BY <1>1, <1>2, <1>3, SumOfPart
<1> QED BY <1>5, <1>6, <1>7 DEF T

LEMMA TotalsAddUp ==
  ASSUME NEW S \in SUBSET Sales, ventes \in [Sales -> SaleRow],
         \A s \in Sales : ventes[s].ht <= ventes[s].ttc
  PROVE  AddUp(CalculateTotals(S)) /\ CalculateTotals(S).ventes = S
<1> DEFINE ttc == [s \in S |-> ventes[s].ttc]
           ht == [s \in S |-> ventes[s].ht]
           tva == [s \in S |-> ventes[s].ttc - ventes[s].ht]
           cb == ModePart(S, "cb")
           especes == ModePart(S, "especes")
           cheque == ModePart(S, "cheque")
           both == [s \in S |-> cb[s] + especes[s]]
<1>1. IsFiniteSet(S)
  BY CashAssumption, FS_Subset
<1>2. \A s \in S : /\ ttc[s] \in Nat /\ ht[s] \in Nat /\ tva[s] \in Int
                   /\ ht[s] <= ttc[s] /\ ttc[s] = ht[s] + tva[s]
  BY DEF SaleRow
<1>3. \A s \in S : /\ cb[s] \in Nat /\ especes[s] \in Nat /\ cheque[s] \in Nat
                   /\ both[s] = cb[s] + especes[s]
                   /\ ttc[s] = both[s] + cheque[s]
  <2> TAKE s \in S
  <2>1. ventes[s].mode \in Modes /\ ventes[s].ttc \in Nat
    BY DEF SaleRow
  <2> QED BY <2>1 DEF ModePart, Modes
<1>4. CalculateTotals(S)
        = [ventes  |-> S,
           ttc     |-> SumFunctionOnSet(ttc, S),
           ht      |-> SumFunctionOnSet(ht, S),
           tva     |-> SumFunctionOnSet(tva, S),
           parMode |-> [m \in Modes |-> TotalOf({s \in S : ventes[s].mode = m}, "ttc")]]
  BY DEF CalculateTotals, TotalOf
<1>5. /\ CalculateTotals(S).parMode["cb"] = SumFunctionOnSet(cb, S)
      /\ CalculateTotals(S).parMode["especes"] = SumFunctionOnSet(especes, S)
      /\ CalculateTotals(S).parMode["cheque"] = SumFunctionOnSet(cheque, S)
  <2>1. CalculateTotals(S).parMode
          = [m \in Modes |-> TotalOf({s \in S : ventes[s].mode = m}, "ttc")]
    BY <1>4
  <2>2. \A m \in Modes : CalculateTotals(S).parMode[m] = SumFunctionOnSet(ModePart(S, m), S)
    BY <2>1, TotalOfMode
  <2> QED BY <2>2 DEF Modes
<1>6. /\ CalculateTotals(S).ttc = SumFunctionOnSet(ttc, S)
      /\ CalculateTotals(S).ht = SumFunctionOnSet(ht, S)
      /\ CalculateTotals(S).tva = SumFunctionOnSet(tva, S)
      /\ CalculateTotals(S).ventes = S
  BY <1>4
<1> HIDE DEF ttc, ht, tva, cb, especes, cheque, both
<1>7. SumFunctionOnSet(ttc, S) = SumFunctionOnSet(ht, S) + SumFunctionOnSet(tva, S)
  <2>1. \A s \in S : ht[s] \in Int /\ tva[s] \in Int /\ ttc[s] = ht[s] + tva[s]
    BY <1>2
  <2> QED BY <1>1, <2>1, SumPlus
<1>8. SumFunctionOnSet(ht, S) <= SumFunctionOnSet(ttc, S)
  <2>1. \A s \in S : ht[s] \in Int /\ ttc[s] \in Int /\ ht[s] <= ttc[s]
    BY <1>2
  <2> QED BY <1>1, <2>1, SumMonotonic
<1>9. SumFunctionOnSet(ttc, S) = SumFunctionOnSet(both, S) + SumFunctionOnSet(cheque, S)
  <2>1. \A s \in S : both[s] \in Int /\ cheque[s] \in Int /\ ttc[s] = both[s] + cheque[s]
    BY <1>3
  <2> QED BY <1>1, <2>1, SumPlus
<1>10. SumFunctionOnSet(both, S) = SumFunctionOnSet(cb, S) + SumFunctionOnSet(especes, S)
  <2>1. \A s \in S : cb[s] \in Int /\ especes[s] \in Int /\ both[s] = cb[s] + especes[s]
    BY <1>3
  <2> QED BY <1>1, <2>1, SumPlus
<1>11. SumFunctionOnSet(ht, S) \in Nat
  BY <1>1, <1>2, SumNat
<1>12. SumFunctionOnSet(tva, S) \in Int
  BY <1>1, <1>2, SumInt
<1>13. SumFunctionOnSet(cb, S) \in Nat /\ SumFunctionOnSet(especes, S) \in Nat
       /\ SumFunctionOnSet(cheque, S) \in Nat
  BY <1>1, <1>3, SumNat
<1> DEFINE t == CalculateTotals(S)
<1>14. /\ t.ht + t.tva = t.ttc /\ 0 <= t.ht /\ t.ht <= t.ttc
       /\ t.parMode["cb"] + t.parMode["especes"] + t.parMode["cheque"] = t.ttc
  BY <1>5, <1>6, <1>7, <1>8, <1>9, <1>10, <1>11, <1>12, <1>13
<1> QED BY <1>6, <1>14 DEF AddUp

\* Sales that are made stay as they are, and with them what was read.
LEMMA DaysStay ==
  ASSUME \A s \in Sales : ventes[s].state = "done" => ventes'[s] = ventes[s],
         NEW S, NEW d, SalesOfDay(S, d)
  PROVE  \A s \in S : s \in Sales /\ ventes'[s].state = "done" /\ ParisDay(ventes'[s].date) = d
BY DEF SalesOfDay

LEMMA RightDaysStay ==
  ASSUME \A s \in Sales : ventes[s].state = "done" => ventes'[s] = ventes[s],
         NEW j, DayIsRight(j)
  PROVE  DayIsRight(j)'
BY DaysStay DEF DayIsRight, SalesOfDay

LEMMA CashInitially == CashInit => CashInv
<1> SUFFICES ASSUME CashInit PROVE CashInv
  OBVIOUS
<1>1. hour \in Int
  BY CashAssumption DEF CashInit
<1>2. NoSale \in SaleRow /\ NoSale.ht <= NoSale.ttc
  BY DEF NoSale, SaleRow, Modes
<1>3. \A c \in Clerks : clerk[c].state = "idle" /\ ClerkRow(clerk[c])
  BY DEF CashInit, Idle, ClerkRow
<1>4. \A s \in Sales : ventes[s] = NoSale
  BY DEF CashInit
<1> QED BY <1>1, <1>2, <1>3, <1>4 DEF CashInit, CashInv, ClerkKnows

LEMMA CashStep == CashInv /\ [CashNext]_cashVars => CashInv'
<1> SUFFICES ASSUME CashInv, [CashNext]_cashVars PROVE CashInv'
  OBVIOUS
<1>1. CASE HourPasses
  <2>1. hour' \in Int /\ UNCHANGED <<ventes, journees, clerk>>
    BY <1>1, CashAssumption DEF HourPasses
  <2> QED BY <2>1 DEF CashInv, ClerkKnows, DayIsRight, SalesOfDay
<1>2. ASSUME NEW s \in Sales, BeginSale(s) \/ EndSale(s) PROVE CashInv'
  <2>1. hour' = hour /\ journees' = journees /\ clerk' = clerk
    BY <1>2 DEF BeginSale, EndSale
  <2>2. ventes[s].state # "done"
    BY <1>2 DEF BeginSale, EndSale
  <2>3. PICK r \in SaleRow : ventes' = [ventes EXCEPT ![s] = r] /\ r.ht <= r.ttc
    <3>1. CASE BeginSale(s)
      <4>1. PICK ticket \in Tickets :
              LET amounts == TicketAmounts(ticket.lines, ticket.remise)
              IN  ventes' = [ventes EXCEPT ![s] =
                              [state |-> "open", date |-> hour, mode |-> ticket.mode,
                               ttc |-> amounts.ttc, ht |-> amounts.ht]]
        BY <3>1 DEF BeginSale
      <4> DEFINE amounts == TicketAmounts(ticket.lines, ticket.remise)
                 r == [state |-> "open", date |-> hour, mode |-> ticket.mode,
                       ttc |-> amounts.ttc, ht |-> amounts.ht]
      <4>2. ticket \in Ticket
        BY CashAssumption
      <4>3. amounts.ttc \in Nat /\ amounts.ht \in Nat /\ amounts.ht <= amounts.ttc
        BY <4>2, TicketAmountsInOrder
      <4>4. hour \in Int /\ ticket.mode \in Modes
        BY <4>2 DEF CashInv, Ticket
      <4>5. ventes' = [ventes EXCEPT ![s] = r]
        BY <4>1
      <4> HIDE DEF amounts
      <4>6. r \in SaleRow /\ r.ht <= r.ttc
        BY <4>3, <4>4 DEF SaleRow
      <4> QED BY <4>5, <4>6
    <3>2. CASE EndSale(s)
      <4>1. ventes[s] \in SaleRow /\ ventes[s].ht <= ventes[s].ttc
        BY DEF CashInv
      <4>2. CASE ventes' = [ventes EXCEPT ![s] = NoSale]
        <5>1. NoSale \in SaleRow /\ NoSale.ht <= NoSale.ttc
          BY DEF NoSale, SaleRow, Modes
        <5> QED BY <4>2, <5>1
      <4>3. CASE ventes' = [ventes EXCEPT ![s].state = "done"]
        <5> DEFINE r == [ventes[s] EXCEPT !.state = "done"]
        <5>1. r \in SaleRow /\ r.ht <= r.ttc
          BY <4>1 DEF SaleRow
        <5> QED BY <4>3, <5>1
      <4> QED BY <3>2, <4>2, <4>3 DEF EndSale
    <3> QED BY <1>2, <3>1, <3>2
  <2>4. ventes \in [Sales -> SaleRow]
    BY DEF CashInv
  <2>5. /\ ventes' \in [Sales -> SaleRow]
        /\ \A x \in Sales : ventes'[x] = IF x = s THEN r ELSE ventes[x]
    BY <2>3, <2>4
  <2>6. \A x \in Sales : ventes[x].state = "done" => ventes'[x] = ventes[x]
    BY <2>2, <2>5
  <2>7. \A x \in Sales : ventes'[x].ht <= ventes'[x].ttc
    BY <2>3, <2>5 DEF CashInv
  <2>8. ASSUME NEW c \in Clerks PROVE ClerkKnows(clerk[c])'
    <3> DEFINE w == clerk[c]
    <3>1. ClerkKnows(w) /\ w' = w
      BY <2>1 DEF CashInv
    <3> HIDE DEF w
    <3>2. ClerkKnows(w)'
      BY <2>6, <3>1, DaysStay DEF ClerkKnows, SalesOfDay
    <3> QED BY <3>2 DEF w
  <2>9. ASSUME NEW j \in journees' PROVE DayIsRight(j)'
    BY <2>1, <2>6, RightDaysStay DEF CashInv
  <2> QED BY <2>1, <2>5, <2>7, <2>8, <2>9 DEF CashInv
<1>3. ASSUME NEW c \in Clerks, BeginClosing(c) PROVE CashInv'
  <2> DEFINE d == ParisDay(hour)
             seen == SoldBetween(ParisMidnight(d), ParisMidnight(d + 1))
             w == [state |-> "checked", start |-> ParisMidnight(d), end |-> ParisMidnight(d + 1),
                   seen |-> seen, totals |-> {}]
  <2>1. UNCHANGED <<hour, ventes, journees>> /\ clerk' = [clerk EXCEPT ![c] = w]
    BY <1>3 DEF BeginClosing, ParisDayBounds
  <2>2. d \in Int
    BY ParisDayInt DEF CashInv
  <2>3. SalesOfDay(seen, d)
    <3>1. \A x \in Sales : ventes[x].date \in Int
      BY DEF CashInv, SaleRow
    <3>2. \A x \in seen : /\ x \in Sales /\ ventes[x].state = "done"
                          /\ ParisMidnight(d) <= ventes[x].date
                          /\ ventes[x].date < ParisMidnight(d + 1)
      BY DEF SoldBetween, Committed
    <3> HIDE DEF d, seen
    <3> QED BY <2>2, <3>1, <3>2, DayOfBounds DEF SalesOfDay
  <2>4. ClerkKnows(w) /\ ClerkRow(w)
    <3> HIDE DEF d, seen
    <3> QED BY <2>2, <2>3 DEF ClerkKnows, ClerkRow
  <2> HIDE DEF d, seen, w
  <2>5. ASSUME NEW b \in Clerks PROVE ClerkKnows(clerk[b])' /\ ClerkRow(clerk[b])'
    <3>1. ClerkKnows(clerk'[b]) /\ ClerkRow(clerk'[b])
      BY <2>1, <2>4 DEF CashInv
    <3> QED BY <2>1, <3>1 DEF ClerkKnows, SalesOfDay, ClerkRow
  <2> QED BY <2>1, <2>5 DEF CashInv, DayIsRight, SalesOfDay
<1>4. ASSUME NEW c \in Clerks, ReadTotals(c) PROVE CashInv'
  <2> DEFINE v == clerk[c]
             S == SoldBetween(v.start, v.end)
             t == CalculateTotals(S)
             w == [v EXCEPT !.state = "totalled", !.totals = {t}]
  <2>1. UNCHANGED <<hour, ventes, journees>> /\ clerk' = [clerk EXCEPT ![c] = w]
    BY <1>4 DEF ReadTotals, CashInv
  <2>2. v.state = "checked" /\ ClerkKnows(v) /\ ClerkRow(v)
    BY <1>4 DEF ReadTotals, CashInv
  <2>3. PICK d \in Int : /\ v.start = ParisMidnight(d) /\ v.end = ParisMidnight(d + 1)
                         /\ SalesOfDay(v.seen, d)
    BY <2>2 DEF ClerkKnows
  <2>4. /\ w.state = "totalled" /\ w.totals = {t} /\ w.start = v.start /\ w.end = v.end
        /\ w.seen = v.seen /\ ClerkRow(w)
    <3> HIDE DEF v, t
    <3>1. w = [[state |-> v.state, start |-> v.start, end |-> v.end, seen |-> v.seen,
                totals |-> v.totals] EXCEPT !.state = "totalled", !.totals = {t}]
      BY <2>2 DEF ClerkRow
    <3> HIDE DEF w
    <3>2. w = [state |-> "totalled", start |-> v.start, end |-> v.end, seen |-> v.seen,
               totals |-> {t}]
      BY <3>1
    <3> QED BY <3>2 DEF ClerkRow
  <2> HIDE DEF v, w, t
  <2>5. \A x \in Sales : ventes[x].date \in Int
    BY DEF CashInv, SaleRow
  <2>6. \A x : x \in S <=> /\ x \in Sales /\ ventes[x].state = "done"
                           /\ ParisMidnight(d) <= ventes[x].date
                           /\ ventes[x].date < ParisMidnight(d + 1)
    BY <2>3 DEF SoldBetween, Committed
  <2> HIDE DEF S
  <2>7. SalesOfDay(S, d)
    BY <2>5, <2>6, DayOfBounds DEF SalesOfDay
  <2>8. v.seen \subseteq S
    BY <2>3, <2>5, <2>6, BoundsOfDay DEF SalesOfDay
  <2>9. AddUp(t) /\ t.ventes = S
    <3>1. S \in SUBSET Sales
      BY <2>6
    <3> QED BY <3>1, TotalsAddUp DEF CashInv, t
  <2>10. ClerkKnows(w)
    BY <2>3, <2>4, <2>7, <2>8, <2>9 DEF ClerkKnows
  <2>11. ASSUME NEW b \in Clerks PROVE ClerkKnows(clerk[b])' /\ ClerkRow(clerk[b])'
    <3>1. ClerkKnows(clerk'[b]) /\ ClerkRow(clerk'[b])
      BY <2>1, <2>4, <2>10 DEF CashInv
    <3> QED BY <2>1, <3>1 DEF ClerkKnows, SalesOfDay, ClerkRow
  <2> QED BY <2>1, <2>11 DEF CashInv, DayIsRight, SalesOfDay
<1>5. ASSUME NEW c \in Clerks, CreateJournee(c) \/ GiveUpClosing(c) PROVE CashInv'
  <2> DEFINE v == clerk[c]
  <2>1. UNCHANGED <<hour, ventes>> /\ clerk' = [clerk EXCEPT ![c] = Idle]
    BY <1>5 DEF CreateJournee, GiveUpClosing
  <2>2. ASSUME NEW b \in Clerks PROVE ClerkKnows(clerk[b])' /\ ClerkRow(clerk[b])'
    <3>1. ClerkKnows(Idle) /\ ClerkRow(Idle)
      BY DEF ClerkKnows, ClerkRow, Idle
    <3>2. ClerkKnows(clerk'[b]) /\ ClerkRow(clerk'[b])
      BY <2>1, <3>1 DEF CashInv
    <3> QED BY <2>1, <3>2 DEF ClerkKnows, SalesOfDay, ClerkRow
  <2>3. CASE journees' = journees
    BY <2>1, <2>2, <2>3 DEF CashInv, DayIsRight, SalesOfDay
  <2>4. CASE CreateJournee(c) /\ ~ DayClosed(v.start)
    <3>1. v.state = "totalled" /\ ClerkKnows(v)
      BY <2>4 DEF CreateJournee, CashInv
    <3>2. PICK d \in Int :
            /\ v.start = ParisMidnight(d)
            /\ \E t : /\ v.totals = {t} /\ v.seen \subseteq t.ventes
                      /\ SalesOfDay(t.ventes, d) /\ AddUp(t)
      BY <3>1 DEF ClerkKnows
    <3>3. PICK t : /\ v.totals = {t} /\ v.seen \subseteq t.ventes
                   /\ SalesOfDay(t.ventes, d) /\ AddUp(t)
      BY <3>2
    <3> DEFINE j == [date |-> v.start, seen |-> v.seen, totals |-> t]
    <3>4. journees' = journees \cup {j}
      BY <2>4, <3>3 DEF CreateJournee
    <3>5. \A k \in journees : k.date # j.date
      BY <2>4 DEF DayClosed
    <3> HIDE DEF v
    <3>6. DayIsRight(j)
      BY <3>2, <3>3 DEF DayIsRight
    <3> HIDE DEF j
    <3>7. \A k \in journees' : DayIsRight(k)'
      BY <2>1, <3>4, <3>6 DEF CashInv, DayIsRight, SalesOfDay
    <3>8. \A k, l \in journees' : k.date = l.date => k = l
      BY <3>4, <3>5 DEF CashInv
    <3> QED BY <2>1, <2>2, <3>7, <3>8 DEF CashInv
  <2> QED BY <1>5, <2>3, <2>4 DEF CreateJournee, GiveUpClosing
<1>6. CASE UNCHANGED cashVars
  BY <1>6 DEF cashVars, CashInv, ClerkKnows, ClerkRow, DayIsRight, SalesOfDay
<1> QED BY <1>1, <1>2, <1>3, <1>4, <1>5, <1>6 DEF CashNext

\* A closing counts sales of its own day in Paris only and all that were made
\* when its request began, its parts add up, and no day is closed and no sale is
\* counted twice: for any tickets, hours of sales and of requests, and change of
\* the clock (caisse.service.ts, money.ts).
THEOREM TheTillAddsUp == CashSpec => []ClosingsAddUp
<1>1. CashInv => ClosingsAddUp
  <2> SUFFICES ASSUME CashInv PROVE ClosingsAddUp
    OBVIOUS
  <2>1. ASSUME NEW j \in journees
        PROVE  LET t == j.totals
               IN  /\ j.seen \subseteq t.ventes
                   /\ \A s \in t.ventes : ParisMidnight(ParisDay(ventes[s].date)) = j.date
                   /\ t.ht + t.tva = t.ttc
                   /\ 0 <= t.ht /\ t.ht <= t.ttc
                   /\ t.parMode["cb"] + t.parMode["especes"] + t.parMode["cheque"] = t.ttc
    BY DEF CashInv, DayIsRight, SalesOfDay, AddUp
  <2>2. \A j, k \in journees : j.date = k.date => j = k
    BY DEF CashInv
  <2>3. ASSUME NEW j \in journees, NEW k \in journees,
               j.totals.ventes \cap k.totals.ventes # {}
        PROVE  j = k
    <3>1. PICK s : s \in j.totals.ventes /\ s \in k.totals.ventes
      BY <2>3
    <3>2. j.date = k.date
      BY <2>1, <3>1
    <3> QED BY <2>2, <3>2
  <2> QED BY <2>1, <2>2, <2>3 DEF ClosingsAddUp
<1> QED BY <1>1, CashInitially, CashStep, PTL DEF CashSpec

-----------------------------------------------------------------------------
(***************************************************************************)
(* ProductionNeeds, for any number of orders, any days and any stock.  The *)
(* loop over the lines leaves, after each, what is over of what there was; *)
(* so a line lacks what those up to it ask for beyond that, whatever sort  *)
(* put them in that order.                                                 *)
(***************************************************************************)

Order == [statut : OrderStatuses \cup {"absent"}, due : DueDays \cup {NoDue}, quantite : Nat]
Table == [OrderIds -> Order]

LEMMA OrderIdsAre == OrderIds \subseteq Nat /\ IsFiniteSet(OrderIds)
BY NeedsAssumption, FS_Interval DEF OrderIds

LEMMA PartIsFinite == ASSUME NEW S \in SUBSET OrderIds PROVE IsFiniteSet(S)
BY OrderIdsAre, FS_Subset

-----------------------------------------------------------------------------
(* The order in which orders are served.                                   *)

\* No two orders are served at once, and who is served is served before all who
\* are served later.
LEMMA ServedIsOrder ==
  ASSUME NEW os \in Table, NEW i \in OrderIds, NEW j \in OrderIds
  PROVE  /\ ~ ServedBefore(os, i, i)
         /\ i # j => ServedBefore(os, i, j) \/ ServedBefore(os, j, i)
         /\ ~ (ServedBefore(os, i, j) /\ ServedBefore(os, j, i))
         /\ \A k \in OrderIds :
              ServedBefore(os, i, j) /\ ServedBefore(os, j, k) => ServedBefore(os, i, k)
<1>1. \A k \in OrderIds : k \in Nat /\ (os[k].due = NoDue \/ os[k].due \in Int)
  BY OrderIdsAre, NeedsAssumption DEF Table, Order
<1> QED BY <1>1 DEF ServedBefore

\* The page sorts by keys, the API by dates: the order is the same.
LEMMA SameOrder ==
  ASSUME NEW os, NEW i, NEW j PROVE DueKeyBefore(os, i, j) <=> ServedBefore(os, i, j)
BY DEF DueKeyBefore, ServedBefore

Earlier(os, S, i) == {j \in S : ServedBefore(os, j, i)}

LEMMA EarlierGrows ==
  ASSUME NEW os \in Table, NEW S \in SUBSET OrderIds, NEW i \in S, NEW j \in S,
         ServedBefore(os, i, j)
  PROVE  Cardinality(Earlier(os, S, i)) < Cardinality(Earlier(os, S, j))
<1>1. Earlier(os, S, i) \in SUBSET Earlier(os, S, j)
  BY ServedIsOrder DEF Earlier
<1>2. i \in Earlier(os, S, j) /\ i \notin Earlier(os, S, i)
  BY ServedIsOrder DEF Earlier
<1>3. Earlier(os, S, j) \in SUBSET OrderIds /\ Earlier(os, S, i) \in SUBSET OrderIds
  BY DEF Earlier
<1>4. IsFiniteSet(Earlier(os, S, j)) /\ IsFiniteSet(Earlier(os, S, i))
  BY <1>3, PartIsFinite
<1>5. /\ Cardinality(Earlier(os, S, i)) <= Cardinality(Earlier(os, S, j))
      /\ Cardinality(Earlier(os, S, i)) # Cardinality(Earlier(os, S, j))
  BY <1>1, <1>2, <1>4, FS_Subset
<1>6. Cardinality(Earlier(os, S, j)) \in Nat /\ Cardinality(Earlier(os, S, i)) \in Nat
  BY <1>4, FS_CardinalityType
<1> QED BY <1>5, <1>6

\* Every place in the queue is somebody's.
LEMMA PlacesAreTaken ==
  ASSUME NEW os \in Table, NEW S \in SUBSET OrderIds
  PROVE  /\ Cardinality(S) \in Nat
         /\ \A i \in S : Cardinality(Earlier(os, S, i)) \in 0..(Cardinality(S) - 1)
         /\ \A k \in 1..Cardinality(S) : \E i \in S : Cardinality(Earlier(os, S, i)) = k - 1
<1> DEFINE n == Cardinality(S)
           T == 0..(n - 1)
           r == [i \in S |-> Cardinality(Earlier(os, S, i))]
<1>1. IsFiniteSet(S) /\ n \in Nat
  BY PartIsFinite, FS_CardinalityType
<1>2. ASSUME NEW i \in S PROVE r[i] \in T
  <2>1. Earlier(os, S, i) \in SUBSET S /\ i \notin Earlier(os, S, i)
    BY ServedIsOrder DEF Earlier
  <2>2. /\ IsFiniteSet(Earlier(os, S, i))
        /\ Cardinality(Earlier(os, S, i)) <= n
        /\ Cardinality(Earlier(os, S, i)) # n
    BY <1>1, <2>1, FS_Subset
  <2>3. Cardinality(Earlier(os, S, i)) \in Nat
    BY <2>2, FS_CardinalityType
  <2> HIDE DEF n
  <2> QED BY <1>1, <2>2, <2>3
<1>3. IsFiniteSet(T) /\ Cardinality(T) = n
  <2> HIDE DEF n
  <2>1. 0 \in Int /\ n - 1 \in Int
    BY <1>1
  <2>2. IsFiniteSet(T) /\ Cardinality(T) = IF 0 > n - 1 THEN 0 ELSE (n - 1) - 0 + 1
    BY <2>1, FS_Interval
  <2> QED BY <1>1, <2>2
<1>4. \A i, j \in S : i # j => r[i] # r[j]
  <2> SUFFICES ASSUME NEW i \in S, NEW j \in S, i # j PROVE r[i] # r[j]
    OBVIOUS
  <2>1. r[i] \in Int /\ r[j] \in Int
    BY <1>2, <1>1
  <2>2. ServedBefore(os, i, j) \/ ServedBefore(os, j, i)
    BY ServedIsOrder
  <2>3. r[i] < r[j] \/ r[j] < r[i]
    BY <2>2, EarlierGrows
  <2> QED BY <2>1, <2>3
<1>5. r \in Injection(S, T)
  BY <1>2, <1>4 DEF Injection, IsInjective
<1>6. r \in Surjection(S, T)
  BY <1>1, <1>3, <1>5, FS_Injection
<1>7. \A t \in T : \E i \in S : r[i] = t
  BY <1>6 DEF Surjection
<1>8. ASSUME NEW k \in 1..n PROVE \E i \in S : Cardinality(Earlier(os, S, i)) = k - 1
  <2>1. k - 1 \in T
    BY <1>1
  <2> QED BY <1>7, <2>1
<1> QED BY <1>1, <1>2, <1>8

\* The lines come as they are served, every order of S once.
Enumerates(lines, os, S) ==
  /\ lines \in [1..Cardinality(S) -> S]
  /\ \A i \in S : \E k \in 1..Cardinality(S) : lines[k] = i
  /\ \A k, l \in 1..Cardinality(S) : k < l => ServedBefore(os, lines[k], lines[l])

LEMMA RankedEnumerates ==
  ASSUME NEW os \in Table, NEW S \in SUBSET OrderIds, NEW lines \in [1..Cardinality(S) -> S],
         \A k \in 1..Cardinality(S) : Cardinality(Earlier(os, S, lines[k])) = k - 1
  PROVE  Enumerates(lines, os, S)
<1> DEFINE n == Cardinality(S)
<1>1. n \in Nat
  BY PlacesAreTaken
<1>2. ASSUME NEW i \in S PROVE \E k \in 1..n : lines[k] = i
  <2> DEFINE k == Cardinality(Earlier(os, S, i)) + 1
  <2>1. Cardinality(Earlier(os, S, i)) \in 0..(n - 1)
    BY PlacesAreTaken
  <2>2. k \in 1..n /\ k - 1 = Cardinality(Earlier(os, S, i))
    <3> HIDE DEF n
    <3> QED BY <1>1, <2>1
  <2>3. Cardinality(Earlier(os, S, lines[k])) = Cardinality(Earlier(os, S, i))
    BY <2>2
  <2> HIDE DEF k
  <2>4. lines[k] \in S
    BY <2>2
  <2>5. ~ ServedBefore(os, i, lines[k]) /\ ~ ServedBefore(os, lines[k], i)
    <3>1. ~ (Cardinality(Earlier(os, S, i)) < Cardinality(Earlier(os, S, i)))
      BY <1>1, <2>1
    <3> QED BY <2>3, <2>4, <3>1, EarlierGrows
  <2>6. lines[k] = i
    BY <2>4, <2>5, ServedIsOrder
  <2> QED BY <2>2, <2>6
<1>3. ASSUME NEW k \in 1..n, NEW l \in 1..n, k < l PROVE ServedBefore(os, lines[k], lines[l])
  <2>1. lines[k] \in S /\ lines[l] \in S
    OBVIOUS
  <2>2. Cardinality(Earlier(os, S, lines[k])) = k - 1 /\ Cardinality(Earlier(os, S, lines[l])) = l - 1
    OBVIOUS
  <2>3. ~ ServedBefore(os, lines[l], lines[k])
    <3> SUFFICES ASSUME ServedBefore(os, lines[l], lines[k]) PROVE FALSE
      OBVIOUS
    <3>1. l - 1 < k - 1
      BY <2>1, <2>2, EarlierGrows
    <3> HIDE DEF n
    <3> QED BY <1>1, <1>3, <3>1
  <2>4. lines[k] # lines[l]
    <3>1. k - 1 # l - 1
      BY <1>1, <1>3
    <3> QED BY <2>2, <3>1
  <2> QED BY <2>1, <2>3, <2>4, ServedIsOrder
<1> QED BY <1>2, <1>3 DEF Enumerates

LEMMA ApiEnumerates ==
  ASSUME NEW os \in Table, NEW S \in SUBSET OrderIds
  PROVE  Enumerates(Ordered(ServedBefore, S, os), os, S)
<1> DEFINE lines == Ordered(ServedBefore, S, os)
<1>1. lines = [k \in 1..Cardinality(S) |->
                 CHOOSE i \in S : Cardinality({j \in S : ServedBefore(os, j, i)}) = k - 1]
  BY DEF Ordered
<1> HIDE DEF lines
<1>2. ASSUME NEW k \in 1..Cardinality(S)
      PROVE  lines[k] \in S /\ Cardinality(Earlier(os, S, lines[k])) = k - 1
  <2>1. \E i \in S : Cardinality({j \in S : ServedBefore(os, j, i)}) = k - 1
    BY PlacesAreTaken DEF Earlier
  <2>2. lines[k] = CHOOSE i \in S : Cardinality({j \in S : ServedBefore(os, j, i)}) = k - 1
    BY <1>1
  <2>3. lines[k] \in S /\ Cardinality({j \in S : ServedBefore(os, j, lines[k])}) = k - 1
    BY <2>1, <2>2, Zenon
  <2> QED BY <2>3 DEF Earlier
<1>3. lines \in [1..Cardinality(S) -> S]
  BY <1>1, <1>2
<1>4. Enumerates(lines, os, S)
  BY <1>2, <1>3, RankedEnumerates
<1> QED BY <1>4 DEF lines

LEMMA PageEnumerates ==
  ASSUME NEW os \in Table, NEW S \in SUBSET OrderIds
  PROVE  Enumerates(Ordered(DueKeyBefore, S, os), os, S)
<1> DEFINE lines == Ordered(DueKeyBefore, S, os)
<1>1. lines = [k \in 1..Cardinality(S) |->
                 CHOOSE i \in S : Cardinality({j \in S : DueKeyBefore(os, j, i)}) = k - 1]
  BY DEF Ordered
<1> HIDE DEF lines
<1>2. ASSUME NEW k \in 1..Cardinality(S)
      PROVE  lines[k] \in S /\ Cardinality(Earlier(os, S, lines[k])) = k - 1
  <2>0. \A i : {j \in S : DueKeyBefore(os, j, i)} = Earlier(os, S, i)
    BY SameOrder DEF Earlier
  <2>1. \E i \in S : Cardinality({j \in S : DueKeyBefore(os, j, i)}) = k - 1
    <3>1. PICK i \in S : Cardinality(Earlier(os, S, i)) = k - 1
      BY PlacesAreTaken
    <3>2. Cardinality({j \in S : DueKeyBefore(os, j, i)}) = k - 1
      BY <2>0, <3>1, Zenon
    <3> QED BY <3>2
  <2>2. lines[k] = CHOOSE i \in S : Cardinality({j \in S : DueKeyBefore(os, j, i)}) = k - 1
    BY <1>1
  <2>3. lines[k] \in S /\ Cardinality({j \in S : DueKeyBefore(os, j, lines[k])}) = k - 1
    BY <2>1, <2>2, Zenon
  <2> QED BY <2>0, <2>3
<1>3. lines \in [1..Cardinality(S) -> S]
  BY <1>1, <1>2
<1>4. Enumerates(lines, os, S)
  BY <1>2, <1>3, RankedEnumerates
<1> QED BY <1>4 DEF lines
-----------------------------------------------------------------------------
(* What each line is left.                                                 *)

\* What the orders of S up to i order.
UpTo(os, S, i) == {j \in S : i = j \/ ServedBefore(os, j, i)}
Asked(os, S) == SumFor(S, QuantitiesOf(os))
Lack(available, os, S, i) ==
  Least(os[i].quantite, Floor0(Asked(os, UpTo(os, S, i)) - available))

LEMMA QuantityNat ==
  ASSUME NEW os \in Table, NEW i \in OrderIds
  PROVE  QuantitiesOf(os)[i] = os[i].quantite /\ os[i].quantite \in Nat
<1>1. os[i] \in Order
  BY DEF Table
<1> QED BY <1>1 DEF QuantitiesOf, Order

LEMMA AskedNat ==
  ASSUME NEW os \in Table, NEW S \in SUBSET OrderIds PROVE Asked(os, S) \in Nat
<1>1. \A i \in S : QuantitiesOf(os)[i] \in Nat
  BY QuantityNat
<1> QED BY <1>1, PartIsFinite, SumNat DEF Asked, SumFor

LEMMA OneMoreAsked ==
  ASSUME NEW os \in Table, NEW S \in SUBSET OrderIds, NEW i \in OrderIds, i \notin S
  PROVE  Asked(os, S \cup {i}) = Asked(os, S) + os[i].quantite
<1> DEFINE q == QuantitiesOf(os)
<1>1. \A j \in S \cup {i} : q[j] \in Int
  BY QuantityNat
<1>2. q[i] = os[i].quantite /\ q[i] \in Int
  BY QuantityNat
<1>3. IsFiniteSet(S)
  BY PartIsFinite
<1>4. Asked(os, S \cup {i}) = SumFunctionOnSet(q, S \cup {i}) /\ Asked(os, S) = SumFunctionOnSet(q, S)
  BY DEF Asked, SumFor
<1>5. SumFunctionOnSet(q, S) \in Nat
  BY <1>4, AskedNat
<1> HIDE DEF q
<1>6. SumFunctionOnSet(q, S \cup {i}) = q[i] + SumFunctionOnSet(q, S)
  BY <1>1, <1>3, SumAdd
<1> QED BY <1>2, <1>4, <1>5, <1>6

\* The first k lines.
First(lines, k) == {lines[m] : m \in 1..k}

LEMMA FirstGrows ==
  ASSUME NEW os \in Table, NEW S \in SUBSET OrderIds, NEW lines, Enumerates(lines, os, S),
         NEW k \in 1..Cardinality(S)
  PROVE  /\ First(lines, k) = UpTo(os, S, lines[k])
         /\ First(lines, k - 1) \in SUBSET OrderIds
         /\ First(lines, k) = First(lines, k - 1) \cup {lines[k]}
         /\ lines[k] \notin First(lines, k - 1)
<1> DEFINE n == Cardinality(S)
<1>1. n \in Nat
  BY PlacesAreTaken
<1>2. /\ lines \in [1..n -> S]
      /\ \A i \in S : \E m \in 1..n : lines[m] = i
      /\ \A m, l \in 1..n : m < l => ServedBefore(os, lines[m], lines[l])
  BY DEF Enumerates
<1> HIDE DEF n
<1>3. k \in 1..n
  BY DEF n
<1>4. \A m \in 1..k : m \in 1..n /\ lines[m] \in S /\ (m = k \/ m \in 1..(k - 1))
  BY <1>1, <1>2, <1>3
<1>5. \A m \in 1..(k - 1) : m \in 1..n /\ m \in 1..k /\ m < k
  BY <1>1, <1>3
<1>6. First(lines, k) = First(lines, k - 1) \cup {lines[k]}
  BY <1>3, <1>4, <1>5 DEF First
<1>7. First(lines, k - 1) \in SUBSET OrderIds
  BY <1>4, <1>5 DEF First
<1>8. lines[k] \notin First(lines, k - 1)
  <2> SUFFICES ASSUME NEW m \in 1..(k - 1), lines[m] = lines[k] PROVE FALSE
    BY DEF First
  <2>1. ServedBefore(os, lines[m], lines[k]) /\ lines[k] \in OrderIds
    BY <1>2, <1>3, <1>5
  <2> QED BY <2>1, ServedIsOrder
<1>9. ASSUME NEW i \in First(lines, k) PROVE i \in UpTo(os, S, lines[k])
  <2>1. PICK m \in 1..k : i = lines[m]
    BY DEF First
  <2> QED BY <1>2, <1>3, <1>4, <1>5, <2>1 DEF UpTo
<1>10. ASSUME NEW i \in UpTo(os, S, lines[k]) PROVE i \in First(lines, k)
  <2>1. i \in S /\ (lines[k] = i \/ ServedBefore(os, i, lines[k]))
    BY DEF UpTo
  <2>2. PICK m \in 1..n : lines[m] = i
    BY <1>2, <2>1
  <2>3. ~ (k < m)
    <3> SUFFICES ASSUME k < m PROVE FALSE
      OBVIOUS
    <3>1. ServedBefore(os, lines[k], lines[m]) /\ lines[k] \in OrderIds /\ lines[m] \in OrderIds
      BY <1>2, <1>3
    <3> QED BY <2>1, <2>2, <3>1, ServedIsOrder
  <2>4. m \in 1..k
    BY <1>1, <1>3, <2>2, <2>3
  <2> QED BY <2>2, <2>4 DEF First
<1> QED BY <1>6, <1>7, <1>8, <1>9, <1>10

\* The loop of Lacking.
Loop(g, lines, available, os) ==
  g = [k \in 0..Len(lines) |->
         IF k = 0 THEN available ELSE Floor0(g[k-1] - os[lines[k]].quantite)]

\* What remains after k lines is what the first k orders leave.
LEMMA LoopRuns ==
  ASSUME NEW os \in Table, NEW S \in SUBSET OrderIds, NEW lines, Enumerates(lines, os, S),
         NEW available \in Int
  PROVE  \E g : Loop(g, lines, available, os)
<1> DEFINE n == Cardinality(S)
           left(k) == IF k = 0 THEN available ELSE Floor0(available - Asked(os, First(lines, k)))
           g == [k \in 0..n |-> left(k)]
<1>1. n \in Nat /\ Len(lines) = n
  <2>1. n \in Nat /\ lines \in [1..n -> S]
    BY PlacesAreTaken DEF Enumerates
  <2> HIDE DEF n
  <2> QED BY <2>1
<1>2. ASSUME NEW k \in 1..n PROVE left(k) = Floor0(left(k - 1) - os[lines[k]].quantite)
  <2> DEFINE a == Asked(os, First(lines, k - 1))
             b == Asked(os, First(lines, k))
             q == os[lines[k]].quantite
  <2>1. /\ First(lines, k - 1) \in SUBSET OrderIds
        /\ First(lines, k) = First(lines, k - 1) \cup {lines[k]}
        /\ lines[k] \notin First(lines, k - 1)
    BY FirstGrows
  <2>2. lines[k] \in OrderIds
    BY DEF Enumerates
  <2>3. a \in Nat /\ b = a + q /\ q \in Nat
    BY <2>1, <2>2, AskedNat, OneMoreAsked, QuantityNat
  <2>4. k = 1 => a = 0
    <3>1. k = 1 => First(lines, k - 1) = {}
      BY DEF First
    <3> QED BY <3>1, SumEmpty DEF Asked, SumFor
  <2> DEFINE x == left(k)
             y == left(k - 1)
  <2>5. x = Floor0(available - b) /\ y = IF k = 1 THEN available ELSE Floor0(available - a)
    <3>1. k # 0 /\ (k - 1 = 0 <=> k = 1)
      BY <1>1
    <3> QED BY <3>1
  <2> HIDE DEF a, b, q, x, y
  <2>6. x = Floor0(y - q)
    BY <2>3, <2>4, <2>5 DEF Floor0
  <2> QED BY <2>6 DEF x, y, q
<1> HIDE DEF left
<1>3. ASSUME NEW k \in 0..n
      PROVE  g[k] = IF k = 0 THEN available ELSE Floor0(g[k-1] - os[lines[k]].quantite)
  <2>1. CASE k = 0
    BY <1>1, <2>1 DEF left
  <2>2. CASE k # 0
    <3> HIDE DEF n
    <3>1. k \in 1..n /\ k - 1 \in 0..n
      BY <1>1, <2>2
    <3> QED BY <1>2, <2>2, <3>1 DEF n
  <2> QED BY <2>1, <2>2
<1> DEFINE h == [k \in 0..n |-> IF k = 0 THEN available ELSE Floor0(g[k-1] - os[lines[k]].quantite)]
<1>4. g = h
  <2> HIDE DEF n
  <2> QED BY <1>3 DEF n
<1>5. Loop(g, lines, available, os)
  BY <1>1, <1>4 DEF Loop
<1> HIDE DEF g
<1> QED BY <1>5

LEMMA LoopLeaves ==
  ASSUME NEW os \in Table, NEW S \in SUBSET OrderIds, NEW lines, Enumerates(lines, os, S),
         NEW available \in Int, NEW g, Loop(g, lines, available, os), NEW k \in 0..Cardinality(S)
  PROVE  g[k] \in Int /\ Floor0(g[k]) = Floor0(available - Asked(os, First(lines, k)))
<1> DEFINE n == Cardinality(S)
           Right(m) == g[m] \in Int /\ Floor0(g[m]) = Floor0(available - Asked(os, First(lines, m)))
           C == {m \in 0..n : ~ Right(m)}
<1>1. n \in Nat /\ Len(lines) = n
  <2>1. n \in Nat /\ lines \in [1..n -> S]
    BY PlacesAreTaken DEF Enumerates
  <2> HIDE DEF n
  <2> QED BY <2>1
<1>2. g[0] = available /\ \A m \in 1..n : g[m] = Floor0(g[m-1] - os[lines[m]].quantite)
  <2> HIDE DEF n
  <2>1. g = [m \in 0..n |-> IF m = 0 THEN available ELSE Floor0(g[m-1] - os[lines[m]].quantite)]
    BY <1>1 DEF Loop
  <2>2. 0 \in 0..n /\ \A m \in 1..n : m \in 0..n /\ m # 0
    BY <1>1
  <2>3. \A m \in 0..n : g[m] = IF m = 0 THEN available ELSE Floor0(g[m-1] - os[lines[m]].quantite)
    BY <2>1, Zenon
  <2> QED BY <2>2, <2>3
<1>3. Right(0)
  <2>1. First(lines, 0) = {}
    BY DEF First
  <2>2. Asked(os, First(lines, 0)) = 0
    BY <2>1, SumEmpty DEF Asked, SumFor
  <2> QED BY <1>2, <2>2
<1>4. ASSUME NEW m \in 1..n, Right(m - 1) PROVE Right(m)
  <2> DEFINE a == Asked(os, First(lines, m - 1))
             b == Asked(os, First(lines, m))
             q == os[lines[m]].quantite
             x == g[m - 1]
             y == g[m]
  <2>1. /\ First(lines, m - 1) \in SUBSET OrderIds
        /\ First(lines, m) = First(lines, m - 1) \cup {lines[m]}
        /\ lines[m] \notin First(lines, m - 1)
    BY FirstGrows
  <2>2. lines[m] \in OrderIds
    BY DEF Enumerates
  <2>3. a \in Nat /\ b = a + q /\ q \in Nat
    BY <2>1, <2>2, AskedNat, OneMoreAsked, QuantityNat
  <2>4. x \in Int /\ Floor0(x) = Floor0(available - a)
    BY <1>4
  <2>5. y = Floor0(x - q)
    BY <1>2
  <2> HIDE DEF a, b, q, x, y
  <2>6. y \in Int /\ Floor0(y) = Floor0(available - b)
    BY <2>3, <2>4, <2>5 DEF Floor0
  <2> QED BY <2>6 DEF y, b
<1> HIDE DEF Right, n
<1>5. C = {}
  <2> SUFFICES ASSUME C # {} PROVE FALSE
    OBVIOUS
  <2>1. C \in SUBSET Nat
    BY <1>1
  <2> HIDE DEF C
  <2>2. PICK m \in C : \A l \in C : m <= l
    BY <2>1, LeastElement
  <2>3. m \in 0..n /\ ~ Right(m)
    BY DEF C
  <2>4. m # 0 /\ m \in 1..n /\ m - 1 \in 0..n /\ ~ (m <= m - 1)
    BY <1>1, <1>3, <2>3
  <2>5. Right(m - 1)
    BY <2>2, <2>4 DEF C
  <2> QED BY <1>4, <2>3, <2>4, <2>5
<1>6. Right(k)
  BY <1>5 DEF n
<1> QED BY <1>6 DEF Right
\* Each order lacks what those up to it ask for more than there is, and no more
\* than it asks for.
LEMMA LackingIs ==
  ASSUME NEW os \in Table, NEW S \in SUBSET OrderIds, NEW lines, Enumerates(lines, os, S),
         NEW available \in Int, NEW i \in S
  PROVE  Lacking(lines, available, os)[i] = Lack(available, os, S, i)
<1> DEFINE r == CHOOSE g : Loop(g, lines, available, os)
           n == Cardinality(S)
           m == CHOOSE k \in DOMAIN lines : lines[k] = i
<1>1. Loop(r, lines, available, os)
  BY LoopRuns
<1>2. n \in Nat /\ DOMAIN lines = 1..n /\ i \in OrderIds
  BY PlacesAreTaken DEF Enumerates
<1>3. \E k \in DOMAIN lines : lines[k] = i
  BY <1>2 DEF Enumerates
<1>4. m \in 1..n /\ lines[m] = i
  BY <1>2, <1>3
<1>5. Lacking(lines, available, os)[i]
        = Floor0(os[lines[m]].quantite - Least(Floor0(r[m-1]), os[lines[m]].quantite))
  BY <1>2, <1>3 DEF Lacking, Loop
<1> HIDE DEF r, m
<1> DEFINE a == Asked(os, First(lines, m - 1))
           b == Asked(os, UpTo(os, S, i))
           q == os[i].quantite
           x == Floor0(r[m-1])
<1>6. /\ First(lines, m) = UpTo(os, S, i)
      /\ First(lines, m - 1) \in SUBSET OrderIds
      /\ First(lines, m) = First(lines, m - 1) \cup {i}
      /\ i \notin First(lines, m - 1)
  BY <1>4, FirstGrows
<1>7. a \in Nat /\ q \in Nat /\ b = a + q
  <2>1. Asked(os, First(lines, m)) = b
    BY <1>6
  <2>2. Asked(os, First(lines, m)) = a + q
    BY <1>2, <1>6, OneMoreAsked
  <2> QED BY <1>2, <1>6, <2>1, <2>2, AskedNat, QuantityNat
<1>8. x = Floor0(available - a)
  <2>1. m - 1 \in 0..n
    <3> HIDE DEF n
    <3> QED BY <1>2, <1>4
  <2> QED BY <1>1, <2>1, LoopLeaves
<1>9. Lacking(lines, available, os)[i] = Floor0(q - Least(x, q))
  BY <1>4, <1>5
<1>10. Lack(available, os, S, i) = Least(q, Floor0(b - available))
  BY DEF Lack
<1> HIDE DEF a, b, q, x
<1> QED BY <1>7, <1>8, <1>9, <1>10 DEF Floor0, Least

-----------------------------------------------------------------------------
(* The report and the page.                                                *)

LEMMA Served ==
  ASSUME NEW os
  PROVE  /\ OpenIn(os) \in SUBSET OrderIds /\ VisibleIn(os) \in SUBSET OpenIn(os)
         /\ VisibleIn(os) \in SUBSET OrderIds
BY DEF OpenIn, VisibleIn, ProductionAllocationStatuses, VisibleProductionStatuses

LEMMA ShortfallIs ==
  ASSUME NEW os \in Table, NEW stock \in Int, NEW i \in OrderIds
  PROVE  /\ Shortfall(stock, os, i) = Lack(stock + Asked(os, OpenIn(os)), os, OpenIn(os), i)
         /\ Shortfall(stock, os, i) \in Nat
<1> DEFINE a == Asked(os, UpTo(os, OpenIn(os), i))
           b == Asked(os, OpenIn(os))
           q == os[i].quantite
<1>1. OpenIn(os) \in SUBSET OrderIds /\ UpTo(os, OpenIn(os), i) \in SUBSET OrderIds
  BY Served DEF UpTo
<1>2. a \in Nat /\ b \in Nat /\ q \in Nat
  BY <1>1, AskedNat, QuantityNat
<1>3. Shortfall(stock, os, i) = Least(q, Floor0(a - stock - b))
  BY DEF Shortfall, UpTo, Asked
<1>4. Lack(stock + b, os, OpenIn(os), i) = Least(q, Floor0(a - (stock + b)))
  BY DEF Lack
<1> HIDE DEF a, b, q
<1>5. a - stock - b = a - (stock + b)
  BY <1>2
<1>6. Least(q, Floor0(a - stock - b)) \in Nat
  BY <1>2 DEF Least, Floor0
<1> QED BY <1>3, <1>4, <1>5, <1>6 DEF b

\* What the API sends for a visible order is what it lacks.
LEMMA AllocationIs ==
  ASSUME NEW os \in Table, NEW stock \in Int, NEW i \in VisibleIn(os)
  PROVE  AllocateProductionQuantities(stock, os)[i] = Shortfall(stock, os, i)
<1> DEFINE S == OpenIn(os)
           lines == Ordered(ServedBefore, S, os)
           available == stock + Asked(os, S)
<1>1. S \in SUBSET OrderIds /\ i \in S /\ i \in OrderIds
  BY Served
<1>2. Enumerates(lines, os, S)
  BY <1>1, ApiEnumerates
<1>3. available \in Int
  BY <1>1, AskedNat
<1>4. AllocateProductionQuantities(stock, os)[i] = Lacking(lines, available, os)[i]
  BY <1>1 DEF AllocateProductionQuantities, Asked
<1> HIDE DEF S, lines, available
<1>5. Lacking(lines, available, os)[i] = Lack(available, os, S, i)
  BY <1>1, <1>2, <1>3, LackingIs
<1>6. Shortfall(stock, os, i) = Lack(available, os, S, i)
  BY <1>1, ShortfallIs DEF S, available
<1> QED BY <1>4, <1>5, <1>6

\* What the page computes for an order is what it lacks of what the page knows.
LEMMA FallbackIs ==
  ASSUME NEW os \in Table, NEW stock \in Int, NEW i \in OpenIn(os)
  PROVE  Lacking(Ordered(DueKeyBefore, OpenIn(os), os),
                 stock + SumFor(OpenIn(os), QuantitiesOf(os)), os)[i] = Shortfall(stock, os, i)
<1> DEFINE S == OpenIn(os)
           lines == Ordered(DueKeyBefore, S, os)
           available == stock + Asked(os, S)
<1>1. S \in SUBSET OrderIds /\ i \in S /\ i \in OrderIds
  BY Served
<1>2. Enumerates(lines, os, S)
  BY <1>1, PageEnumerates
<1>3. available \in Int
  BY <1>1, AskedNat
<1>4. available = stock + SumFor(OpenIn(os), QuantitiesOf(os))
  BY DEF Asked
<1> HIDE DEF S, lines, available
<1>5. Lacking(lines, available, os)[i] = Lack(available, os, S, i)
  BY <1>1, <1>2, <1>3, LackingIs
<1>6. Shortfall(stock, os, i) = Lack(available, os, S, i)
  BY <1>1, ShortfallIs DEF S, available
<1> QED BY <1>4, <1>5, <1>6 DEF lines, S

-----------------------------------------------------------------------------
(* The page is not sent the orders that wait for their payment.            *)

LEMMA ListedIs ==
  ASSUME NEW os \in Table
  PROVE  /\ Listed(os) \in Table
         /\ OpenIn(Listed(os)) = VisibleIn(os) /\ VisibleIn(Listed(os)) = VisibleIn(os)
         /\ \A i \in VisibleIn(os) : Listed(os)[i] = os[i]
<1>1. NoOrderYet \in Order
  BY DEF NoOrderYet, Order
<1>2. \A i \in OrderIds : os[i] \in Order
  BY DEF Table
<1>3. Listed(os) \in Table
  BY <1>1, <1>2 DEF Listed, Table
<1>4. \A i \in OrderIds : Listed(os)[i] = IF os[i].statut \in {"absent", "paiement_en_attente"}
                                          THEN NoOrderYet ELSE os[i]
  BY DEF Listed
<1>5. \A i \in OrderIds : /\ i \in VisibleIn(os) <=> os[i].statut \in VisibleProductionStatuses
                          /\ i \in VisibleIn(Listed(os)) <=> Listed(os)[i].statut \in VisibleProductionStatuses
                          /\ i \in OpenIn(Listed(os)) <=> Listed(os)[i].statut \in ProductionAllocationStatuses
  BY DEF VisibleIn, OpenIn
<1>6. ASSUME NEW i \in OrderIds
      PROVE  /\ i \in VisibleIn(Listed(os)) <=> i \in VisibleIn(os)
             /\ i \in OpenIn(Listed(os)) <=> i \in VisibleIn(os)
             /\ i \in VisibleIn(os) => Listed(os)[i] = os[i]
  <2>1. CASE os[i].statut \in {"absent", "paiement_en_attente"}
    BY <1>4, <1>5, <2>1
       DEF NoOrderYet, VisibleProductionStatuses, ProductionAllocationStatuses
  <2>2. CASE os[i].statut \notin {"absent", "paiement_en_attente"}
    BY <1>4, <1>5, <2>2 DEF VisibleProductionStatuses, ProductionAllocationStatuses
  <2> QED BY <2>1, <2>2
<1> QED BY <1>3, <1>6, Served

\* What is asked for after an order.
After(os, S, i) == S \ UpTo(os, S, i)

LEMMA AskedSplits ==
  ASSUME NEW os \in Table, NEW S \in SUBSET OrderIds, NEW i \in OrderIds
  PROVE  /\ Asked(os, UpTo(os, S, i)) \in Nat /\ Asked(os, After(os, S, i)) \in Nat
         /\ Asked(os, S) = Asked(os, UpTo(os, S, i)) + Asked(os, After(os, S, i))
<1> DEFINE U == UpTo(os, S, i)
           A == After(os, S, i)
           q == QuantitiesOf(os)
<1>1. U \in SUBSET OrderIds /\ A \in SUBSET OrderIds /\ U \cup A = S /\ U \cap A = {}
  BY DEF UpTo, After
<1>2. \A j \in OrderIds : q[j] \in Int
  BY QuantityNat
<1> HIDE DEF U, A, q
<1>3. IsFiniteSet(U) /\ IsFiniteSet(A)
  BY <1>1, PartIsFinite
<1>4. SumFunctionOnSet(q, U \cup A) = SumFunctionOnSet(q, U) + SumFunctionOnSet(q, A)
  <2>1. \A j \in U \cup A : q[j] \in Int
    BY <1>1, <1>2
  <2> QED BY <1>1, <1>3, <2>1, SumUnion
<1>5. Asked(os, S) = Asked(os, U) + Asked(os, A)
  BY <1>1, <1>4 DEF Asked, SumFor, q
<1> QED BY <1>1, <1>5, AskedNat DEF U, A

\* Who orders after an order in sight, in the list of the page or in the whole.
LEMMA PageShowsNoLess ==
  ASSUME NEW os \in Table, NEW stock \in Int, NEW i \in VisibleIn(os)
  PROVE  /\ Shortfall(stock, os, i) <= Shortfall(stock, Listed(os), i)
         /\ OpenIn(os) = VisibleIn(os) => Shortfall(stock, os, i) = Shortfall(stock, Listed(os), i)
<1> DEFINE ls == Listed(os)
           O == OpenIn(os)
           V == VisibleIn(os)
           after == Asked(os, After(os, O, i))
           seen == Asked(ls, After(ls, V, i))
           q == os[i].quantite
<1>1. /\ ls \in Table /\ OpenIn(ls) = V /\ \A j \in V : ls[j] = os[j]
      /\ O \in SUBSET OrderIds /\ V \in SUBSET O /\ V \in SUBSET OrderIds /\ i \in OrderIds /\ i \in V
  BY ListedIs, Served
<1>2. ls[i].quantite = q /\ q \in Nat
  BY <1>1, QuantityNat
<1> HIDE DEF ls, O, V
<1>3. After(ls, V, i) = After(os, V, i) /\ After(os, V, i) \in SUBSET After(os, O, i)
      /\ After(os, O, i) \in SUBSET OrderIds
  BY <1>1 DEF After, UpTo, ServedBefore
<1>4. seen = Asked(os, After(os, V, i))
  <2> DEFINE A == After(os, V, i)
  <2>1. \A j \in A : QuantitiesOf(ls)[j] = QuantitiesOf(os)[j]
    BY <1>1 DEF QuantitiesOf, After
  <2>2. IsFiniteSet(A)
    BY <1>1, PartIsFinite DEF After
  <2>3. seen = SumFunctionOnSet(QuantitiesOf(ls), A)
    BY <1>3 DEF Asked, SumFor
  <2> HIDE DEF A, seen
  <2>4. SumFunctionOnSet(QuantitiesOf(ls), A) = SumFunctionOnSet(QuantitiesOf(os), A)
    BY <2>1, <2>2, SumEqual
  <2> QED BY <2>3, <2>4 DEF A, Asked, SumFor
<1>5. seen <= after
  <2>1. \A j \in After(os, O, i) : QuantitiesOf(os)[j] \in Nat
    BY <1>3, QuantityNat
  <2>2. IsFiniteSet(After(os, O, i))
    BY <1>3, PartIsFinite
  <2>3. Asked(os, After(os, V, i)) <= Asked(os, After(os, O, i))
    BY <1>3, <2>1, <2>2, SumSubset DEF Asked, SumFor
  <2> QED BY <1>4, <2>3
<1>6. O = V => seen = after
  BY <1>4
<1>7. Shortfall(stock, os, i) = Least(q, Floor0(0 - stock - after)) /\ after \in Nat
  <2> DEFINE u == Asked(os, UpTo(os, O, i))
             b == Asked(os, O)
  <2>1. u \in Nat /\ after \in Nat /\ b = u + after
    BY <1>1, AskedSplits
  <2>2. Shortfall(stock, os, i) = Least(q, Floor0(u - stock - b))
    BY DEF Shortfall, UpTo, Asked, O
  <2> HIDE DEF u, b, after
  <2>3. u - stock - b = 0 - stock - after
    BY <2>1
  <2> QED BY <2>1, <2>2, <2>3
<1>8. Shortfall(stock, ls, i) = Least(q, Floor0(0 - stock - seen)) /\ seen \in Nat
  <2> DEFINE u == Asked(ls, UpTo(ls, V, i))
             b == Asked(ls, V)
  <2>1. u \in Nat /\ seen \in Nat /\ b = u + seen
    BY <1>1, AskedSplits
  <2>2. Shortfall(stock, ls, i) = Least(q, Floor0(u - stock - b))
    BY <1>1, <1>2 DEF Shortfall, UpTo, Asked
  <2> HIDE DEF u, b, seen
  <2>3. u - stock - b = 0 - stock - seen
    BY <2>1
  <2> QED BY <2>1, <2>2, <2>3
<1> HIDE DEF after, seen, q
<1>9. Least(q, Floor0(0 - stock - after)) <= Least(q, Floor0(0 - stock - seen))
  BY <1>2, <1>5, <1>7, <1>8 DEF Least, Floor0
<1> QED BY <1>6, <1>7, <1>8, <1>9 DEF ls, O, V

-----------------------------------------------------------------------------
(* The days.                                                               *)

\* The visible orders of a day.
OfDay(os, d) == {i \in VisibleIn(os) : os[i].due = d}

LEMMA DayOfNeeds ==
  ASSUME NEW os \in Table, NEW stock \in Int, NEW d \in DueDays \cup {NoDue}
  PROVE  LET needed == ExplicitNeeds(Listed(os), AllocateProductionQuantities(stock, os))
             fallback == FallbackNeeds(stock, Listed(os))
         IN  /\ needed[d] = SumFor(OfDay(os, d), [i \in OrderIds |-> Shortfall(stock, os, i)])
             /\ needed[d] <= fallback[d]
             /\ OpenIn(os) = VisibleIn(os) => needed[d] = fallback[d]
<1> DEFINE ls == Listed(os)
           D == OfDay(os, d)
           sent == AllocateProductionQuantities(stock, os)
           own == Lacking(Ordered(DueKeyBefore, OpenIn(ls), ls),
                          stock + SumFor(OpenIn(ls), QuantitiesOf(ls)), ls)
           due == [i \in OrderIds |-> Shortfall(stock, os, i)]
           needed == ExplicitNeeds(ls, sent)
           fallback == FallbackNeeds(stock, ls)
<1>1. /\ D \in SUBSET OrderIds /\ \A i \in D : i \in VisibleIn(os)
      /\ IsFiniteSet(D)
  BY Served, PartIsFinite DEF OfDay
<1>2. {i \in VisibleIn(ls) : ls[i].due = d} = D
  BY ListedIs DEF OfDay
<1>3. needed[d] = SumFunctionOnSet(sent, D)
  BY <1>2 DEF ExplicitNeeds, SumFor
<1>4. fallback[d] = SumFunctionOnSet(own, D)
  BY <1>2 DEF FallbackNeeds, ExplicitNeeds, SumFor
<1>5. \A i \in D : sent[i] = Shortfall(stock, os, i) /\ due[i] = Shortfall(stock, os, i)
  BY <1>1, AllocationIs
<1>6. \A i \in D : own[i] = Shortfall(stock, ls, i)
  BY <1>1, ListedIs, FallbackIs
<1>7. ASSUME NEW i \in D PROVE sent[i] \in Int /\ own[i] \in Int
  <2>1. Shortfall(stock, os, i) \in Nat /\ Shortfall(stock, ls, i) \in Nat
    <3>1. i \in OrderIds /\ ls \in Table
      BY <1>1, ListedIs
    <3> HIDE DEF ls
    <3> QED BY <3>1, ShortfallIs
  <2>2. sent[i] = Shortfall(stock, os, i) /\ own[i] = Shortfall(stock, ls, i)
    BY <1>5, <1>6
  <2> HIDE DEF sent, own, ls
  <2> QED BY <2>1, <2>2
<1>8. \A i \in D : /\ sent[i] <= own[i]
                   /\ OpenIn(os) = VisibleIn(os) => sent[i] = own[i]
  <2>1. \A i \in D : /\ Shortfall(stock, os, i) <= Shortfall(stock, ls, i)
                     /\ OpenIn(os) = VisibleIn(os) => Shortfall(stock, os, i) = Shortfall(stock, ls, i)
    BY <1>1, PageShowsNoLess
  <2> HIDE DEF D, sent, own, ls
  <2> QED BY <1>5, <1>6, <2>1
<1> HIDE DEF ls, D, sent, own, due, needed, fallback
<1>9. SumFunctionOnSet(sent, D) = SumFunctionOnSet(due, D)
  BY <1>1, <1>5, SumEqual
<1>10. SumFunctionOnSet(sent, D) <= SumFunctionOnSet(own, D)
  BY <1>1, <1>7, <1>8, SumMonotonic
<1>11. ASSUME OpenIn(os) = VisibleIn(os) PROVE SumFunctionOnSet(sent, D) = SumFunctionOnSet(own, D)
  BY <1>1, <1>8, <1>11, SumEqual
<1>12. /\ needed[d] = SumFor(D, due)
       /\ needed[d] <= fallback[d]
       /\ OpenIn(os) = VisibleIn(os) => needed[d] = fallback[d]
  BY <1>3, <1>4, <1>9, <1>10, <1>11 DEF SumFor
<1> QED BY <1>12 DEF needed, fallback, ls, sent, due, D

-----------------------------------------------------------------------------
(* The orders and the stock, at every moment.                              *)

\* Every order has a state, a day and a quantity; the stock may be below zero.
NeedsInv == commandes \in Table /\ stockLeft \in Int

LEMMA NeedsInvHolds == NeedsSpec => []NeedsInv
<1>1. NeedsInit => NeedsInv
  BY DEF NeedsInit, NeedsInv, Table, Order, NoOrderYet
<1>2. NeedsInv /\ [NeedsNext]_needsVars => NeedsInv'
  <2> SUFFICES ASSUME NeedsInv, [NeedsNext]_needsVars PROVE NeedsInv'
    OBVIOUS
  <2> USE DEF NeedsInv, Table
  <2>1. CASE UNCHANGED needsVars
    BY <2>1 DEF needsVars
  <2>2. CASE StockMoves
    BY <2>2 DEF StockMoves
  <2>3. ASSUME NEW i \in OrderIds, PlaceOrder(i) PROVE NeedsInv'
    <3>1. PICK q \in 1..MaxLine, d \in DueDays \cup {NoDue} :
            /\ commandes' = [commandes EXCEPT ![i] =
                               [statut |-> "paiement_en_attente", due |-> d, quantite |-> q]]
            /\ stockLeft' = stockLeft - q
      BY <2>3 DEF PlaceOrder
    <3>2. q \in Nat
      BY NeedsAssumption
    <3>3. [statut |-> "paiement_en_attente", due |-> d, quantite |-> q] \in Order
      BY <3>2 DEF Order, OrderStatuses
    <3> QED BY <3>1, <3>2, <3>3
  <2>4. ASSUME NEW i \in OrderIds, NEW s \in OrderStatuses, ChangeStatus(i, s) PROVE NeedsInv'
    <3>1. [commandes[i] EXCEPT !.statut = s] \in Order /\ commandes[i].quantite \in Int
      BY DEF Order
    <3>2. commandes' = [commandes EXCEPT ![i] = [commandes[i] EXCEPT !.statut = s]]
      BY <2>4 DEF ChangeStatus
    <3>3. stockLeft' \in Int
      BY <2>4, <3>1 DEF ChangeStatus
    <3> QED BY <3>1, <3>2, <3>3
  <2> QED BY <2>1, <2>2, <2>3, <2>4 DEF NeedsNext
<1> QED BY <1>1, <1>2, PTL DEF NeedsSpec

\* What the back office shows to produce is what the orders lack, for every
\* number of orders, every choice of days and every stock
\* (computeProductionNeeds, getProductionNeeds).
THEOREM NeedsAreRight == NeedsSpec => []NeedsAreTheShortfall
<1>1. NeedsInv => NeedsAreTheShortfall
  BY DayOfNeeds DEF NeedsInv, NeedsAreTheShortfall, OfDay
<1> QED BY <1>1, NeedsInvHolds, PTL

-----------------------------------------------------------------------------
(***************************************************************************)
(* BackOffice: the tables page by page, then the clicks.                   *)
(***************************************************************************)

\* Everybody whom a page offers a call to may make it, and it exists.
Honoured(page) ==
  \A offer \in page.offers :
    /\ Known(offer[2])
    /\ \A r \in Roles : Allowed(r, offer[1]) => GuardPasses(r, offer[2])

\* Everybody whom a link is shown to may see the page it leads to.
Opens(links) ==
  \A link \in links :
    /\ link[2] \in DOMAIN Pages
    /\ \A r \in Roles : Allowed(r, link[1]) => Allowed(r, Pages[link[2]].needs)

LEMMA Calls == \A p \in DOMAIN Pages : Honoured(Pages[p])
<1> USE DEF Honoured, By, Known, Allowed, GuardPasses, Can, HasRole, Viewers, Roles, Api, For, Get, Post, Patch, Delete
<1>1. Honoured(HomePage)
  BY DEF HomePage, GetArticles, GetMatieres, GetCommandes, GetCaisseToday,
         GetStockLots, AnalyticsDashboard, ArticleRoutes, MaterialRoutes,
         MovementRoutes, OrderRoutes, TillRoutes, AnalyticsRoutes
<1>2. Honoured(CommandesPage)
  BY DEF CommandesPage, GetCommandes, OrderRoutes
<1>3. Honoured(CommandePage)
  BY DEF CommandePage, GetCommande, GetCommandeRefunds, RefundsPanel, OrderRoutes
<1>4. Honoured(PreparationPage)
  BY DEF PreparationPage, GetCommandes, OrderRoutes
<1>5. Honoured(ArticlesPage)
  BY DEF ArticlesPage, GetArticles, GetArticleCategories, ArticleRoutes,
         CategoryRoutes
<1>6. Honoured(ArticlePage)
  BY DEF ArticlePage, GetArticle, GetNomenclature, GetCapacity, DeleteArticleButton,
         ProduceArticleForm, ArticleRoutes, RecipeRoutes
<1>7. Honoured(NewArticlePage)
  BY DEF NewArticlePage, GetArticleCategories, NewArticleForm, ArticleRoutes,
         CategoryRoutes
<1>8. Honoured(EditArticlePage)
  BY DEF EditArticlePage, GetArticle, GetArticleCategories, EditArticleForm,
         PriceUpdate, ArticleRoutes, PriceRoutes, CategoryRoutes
<1>9. Honoured(RecipePage)
  BY DEF RecipePage, GetArticle, GetMatieres, GetNomenclature, NomenclatureForm,
         ArticleRoutes, RecipeRoutes, MaterialRoutes
<1>10. Honoured(CategoriesPage)
  BY DEF CategoriesPage, GetArticleCategories, CategoryWrites, CategoryRoutes
<1>11. Honoured(StockPage)
  BY DEF StockPage, GetArticles, GetMatieres, GetMouvementsStock, GetStockLots,
         ProduceLotForm, ReceptionForm, AdjustStockForm, MarkLotAsLoss, ArticleRoutes,
         MaterialRoutes, MovementRoutes
<1>12. Honoured(MatieresPage)
  BY DEF MatieresPage, GetMatieres, MaterialRoutes
<1>13. Honoured(MatierePage)
  BY DEF MatierePage, GetMatiere, DeleteMatiereButton, MaterialRoutes
<1>14. Honoured(NewMatierePage)
  BY DEF NewMatierePage, NewMatiereForm, MaterialRoutes
<1>15. Honoured(EditMatierePage)
  BY DEF EditMatierePage, GetMatiere, EditMatiereForm, MaterialRoutes
<1>16. Honoured(CaissePage)
  BY DEF CaissePage, GetVentes, GetCaisseToday, CloseCaisseButton, SaleRoutes,
         TillRoutes
<1>17. Honoured(JourneesPage)
  BY DEF JourneesPage, GetJourneesCaisse, TillRoutes
<1>18. Honoured(VentesPage)
  BY DEF VentesPage, GetVentes, SaleRoutes
<1>19. Honoured(NewVentePage)
  BY DEF NewVentePage, GetArticles, NewVenteForm, ArticleRoutes, SaleRoutes
<1>20. Honoured(PickupPointsPage)
  BY DEF PickupPointsPage, GetPickupPoints, PickupPointWrites, PickupPointRoutes
<1>21. Honoured(ReconciliationsPage)
  BY DEF ReconciliationsPage, GetReconciliations, ReconciliationRoutes
<1>22. Honoured(ReconciliationPage)
  BY DEF ReconciliationPage, GetReconciliation, ReconciliationWrites,
         ReconciliationRoutes
<1>23. Honoured(UsersPage)
  BY DEF UsersPage, CreateEmployeeForm, UserRoleSelect, DeleteUser, AccountRoutes
<1>24. Honoured(ForbiddenPage)
  BY DEF ForbiddenPage
<1> HIDE DEF Honoured
<1> QED BY <1>1, <1>2, <1>3, <1>4, <1>5, <1>6, <1>7, <1>8, <1>9, <1>10, <1>11, <1>12, <1>13, <1>14, <1>15, <1>16, <1>17, <1>18, <1>19, <1>20, <1>21, <1>22, <1>23, <1>24 DEF Pages

LEMMA Links == Opens(NavLinks) /\ \A p \in DOMAIN Pages : Opens(Pages[p].links)
<1> USE DEF Opens, By, Allowed, Can, HasRole, Viewers, Roles
<1> DEFINE needs == [p \in DOMAIN Pages |-> Pages[p].needs]
<1>1. /\ DOMAIN Pages = {"home", "commandes", "commande", "preparation", "articles", "article", "newArticle", "editArticle", "recipe", "categories", "stock", "matieres", "matiere", "newMatiere", "editMatiere", "caisse", "journees", "ventes", "newVente", "pickupPoints", "reconciliations", "reconciliation", "users", "forbidden"}
      /\ Pages["home"].needs = "accessBackOffice"
      /\ Pages["commandes"].needs = "viewOrders"
      /\ Pages["commande"].needs = "viewOrders"
      /\ Pages["preparation"].needs = "viewOrders"
      /\ Pages["articles"].needs = "viewArticles"
      /\ Pages["article"].needs = "viewArticles"
      /\ Pages["newArticle"].needs = "manageArticles"
      /\ Pages["editArticle"].needs = "manageArticles"
      /\ Pages["recipe"].needs = "manageArticleProduction"
      /\ Pages["categories"].needs = "viewArticleCategories"
      /\ Pages["stock"].needs = "viewStock"
      /\ Pages["matieres"].needs = "viewStock"
      /\ Pages["matiere"].needs = "viewStock"
      /\ Pages["newMatiere"].needs = "manageStock"
      /\ Pages["editMatiere"].needs = "manageStock"
      /\ Pages["caisse"].needs = "viewCashRegister"
      /\ Pages["journees"].needs = "viewCashRegisterHistory"
      /\ Pages["ventes"].needs = "viewCashRegister"
      /\ Pages["newVente"].needs = "createSales"
      /\ Pages["pickupPoints"].needs = "viewPickupPoints"
      /\ Pages["reconciliations"].needs = "accessAdmin"
      /\ Pages["reconciliation"].needs = "accessAdmin"
      /\ Pages["users"].needs = "viewUsers"
      /\ Pages["forbidden"].needs = "accessBackOffice"
  BY DEF Pages, HomePage, CommandesPage, CommandePage, PreparationPage, ArticlesPage, ArticlePage, NewArticlePage, EditArticlePage, RecipePage, CategoriesPage, StockPage, MatieresPage, MatierePage, NewMatierePage, EditMatierePage, CaissePage, JourneesPage, VentesPage, NewVentePage, PickupPointsPage, ReconciliationsPage, ReconciliationPage, UsersPage, ForbiddenPage
<1>2. Opens(NavLinks)
  BY <1>1 DEF NavLinks
<1>3. Opens(Pages["home"].links)
  <2>1. Pages["home"].links = HomePage.links
    BY DEF Pages
  <2> QED BY <1>1, <2>1 DEF HomePage
<1>4. Opens(Pages["commandes"].links)
  <2>1. Pages["commandes"].links = CommandesPage.links
    BY DEF Pages
  <2> QED BY <1>1, <2>1 DEF CommandesPage
<1>5. Opens(Pages["commande"].links)
  <2>1. Pages["commande"].links = CommandePage.links
    BY DEF Pages
  <2> QED BY <1>1, <2>1 DEF CommandePage
<1>6. Opens(Pages["preparation"].links)
  <2>1. Pages["preparation"].links = PreparationPage.links
    BY DEF Pages
  <2> QED BY <1>1, <2>1 DEF PreparationPage
<1>7. Opens(Pages["articles"].links)
  <2>1. Pages["articles"].links = ArticlesPage.links
    BY DEF Pages
  <2> QED BY <1>1, <2>1 DEF ArticlesPage
<1>8. Opens(Pages["article"].links)
  <2>1. Pages["article"].links = ArticlePage.links
    BY DEF Pages
  <2> QED BY <1>1, <2>1 DEF ArticlePage
<1>9. Opens(Pages["newArticle"].links)
  <2>1. Pages["newArticle"].links = NewArticlePage.links
    BY DEF Pages
  <2> QED BY <1>1, <2>1 DEF NewArticlePage
<1>10. Opens(Pages["editArticle"].links)
  <2>1. Pages["editArticle"].links = EditArticlePage.links
    BY DEF Pages
  <2> QED BY <1>1, <2>1 DEF EditArticlePage
<1>11. Opens(Pages["recipe"].links)
  <2>1. Pages["recipe"].links = RecipePage.links
    BY DEF Pages
  <2> QED BY <1>1, <2>1 DEF RecipePage
<1>12. Opens(Pages["categories"].links)
  <2>1. Pages["categories"].links = CategoriesPage.links
    BY DEF Pages
  <2> QED BY <1>1, <2>1 DEF CategoriesPage
<1>13. Opens(Pages["stock"].links)
  <2>1. Pages["stock"].links = StockPage.links
    BY DEF Pages
  <2> QED BY <1>1, <2>1 DEF StockPage
<1>14. Opens(Pages["matieres"].links)
  <2>1. Pages["matieres"].links = MatieresPage.links
    BY DEF Pages
  <2> QED BY <1>1, <2>1 DEF MatieresPage
<1>15. Opens(Pages["matiere"].links)
  <2>1. Pages["matiere"].links = MatierePage.links
    BY DEF Pages
  <2> QED BY <1>1, <2>1 DEF MatierePage
<1>16. Opens(Pages["newMatiere"].links)
  <2>1. Pages["newMatiere"].links = NewMatierePage.links
    BY DEF Pages
  <2> QED BY <1>1, <2>1 DEF NewMatierePage
<1>17. Opens(Pages["editMatiere"].links)
  <2>1. Pages["editMatiere"].links = EditMatierePage.links
    BY DEF Pages
  <2> QED BY <1>1, <2>1 DEF EditMatierePage
<1>18. Opens(Pages["caisse"].links)
  <2>1. Pages["caisse"].links = CaissePage.links
    BY DEF Pages
  <2> QED BY <1>1, <2>1 DEF CaissePage
<1>19. Opens(Pages["journees"].links)
  <2>1. Pages["journees"].links = JourneesPage.links
    BY DEF Pages
  <2> QED BY <1>1, <2>1 DEF JourneesPage
<1>20. Opens(Pages["ventes"].links)
  <2>1. Pages["ventes"].links = VentesPage.links
    BY DEF Pages
  <2> QED BY <1>1, <2>1 DEF VentesPage
<1>21. Opens(Pages["newVente"].links)
  <2>1. Pages["newVente"].links = NewVentePage.links
    BY DEF Pages
  <2> QED BY <1>1, <2>1 DEF NewVentePage
<1>22. Opens(Pages["pickupPoints"].links)
  <2>1. Pages["pickupPoints"].links = PickupPointsPage.links
    BY DEF Pages
  <2> QED BY <1>1, <2>1 DEF PickupPointsPage
<1>23. Opens(Pages["reconciliations"].links)
  <2>1. Pages["reconciliations"].links = ReconciliationsPage.links
    BY DEF Pages
  <2> QED BY <1>1, <2>1 DEF ReconciliationsPage
<1>24. Opens(Pages["reconciliation"].links)
  <2>1. Pages["reconciliation"].links = ReconciliationPage.links
    BY DEF Pages
  <2> QED BY <1>1, <2>1 DEF ReconciliationPage
<1>25. Opens(Pages["users"].links)
  <2>1. Pages["users"].links = UsersPage.links
    BY DEF Pages
  <2> QED BY <1>1, <2>1 DEF UsersPage
<1>26. Opens(Pages["forbidden"].links)
  <2>1. Pages["forbidden"].links = ForbiddenPage.links
    BY DEF Pages
  <2> QED BY <1>1, <2>1 DEF ForbiddenPage
<1> HIDE DEF Opens
<1> QED BY <1>1, <1>2, <1>3, <1>4, <1>5, <1>6, <1>7, <1>8, <1>9, <1>10, <1>11, <1>12, <1>13, <1>14, <1>15, <1>16, <1>17, <1>18, <1>19, <1>20, <1>21, <1>22, <1>23, <1>24, <1>25, <1>26

LEMMA StatusClicks ==
  \A r \in Roles : Allowed(r, "manageOrders") => GuardPasses(r, StatusAction)
BY DEF Roles, Allowed, Can, HasRole, GuardPasses, StatusAction, Patch, Api, OrderRoutes, For

\* A button an order shows for its status is accepted in that status, but for one.
LEMMA StatusButtons ==
  ASSUME NEW s \in OrderStatuses, NEW page \in OrderPages, NEW to \in ButtonsOf(page, s)
  PROVE  CanTransition(s, to) \/ (s = "nouvelle" /\ page \in {"commandes", "commande"})
<1> USE DEF ButtonsOf, OrderPages, CanTransition, Transitions, OrderStatuses
<1>1. CASE page = "preparation"
  BY <1>1 DEF PreparationActions
<1>2. CASE page # "preparation"
  BY <1>2 DEF StatusActions
<1> QED BY <1>1, <1>2

\* The employee, the order and the page on display are known.
OfficeTypeOK ==
  /\ role \in Roles /\ statut \in OrderStatuses
  /\ shown \in [page : DOMAIN Pages, role : Roles, statut : OrderStatuses \cup {"none"}]
  /\ shown.page \in OrderPages => shown.statut \in OrderStatuses

OfficeInv == OfficeTypeOK /\ OffersAreHonoured

LEMMA RenderedIs ==
  ASSUME NEW p \in DOMAIN Pages, role \in Roles, statut \in OrderStatuses
  PROVE  /\ Rendered(p) \in [page : DOMAIN Pages, role : Roles, statut : OrderStatuses \cup {"none"}]
         /\ Rendered(p).page \in OrderPages => Rendered(p).statut \in OrderStatuses
         /\ Allowed(role, Pages[p].needs) => Rendered(p).page = p
<1>1. "forbidden" \in DOMAIN Pages
  BY DEF Pages
<1> QED BY <1>1 DEF Rendered

LEMMA OfficeInitInv == OfficeInit => OfficeInv
<1> SUFFICES ASSUME OfficeInit PROVE OfficeInv
  OBVIOUS
<1>1. role \in Roles /\ statut \in OrderStatuses /\ "home" \in DOMAIN Pages
  BY DEF OfficeInit, OrderStatuses, Pages
<1>2. OfficeTypeOK
  BY <1>1, RenderedIs DEF OfficeInit, OfficeTypeOK
<1>3. OffersAreHonoured
  BY DEF OfficeInit, NoAnswer, OffersAreHonoured
<1> QED BY <1>2, <1>3 DEF OfficeInv

LEMMA OfficeStep == OfficeInv /\ [OfficeNext]_officeVars => OfficeInv'
<1> SUFFICES ASSUME OfficeInv, [OfficeNext]_officeVars PROVE OfficeInv'
  OBVIOUS
<1> USE DEF OfficeInv, OfficeTypeOK
<1>0. answer' = NoAnswer => OffersAreHonoured'
  BY DEF NoAnswer, OffersAreHonoured
<1>1. CASE ChangeRole
  BY <1>0, <1>1 DEF ChangeRole
<1>2. CASE OrderMoves
  BY <1>0, <1>2 DEF OrderMoves
<1>3. ASSUME NEW p \in DOMAIN Pages, OpenPage(p) PROVE OfficeInv'
  BY <1>0, <1>3, RenderedIs DEF OpenPage
<1>4. ASSUME NEW p \in DOMAIN Pages, NEW offer \in Pages[p].offers, UseOffer(offer)
      PROVE  OfficeInv'
  <2>1. UNCHANGED <<role, statut, shown>>
    BY <1>4 DEF UseOffer
  <2>2. Known(offer[2]) /\ GuardPasses(shown.role, offer[2])
    BY <1>4, Calls DEF UseOffer, Honoured
  <2>3. answer' = NoAnswer \/ (role # shown.role /\ answer' = [outcome |-> "forbidden", from |-> shown])
    BY <1>4, <2>2 DEF UseOffer, Done, Refused
  <2> QED BY <1>0, <2>1, <2>3 DEF OffersAreHonoured
<1>5. ASSUME NEW p \in DOMAIN Pages, NEW link \in Pages[p].links \cup NavLinks, FollowLink(link)
      PROVE  OfficeInv'
  <2>1. /\ link[2] \in DOMAIN Pages
        /\ Allowed(shown.role, link[1]) => Allowed(shown.role, Pages[link[2]].needs)
    BY <1>5, Links DEF Opens
  <2>2. UNCHANGED <<role, statut>> /\ shown' = Rendered(link[2]) /\ Allowed(shown.role, link[1])
    BY <1>5 DEF FollowLink
  <2>3. OfficeTypeOK'
    BY <2>1, <2>2, RenderedIs
  <2>4. role = shown.role => shown'.page = link[2]
    BY <2>1, <2>2, RenderedIs
  <2>5. answer' = NoAnswer \/ (role # shown.role /\ answer' = [outcome |-> "redirected", from |-> shown])
    BY <1>5, <2>4 DEF FollowLink, Done, Refused
  <2>6. OffersAreHonoured'
    BY <1>0, <2>2, <2>5 DEF OffersAreHonoured
  <2> QED BY <2>3, <2>6
<1>6. ASSUME NEW s \in OrderStatuses, ClickStatus(s) PROVE OfficeInv'
  <2>1. UNCHANGED <<role, shown>> /\ shown.page \in OrderPages /\ Allowed(shown.role, "manageOrders")
        /\ s \in ButtonsOf(shown.page, shown.statut)
    BY <1>6 DEF ClickStatus
  <2>2. GuardPasses(shown.role, StatusAction)
    BY <2>1, StatusClicks
  <2>3. \/ CanTransition(shown.statut, s)
        \/ shown.statut = "nouvelle" /\ shown.page \in {"commandes", "commande"}
    BY <2>1, StatusButtons
  <2>4. \/ statut' \in OrderStatuses /\ answer' = NoAnswer
        \/ /\ statut' = statut /\ role # shown.role
           /\ answer' = [outcome |-> "forbidden", from |-> shown]
        \/ /\ statut' = statut /\ ~ CanTransition(statut, s)
           /\ answer' = [outcome |-> "refused", from |-> shown]
    BY <1>6, <2>2 DEF ClickStatus, Done, Refused
  <2>5. OfficeTypeOK'
    BY <2>1, <2>4
  <2>6. OffersAreHonoured'
    BY <1>0, <2>1, <2>3, <2>4 DEF OffersAreHonoured
  <2> QED BY <2>5, <2>6
<1>7. CASE UNCHANGED officeVars
  BY <1>7 DEF officeVars, OffersAreHonoured
<1> QED BY <1>1, <1>2, <1>3, <1>4, <1>5, <1>6, <1>7 DEF OfficeNext

\* What a page offers, reads or links to is accepted, unless the role or the
\* order changed since it was rendered: the permissions of the front end, the
\* routes it writes, the roles of the API and the table of statuses agree
\* (lib/permissions.ts, RolesGuard, commande-status-transitions.ts).
THEOREM PagesKeepTheirWord == OfficeSpec => []OffersAreHonoured
<1>1. OfficeInv => OffersAreHonoured
  BY DEF OfficeInv
<1> QED BY <1>1, OfficeInitInv, OfficeStep, PTL DEF OfficeSpec
=============================================================================
