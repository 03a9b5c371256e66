--------------------------- MODULE BackOfficePages ---------------------------
(***************************************************************************)
(* The pages of the back office: the permission each needs, what it reads  *)
(* and what its forms and buttons call, and where its links lead, each by  *)
(* the permission the page asks before it shows it.  A call is the route   *)
(* its code writes (lib/api.ts, or the component's own request).  Layout,  *)
(* filters and texts are left out.                                         *)
(***************************************************************************)
EXTENDS ApiRoutes

HasRole(S) == S \cup {"admin"}

\* lib/permissions.ts.
Can ==
  [ accessBackOffice  |-> Roles,
    accessAdmin       |-> HasRole({"gerant"}),
    viewUsers         |-> HasRole({"read_only"}),
    manageUsers       |-> {"admin"},
    viewShopAnalytics |-> {"admin"},
    viewOrders        |-> HasRole({"gerant", "vendeur", "production", "comptable", "read_only"}),
    manageOrders      |-> HasRole({"gerant", "vendeur", "production"}),
    refundOrders      |-> HasRole({"gerant"}),
    viewArticles      |-> HasRole(Viewers),
    viewArticleCategories |-> HasRole(Viewers),
    manageArticles    |-> HasRole({"gerant"}),
    updateArticlePrice |-> {"admin"},
    deleteArticle     |-> {"admin"},
    manageArticleProduction |-> HasRole({"gerant", "production"}),
    viewStock         |-> HasRole({"gerant", "production", "stock", "read_only"}),
    manageStock       |-> HasRole({"gerant", "stock"}),
    viewCashRegister  |-> HasRole({"gerant", "vendeur", "comptable", "read_only"}),
    viewCashRegisterHistory |-> HasRole({"gerant", "comptable", "read_only"}),
    manageCashRegister |-> HasRole({"gerant", "comptable"}),
    createSales       |-> HasRole({"gerant", "vendeur"}),
    viewPickupPoints  |-> HasRole({"gerant", "read_only"}),
    managePickupPoints |-> HasRole({"gerant"}) ]

\* Variant: sellers are shown what managers are shown of refunds.
AllowedWithSellers(r, permission) ==
  r \in Can[permission] \/ (permission = "refundOrders" /\ r = "vendeur")

\* What an employee is shown, by the permission it needs.
Allowed(r, permission) == r \in Can[permission]

\* What is shown by one permission.
By(permission, S) == {<<permission, x>> : x \in S}

-----------------------------------------------------------------------------
(* The calls.                                                              *)

GetArticles == Get("articles")
GetArticle == Get("articles/:id")
GetArticleCategories == Get("article-categories")
CategoryWrites ==
  {Post("article-categories"), Patch("article-categories/:id"), Delete("article-categories/:id")}
GetMatieres == Get("matieres-premieres")
GetMatiere == Get("matieres-premieres/:id")
GetNomenclature == Get("articles/:id/nomenclature")
GetCapacity == Get("articles/:id/capacity")
GetVentes == Get("ventes")
GetCommandes == Get("commandes")
GetCommande == Get("commandes/:id")
GetCommandeRefunds == Get("commandes/:id/refunds")
GetReconciliations == Get("stripe-reconciliations")
GetReconciliation == Get("stripe-reconciliations/:id")
ReconciliationWrites ==
  {Post("stripe-reconciliations/:id/retry"), Post("stripe-reconciliations/:id/manual-resolution")}
GetCaisseToday == Get("caisse/today")
GetJourneesCaisse == Get("caisse/journees")
GetMouvementsStock == Get("mouvements-stock")
GetStockLots == Get("mouvements-stock/lots")
GetPickupPoints == Get("pickup-points")
PickupPointWrites ==
  {Post("pickup-points"), Patch("pickup-points/:id"), Patch("pickup-points/:id/deactivate"),
   Patch("pickup-points/:id/reactivate")}

\* Components that call by themselves.
AnalyticsDashboard == Get("admin/analytics/overview")
RefundsPanel == Post("commandes/:id/refunds")
StatusAction == Patch("commandes/:id/statut")
NewArticleForm == {Post("articles"), Post("articles/:id/image")}
EditArticleForm == {Patch("articles/:id"), Post("articles/:id/image")}
DeleteArticleButton == Delete("articles/:id")
ProduceArticleForm == Post("articles/:id/produce")
ProduceLotForm == Post("articles/:id/produce")
NomenclatureForm ==
  {Post("articles/:id/nomenclature"), Patch("articles/:id/nomenclature/:mpId"),
   Delete("articles/:id/nomenclature/:mpId")}
ReceptionForm == Post("mouvements-stock/matieres-premieres/:id/reception")
AdjustStockForm == Post("mouvements-stock/ajustement")
MarkLotAsLoss == Post("mouvements-stock/lots/:id/perte")
NewMatiereForm == Post("matieres-premieres")
EditMatiereForm == Patch("matieres-premieres/:id")
DeleteMatiereButton == Delete("matieres-premieres/:id")
NewVenteForm == Post("ventes")
CloseCaisseButton == Post("caisse/cloturer")
CreateEmployeeForm == Post("admin/users")
UserRoleSelect == Patch("admin/users/:id/role")
DeleteUser == Delete("admin/users/:id")

-----------------------------------------------------------------------------
(* The pages.                                                              *)

\* AppShell: the navigation around every page.
NavLinks ==
  { <<"accessBackOffice", "home">>, <<"viewOrders", "commandes">>,
    <<"viewArticles", "articles">>, <<"viewArticleCategories", "categories">>,
    <<"viewUsers", "users">>, <<"viewPickupPoints", "pickupPoints">>,
    <<"createSales", "newVente">> }

HomePage ==
  [ needs |-> "accessBackOffice",
    offers |-> By("viewStock", {GetMatieres, GetStockLots})
      \cup {<<"viewCashRegister", GetCaisseToday>>, <<"viewOrders", GetCommandes>>,
            <<"viewArticles", GetArticles>>, <<"viewShopAnalytics", AnalyticsDashboard>>},
    links |-> By("viewStock", {"stock", "matiere"}) \cup By("viewArticles", {"articles", "article"})
      \cup {<<"createSales", "newVente">>, <<"viewCashRegister", "caisse">>,
            <<"viewOrders", "commandes">>} ]

CommandesPage ==
  [ needs |-> "viewOrders",
    offers |-> By("viewOrders", {GetCommandes}),
    links |-> By("viewOrders", {"commande"})
      \cup {<<"manageStock", "stock">>, <<"manageArticleProduction", "stock">>} ]

CommandePage ==
  [ needs |-> "viewOrders",
    offers |-> By("viewOrders", {GetCommande, GetCommandeRefunds})
      \cup By("refundOrders", {RefundsPanel}),
    links |-> By("viewOrders", {"commandes"}) ]

PreparationPage ==
  [ needs |-> "viewOrders",
    offers |-> By("viewOrders", {GetCommandes}),
    links |-> By("viewOrders", {"commandes", "commande"}) ]

ArticlesPage ==
  [ needs |-> "viewArticles",
    offers |-> By("viewArticles", {GetArticles, GetArticleCategories}),
    links |-> By("viewArticles", {"article"}) \cup By("manageArticles", {"newArticle", "editArticle"}) ]

\* The form to produce is shown to who may produce among those who see the stock.
ArticlePage ==
  [ needs |-> "viewArticles",
    offers |-> By("viewArticles", {GetArticle}) \cup By("viewStock", {GetNomenclature, GetCapacity})
      \cup By("manageArticleProduction", {ProduceArticleForm})
      \cup By("deleteArticle", {DeleteArticleButton}),
    links |-> By("viewArticles", {"articles"}) \cup By("manageArticles", {"editArticle"})
      \cup By("manageArticleProduction", {"recipe"}) ]

NewArticlePage ==
  [ needs |-> "manageArticles",
    offers |-> By("manageArticles", {GetArticleCategories} \cup NewArticleForm),
    links |-> By("manageArticles", {"article"}) ]

EditArticlePage ==
  [ needs |-> "manageArticles",
    offers |-> By("manageArticles", {GetArticle, GetArticleCategories} \cup EditArticleForm)
      \cup By("updateArticlePrice", {PriceUpdate}),
    links |-> By("manageArticles", {"articles", "article"}) ]

RecipePage ==
  [ needs |-> "manageArticleProduction",
    offers |-> By("manageArticleProduction",
                  {GetArticle, GetNomenclature, GetMatieres} \cup NomenclatureForm),
    links |-> By("manageArticleProduction", {"articles", "article"}) ]

CategoriesPage ==
  [ needs |-> "viewArticleCategories",
    offers |-> By("viewArticleCategories", {GetArticleCategories})
      \cup By("manageArticles", CategoryWrites),
    links |-> {} ]

StockPage ==
  [ needs |-> "viewStock",
    offers |-> By("viewStock", {GetArticles, GetMatieres, GetMouvementsStock, GetStockLots})
      \cup By("manageStock", {MarkLotAsLoss, ReceptionForm, AdjustStockForm})
      \cup By("manageArticleProduction", {ProduceLotForm}),
    links |-> By("manageStock", {"newMatiere"}) \cup By("viewStock", {"matiere", "article"}) ]

MatieresPage ==
  [ needs |-> "viewStock",
    offers |-> By("viewStock", {GetMatieres}),
    links |-> By("viewStock", {"matiere"}) \cup By("manageStock", {"newMatiere", "editMatiere"}) ]

MatierePage ==
  [ needs |-> "viewStock",
    offers |-> By("viewStock", {GetMatiere}) \cup By("manageStock", {DeleteMatiereButton}),
    links |-> By("viewStock", {"matieres"}) \cup By("manageStock", {"editMatiere"}) ]

NewMatierePage ==
  [ needs |-> "manageStock",
    offers |-> By("manageStock", {NewMatiereForm}),
    links |-> By("manageStock", {"matieres"}) ]

EditMatierePage ==
  [ needs |-> "manageStock",
    offers |-> By("manageStock", {GetMatiere, EditMatiereForm}),
    links |-> By("manageStock", {"matieres", "matiere"}) ]

CaissePage ==
  [ needs |-> "viewCashRegister",
    offers |-> By("viewCashRegister", {GetCaisseToday, GetVentes})
      \cup By("manageCashRegister", {CloseCaisseButton}),
    links |-> By("viewCashRegister", {"ventes"}) \cup By("createSales", {"newVente"}) ]

JourneesPage ==
  [ needs |-> "viewCashRegisterHistory",
    offers |-> By("viewCashRegisterHistory", {GetJourneesCaisse}),
    links |-> By("viewCashRegisterHistory", {"caisse"}) ]

VentesPage ==
  [ needs |-> "viewCashRegister",
    offers |-> By("viewCashRegister", {GetVentes}),
    links |-> By("viewCashRegister", {"caisse"}) \cup By("createSales", {"newVente"}) ]

NewVentePage ==
  [ needs |-> "createSales",
    offers |-> By("createSales", {GetArticles, NewVenteForm}),
    links |-> By("createSales", {"ventes"}) \cup By("manageArticles", {"newArticle"}) ]

PickupPointsPage ==
  [ needs |-> "viewPickupPoints",
    offers |-> By("viewPickupPoints", {GetPickupPoints})
      \cup By("managePickupPoints", PickupPointWrites),
    links |-> {} ]

ReconciliationsPage ==
  [ needs |-> "accessAdmin",
    offers |-> By("accessAdmin", {GetReconciliations}),
    links |-> By("accessAdmin", {"reconciliation"}) ]

ReconciliationPage ==
  [ needs |-> "accessAdmin",
    offers |-> By("accessAdmin", {GetReconciliation} \cup ReconciliationWrites),
    links |-> By("accessAdmin", {"reconciliations", "commande"}) ]

UsersPage ==
  [ needs |-> "viewUsers",
    offers |-> By("manageUsers", {CreateEmployeeForm, UserRoleSelect, DeleteUser}),
    links |-> {} ]

\* Where requireUiPermission sends who may not see a page.
ForbiddenPage ==
  [ needs |-> "accessBackOffice", offers |-> {}, links |-> By("accessBackOffice", {"home"}) ]

Pages ==
  [ home |-> HomePage, commandes |-> CommandesPage, commande |-> CommandePage,
    preparation |-> PreparationPage, articles |-> ArticlesPage, article |-> ArticlePage,
    newArticle |-> NewArticlePage, editArticle |-> EditArticlePage, recipe |-> RecipePage,
    categories |-> CategoriesPage, stock |-> StockPage, matieres |-> MatieresPage,
    matiere |-> MatierePage, newMatiere |-> NewMatierePage, editMatiere |-> EditMatierePage,
    caisse |-> CaissePage, journees |-> JourneesPage, ventes |-> VentesPage,
    newVente |-> NewVentePage, pickupPoints |-> PickupPointsPage,
    reconciliations |-> ReconciliationsPage, reconciliation |-> ReconciliationPage,
    users |-> UsersPage, forbidden |-> ForbiddenPage ]
=============================================================================
