------------------------------ MODULE ApiRoutes ------------------------------
(***************************************************************************)
(* Who may call what: the handlers of the API, controller by controller,   *)
(* with the roles of their @Roles, and the back office's own handlers for  *)
(* accounts, which ask for an administrator themselves.  A route is a      *)
(* method and a path; who may call it is a relation.  The public handlers  *)
(* of the shop ask for no role and are not listed.                         *)
(***************************************************************************)
Roles == {"admin", "gerant", "vendeur", "production", "stock", "comptable", "read_only"}

Get(path) == <<"GET", path>>
Post(path) == <<"POST", path>>
Patch(path) == <<"PATCH", path>>
Delete(path) == <<"DELETE", path>>

\* Each of these roles may call each of these routes.
For(roles, routes) == routes \X roles

Viewers == {"gerant", "vendeur", "production", "stock", "read_only"}

ArticleRoutes ==
  For(Viewers, {Get("articles"), Get("articles/:id")})
    \cup For({"gerant", "production", "stock", "read_only"}, {Get("articles/:id/capacity")})
    \cup For({"gerant", "production"}, {Post("articles/:id/produce")})
    \cup For({"gerant"}, {Post("articles"), Patch("articles/:id"), Post("articles/:id/image")})
    \cup For({"admin"}, {Delete("articles/:id")})

\* A request to change an article that names another price passes the guard as
\* the others do, and the service then asks for an administrator.
PriceUpdate == Patch("articles/:id+prixCents")
PriceRoutes == For({"admin"}, {PriceUpdate})

CategoryRoutes ==
  For(Viewers, {Get("article-categories"), Get("article-categories/:id")})
    \cup For({"gerant"}, {Post("article-categories"), Patch("article-categories/:id"),
                        Delete("article-categories/:id")})

RecipeRoutes ==
  For({"gerant", "production", "stock", "read_only"}, {Get("articles/:id/nomenclature")})
    \cup For({"gerant", "production"},
           {Post("articles/:id/nomenclature"), Patch("articles/:id/nomenclature/:mpId"),
            Delete("articles/:id/nomenclature/:mpId")})

MaterialRoutes ==
  For({"gerant", "production", "stock", "read_only"},
      {Get("matieres-premieres"), Get("matieres-premieres/:id")})
    \cup For({"gerant", "stock"},
           {Post("matieres-premieres"), Patch("matieres-premieres/:id"),
            Delete("matieres-premieres/:id")})

MovementRoutes ==
  For({"gerant", "stock", "production", "comptable", "read_only"},
      {Get("mouvements-stock"), Get("mouvements-stock/lots")})
    \cup For({"gerant", "stock"},
           {Post("mouvements-stock/ajustement"),
            Post("mouvements-stock/matieres-premieres/:id/reception"),
            Post("mouvements-stock/lots/:id/perte")})

OrderRoutes ==
  For({"gerant", "vendeur", "production", "comptable", "read_only"},
      {Get("commandes"), Get("commandes/:id"), Get("commandes/:id/refunds")})
    \cup For({"gerant", "vendeur"}, {Post("commandes")})
    \cup For({"gerant"}, {Post("commandes/cleanup-abandoned"), Post("commandes/:id/refunds")})
    \cup For({"gerant", "vendeur", "production"}, {Patch("commandes/:id/statut")})

SaleRoutes ==
  For({"gerant", "vendeur", "comptable", "read_only"}, {Get("ventes"), Get("ventes/:id")})
    \cup For({"gerant", "vendeur"}, {Post("ventes")})

TillRoutes ==
  For({"gerant", "vendeur", "comptable", "read_only"}, {Get("caisse/today")})
    \cup For({"gerant", "comptable", "read_only"}, {Get("caisse/journees")})
    \cup For({"gerant", "comptable"}, {Post("caisse/cloturer")})

\* The roles of the class, and those of the one handler that has its own.
PickupPointRoutes ==
  For({"gerant", "read_only"}, {Get("pickup-points")})
    \cup For({"gerant"},
           {Post("pickup-points"), Patch("pickup-points/:id"),
            Patch("pickup-points/:id/deactivate"), Patch("pickup-points/:id/reactivate")})

ReconciliationRoutes ==
  For({"gerant"},
      {Get("stripe-reconciliations"), Get("stripe-reconciliations/:id"),
       Post("stripe-reconciliations/:id/retry"),
       Post("stripe-reconciliations/:id/manual-resolution")})

AnalyticsRoutes == For({"admin"}, {Get("admin/analytics/overview")})

\* Handlers of the back office itself (app/api/admin/users).
AccountRoutes ==
  For({"admin"},
      {Get("admin/users"), Post("admin/users"), Patch("admin/users/:id/role"),
       Delete("admin/users/:id")})

Api ==
  ArticleRoutes \cup PriceRoutes \cup CategoryRoutes \cup RecipeRoutes \cup MaterialRoutes
    \cup MovementRoutes \cup OrderRoutes \cup SaleRoutes \cup TillRoutes \cup PickupPointRoutes
    \cup ReconciliationRoutes \cup AnalyticsRoutes \cup AccountRoutes

Known(route) == \E role \in Roles : <<route, role>> \in Api

\* The proxy of the back office lets a reader read only; RolesGuard lets an
\* administrator do anything.
GuardPasses(role, route) ==
  /\ route[1] = "GET" \/ role # "read_only"
  /\ role = "admin" \/ <<route, role>> \in Api
=============================================================================
