------------------------------- MODULE MCClient -------------------------------
(* A small instance of the web client, one part of it at a time: the query      *)
(* cache, the tab that keeps its user signed in, the bell, the routes.  A part  *)
(* that is not at work stays at one of its initial states.                      *)
EXTENDS Browser, Shell, Delivery, Navigation

VARIABLE part

clientVars == <<part, browserVars, shellVars, deliveryVars, navVars>>

MCOwnerOf == [h \in Hooked |-> "ann"]

(* Nobody, an administrator, and the holders of custom roles of one permission  *)
(* with or without the management of identity providers.                        *)
Viewer(signedIn, admin, perms) == [signedIn |-> signedIn, admin |-> admin, perms |-> perms]

MCViewers ==
  {Viewer(FALSE, FALSE, {}), Viewer(TRUE, TRUE, DOMAIN Catalog)}
    \cup {Viewer(TRUE, FALSE, Catalog[p] \cup more) :
            p \in DOMAIN Catalog, more \in {{}, {"system.idp.manage"}}}

ClientInit ==
  /\ part \in {"cache", "tab", "bell", "routes"}
  /\ part # "cache" => scene = CHOOSE s \in Scenes : TRUE
  /\ part # "tab" => jar = [access |-> "gone", refresh |-> 1]
  /\ part # "bell" =>
       /\ wants = Wishes
       /\ about = [c \in Comments |-> [actor |-> "ann", owner |-> "ann", parent |-> "none"]]
  /\ part # "routes" =>
       /\ viewer = Viewer(FALSE, FALSE, {})
       /\ site = [maintenance |-> FALSE, requireAuth |-> FALSE]
       /\ place = "Home"
  /\ BrowserInit /\ ShellInit /\ DeliveryInit /\ NavInit

ClientNext ==
  \/ part = "cache" /\ BrowserNext /\ UNCHANGED <<part, shellVars, deliveryVars, navVars>>
  \/ part = "tab" /\ ShellNext /\ UNCHANGED <<part, browserVars, deliveryVars, navVars>>
  \/ part = "bell" /\ DeliveryNext /\ UNCHANGED <<part, browserVars, shellVars, navVars>>
  \/ part = "routes" /\ NavNext /\ UNCHANGED <<part, browserVars, shellVars, deliveryVars>>

ClientSpec == ClientInit /\ [][ClientNext]_clientVars
=============================================================================
