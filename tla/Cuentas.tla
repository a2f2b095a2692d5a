------------------------------ MODULE Cuentas ------------------------------
(***************************************************************************)
(* Accounts, their profiles per company and their invitations              *)
(* (users/api/services.py, users/api/views/security.py, UserDetailView,    *)
(* EmpresaViewSet.invite_admin).  One action is one request.  The actor is *)
(* a Global Oil user or the administrator of a client company, with the    *)
(* permissions the seed grants; it is never the account it acts on.        *)
(***************************************************************************)
EXTENDS Naturals, Sequences, FiniteSets

CONSTANTS
    Usuarios,
    Clientes,          \* client companies
    Internas,          \* is_internal: Global Oil
    Roles,             \* the roles of ROLE_DEFINITIONS in use
    MaxInvitaciones,   \* bound: invitations ever created
    Correos,           \* addresses, as they may be written
    Normalizado,       \* normalize_email: the domain in lower case
    Plegado,           \* what email__iexact compares
    EstadosPedidos,    \* bound: the states a profile form is sent with
    AccesosPedidos,    \* bound: what an account form is sent with
    FichasPedidas      \* bound: what an invitation form is sent with

VARIABLES
    registradas,   \* users that have an account
    cuenta,        \* the address and the access columns of each User row
    perfil,        \* UserCompanyProfile per user and company
    invitaciones,  \* UserInvitation rows in order of creation
    autor          \* the actor of the last UserAuditLog row

varsCuentas == <<registradas, cuenta, perfil, invitaciones, autor>>

Empresas == Clientes \cup Internas
Global   == "global"
Actores  == {Global} \cup Clientes
Nadie    == "nadie"

Alcance == [admin_global |-> "GLOBAL", admin_empresa |-> "COMPANY", empresa_consulta |-> "COMPANY",
            empresa_carga_muestras |-> "COMPANY", solo_lectura |-> "COMPANY",
            laboratorista |-> "INTERNAL", revisor_interpretador |-> "INTERNAL"]

(* legacy_role, the column role of the account. *)
Legado == [admin_global |-> "GLOBAL", admin_empresa |-> "ADMINISTRADOR",
           empresa_consulta |-> "EMPRESA", empresa_carga_muestras |-> "EMPRESA",
           solo_lectura |-> "EMPRESA",
           laboratorista |-> "LABORATORISTA", revisor_interpretador |-> "LABORATORISTA"]

EstadosPerfil == {"PENDING", "ACTIVE", "BLOCKED", "READ_ONLY", "REMOVED"}
EstadosAcceso == {"PENDING_INVITATION", "ACTIVE", "BLOCKED", "READ_ONLY", "DISABLED"}
Ambitos       == {"NONE", "GLOBAL", "COMPANY"}
SinPerfil     == [estado |-> "ninguno", rol |-> "ninguno"]
SinCuenta     == [correo |-> "ninguno", empresa |-> "ninguna", rol |-> "ninguno", activa |-> FALSE,
                  acceso |-> "PENDING_INVITATION", ambito |-> "NONE"]

FilaDeCuenta ==
    [correo : Correos \cup {"ninguno"}, empresa : Empresas \cup {"ninguna"},
     rol : {Legado[r] : r \in Roles} \cup {"ninguno"}, activa : BOOLEAN, acceso : EstadosAcceso, ambito : Ambitos]

FilaDePerfil == [estado : EstadosPerfil, rol : Roles]

(* History: "visto" is how many invitations were stored when the one of    *)
(* this row revoked the older ones; "editada", that a form wrote the row.  *)
Ficha == [correo : Correos, empresa : Empresas, rol : Roles, vencida : BOOLEAN,
          traslado : BOOLEAN]
Invitacion ==
    [correo : Correos, usuario : Usuarios, empresa : Empresas, rol : Roles,
     estado : {"PENDING", "ACCEPTED", "REVOKED"}, vencida : BOOLEAN, traslado : BOOLEAN,
     visto : Nat, editada : BOOLEAN]

ASSUME EmpresasAparte == Clientes \cap Internas = {} /\ {Global, Nadie} \cap Clientes = {}
ASSUME RolesConocidos == Roles \subseteq DOMAIN Alcance
ASSUME PedidosTipados ==
    /\ EstadosPedidos \subseteq EstadosPerfil
    /\ AccesosPedidos \subseteq
          [correo : Correos, activa : BOOLEAN, acceso : EstadosAcceso, ambito : Ambitos]
    /\ FichasPedidas \subseteq Ficha
    /\ Normalizado \in [Correos -> Correos]

TiposCuentas ==
    /\ registradas \subseteq Usuarios
    /\ cuenta \in [Usuarios -> FilaDeCuenta]
    /\ perfil \in [Usuarios \X Empresas -> FilaDePerfil \cup {SinPerfil}]
    /\ invitaciones \in Seq(Invitacion)
    /\ autor \in Actores \cup {Nadie}

(* Nobody has been invited yet. *)
InitCuentas ==
    /\ registradas = {}
    /\ cuenta = [u \in Usuarios |-> SinCuenta]
    /\ perfil = [x \in Usuarios \X Empresas |-> SinPerfil]
    /\ invitaciones = <<>>
    /\ autor = Nadie

-----------------------------------------------------------------------------
(* What an actor may do *)

EsGlobal(a) == a = Global

(* The permissions of the role admin_empresa these endpoints ask for. *)
CodigosAdminEmpresa == {"usuarios.invitar", "usuarios.editar", "usuarios.bloquear",
                        "usuarios.desbloquear", "usuarios.reenviar_invitacion",
                        "usuarios.asignar_roles"}

Permitido(a, codigo) == EsGlobal(a) \/ codigo \in CodigosAdminEmpresa

(* get_queryset: Global Oil sees every row, the others those of their company. *)
Alcanza(a, e) == EsGlobal(a) \/ a = e

CuentaAlcanzable(a, u) == u \in registradas /\ Alcanza(a, cuenta[u].empresa)

Asignable(a, r) == EsGlobal(a) \/ Alcance[r] = "COMPANY"

Tiene(u, e) == perfil[u, e] # SinPerfil

PerfilesDe(u) == {e \in Empresas : Tiene(u, e)}

(* The profiles a block, an unblock... of the actor reaches. *)
PerfilesQueAlcanza(a, u) == {e \in PerfilesDe(u) : Alcanza(a, e)}

ConEstado(u, es, estado) ==
    [x \in DOMAIN perfil |-> IF x[1] = u /\ x[2] \in es THEN [perfil[x] EXCEPT !.estado = estado]
                             ELSE perfil[x]]

-----------------------------------------------------------------------------
(* Invitations *)

DeLaDireccion(v, c, e) == Plegado[v.correo] = Plegado[c] /\ v.empresa = e

(* Slip: the pending invitations of the same address stay. *)
SinRevocar(c, e, visto) == invitaciones

(* The pending invitations of the same address to the same company, of the *)
(* rows stored when the statement ran.  It locks the ones it revokes until *)
(* the request commits; the others may be added meanwhile, and are not     *)
(* seen: nothing is locked between revoking and creating.                  *)
Revocadas(c, e, visto) ==
    [i \in DOMAIN invitaciones |->
        IF i <= visto /\ DeLaDireccion(invitaciones[i], c, e)
           /\ invitaciones[i].estado = "PENDING"
        THEN [invitaciones[i] EXCEPT !.estado = "REVOKED"] ELSE invitaciones[i]]

(* get_or_create: the account with exactly this address, or a new one. *)
CuentasCon(c) == {u \in registradas : cuenta[u].correo = c}
Destinatario(c, u) ==
    IF CuentasCon(c) = {} THEN u \in Usuarios \ registradas ELSE u \in CuentasCon(c)

Anterior(u) == IF u \in registradas THEN cuenta[u].empresa ELSE "ninguna"
SeTraslada(u, e) == Anterior(u) \notin {"ninguna", e}

(* Slip: a client company may be sent an internal role. *)
InvitableACualquiera(u, e, r, traslada) ==
    /\ Alcance[r] # "GLOBAL"
    /\ SeTraslada(u, e) => traslada

(* The conditions create_invitation raises ValueError for. *)
Invitable(u, e, r, traslada) ==
    /\ Alcance[r] # "GLOBAL"
    /\ Alcance[r] = "INTERNAL" => e \in Internas
    /\ Alcance[r] = "COMPANY" => e \notin Internas
    /\ SeTraslada(u, e) => traslada

HayCupo      == Len(invitaciones) < MaxInvitaciones        \* bound

(* create_invitation, whose transaction began when "visto" invitations     *)
(* were stored; "previas" are the invitations with the old ones revoked,   *)
(* "heredado" a company_transfer kept in the metadata of the one that is   *)
(* sent again.                                                             *)
CrearInvitacion(c, u, e, r, previas, visto, heredado) ==
    /\ invitaciones' = Append(previas,
          [correo |-> c, usuario |-> u, empresa |-> e, rol |-> r, estado |-> "PENDING",
           vencida |-> FALSE, traslado |-> heredado \/ SeTraslada(u, e), visto |-> visto,
           editada |-> FALSE])
    /\ registradas' = registradas \cup {u}
    /\ cuenta' = IF u \in registradas THEN cuenta
                 ELSE [cuenta EXCEPT ![u] = [SinCuenta EXCEPT !.correo = c, !.empresa = e,
                                                              !.rol = Legado[r]]]
    /\ perfil' = [perfil EXCEPT ![<<u, e>>] =
          [estado |-> IF @.estado = "ACTIVE" /\ cuenta[u].activa THEN "ACTIVE" ELSE "PENDING",
           rol |-> r]]

(* The one of the endpoints that only create. *)
CrearDesde(c, u, e, r, traslada) ==
    /\ Destinatario(Normalizado[c], u)
    /\ Invitable(u, e, r, traslada)
    /\ \E visto \in 0..Len(invitaciones) :
          CrearInvitacion(Normalizado[c], u, e, r, Revocadas(Normalizado[c], e, visto), visto,
                          FALSE)

(* POST invitations. *)
Invitar(a, c, u, e, r, traslada) ==
    /\ Permitido(a, "usuarios.invitar")
    /\ Alcanza(a, e)
    /\ traslada => EsGlobal(a)
    /\ Asignable(a, r)
    /\ CrearDesde(c, u, e, r, traslada)

(* POST companies/<id>/invite-admin: the role is the one the request names. *)
InvitarAdmin(a, c, u, e, r, traslada) ==
    /\ Permitido(a, "usuarios.invitar")
    /\ Alcanza(a, e)
    /\ CrearDesde(c, u, e, r, traslada /\ EsGlobal(a))

(* POST invitations/<id>/resend, to the address of the invitation: the old *)
(* one is revoked first, whatever its state, and stays so when the new one *)
(* is refused.                                                             *)
Reenviar(a, i, u) ==
    LET v == invitaciones[i]
        c == Normalizado[v.correo]
        tras == [invitaciones EXCEPT ![i].estado = "REVOKED"]
    IN  /\ Permitido(a, "usuarios.reenviar_invitacion")
        /\ Alcanza(a, v.empresa)
        /\ Asignable(a, v.rol)
        /\ Destinatario(c, u)
        /\ IF Invitable(u, v.empresa, v.rol, v.traslado /\ EsGlobal(a))
           THEN /\ HayCupo
                /\ \E visto \in i..Len(invitaciones) :
                   CrearInvitacion(c, u, v.empresa, v.rol,
                      [j \in DOMAIN tras |-> IF j = i THEN tras[j]
                                             ELSE Revocadas(c, v.empresa, visto)[j]],
                      visto, v.traslado)
           ELSE invitaciones' = tras /\ UNCHANGED <<registradas, cuenta, perfil>>

(* POST invitations/<id>/revoke and DELETE. *)
Revocar(a, i) ==
    /\ Permitido(a, "usuarios.reenviar_invitacion")
    /\ Alcanza(a, invitaciones[i].empresa)
    /\ invitaciones' = [invitaciones EXCEPT ![i].estado = "REVOKED"]
    /\ UNCHANGED <<registradas, cuenta, perfil>>

(* PUT and PATCH invitations/<id>: the form of the row, as it is sent. *)
EditarInvitacion(a, i, ficha) ==
    /\ Alcanza(a, invitaciones[i].empresa)
    /\ invitaciones' = [invitaciones EXCEPT ![i] =
          [@ EXCEPT !.correo = ficha.correo, !.empresa = ficha.empresa, !.rol = ficha.rol,
                    !.vencida = ficha.vencida, !.traslado = ficha.traslado, !.editada = TRUE]]
    /\ UNCHANGED <<registradas, cuenta, perfil>>

(* The role of a new invitation: that of the membership when it stays in   *)
(* the company, the one asked for when it moves, else one that fits the    *)
(* column role of the account.                                             *)
RolAlReinvitar(u, e, pedido) ==
    IF e = cuenta[u].empresa /\ Tiene(u, e) THEN {perfil[u, e].rol}
    ELSE IF e # cuenta[u].empresa /\ pedido \in Roles THEN {pedido}
    ELSE {r \in Roles : Legado[r] = cuenta[u].rol}

(* POST security/users/<id>/reinvite, to the address of the account: it    *)
(* reaches the account that has it as it is normalized.                    *)
Reinvitar(a, u, d, e, pedido) ==
    /\ Permitido(a, "usuarios.reenviar_invitacion")
    /\ CuentaAlcanzable(a, u)
    /\ e # cuenta[u].empresa => EsGlobal(a)
    /\ \E c \in Correos, r \in RolAlReinvitar(u, e, pedido) :
          u \in CuentasCon(c) /\ Asignable(a, r) /\ CrearDesde(c, d, e, r, EsGlobal(a))

(* expires_at passes. *)
Vencer(i) ==
    /\ invitaciones[i].estado = "PENDING"
    /\ invitaciones' = [invitaciones EXCEPT ![i].vencida = TRUE]
    /\ UNCHANGED <<registradas, cuenta, perfil>>

(* accept_invitation: a change of company removes the other profiles. *)
Aceptar(i) ==
    LET v == invitaciones[i] IN
    /\ v.estado = "PENDING" /\ ~v.vencida
    /\ invitaciones' = [invitaciones EXCEPT ![i].estado = "ACCEPTED"]
    /\ cuenta' = [cuenta EXCEPT ![v.usuario] =
          [@ EXCEPT !.empresa = v.empresa, !.rol = Legado[v.rol], !.activa = TRUE, !.acceso = "ACTIVE"]]
    /\ perfil' = [(IF v.traslado THEN ConEstado(v.usuario, PerfilesDe(v.usuario), "REMOVED")
                   ELSE perfil)
                  EXCEPT ![<<v.usuario, v.empresa>>] = [estado |-> "ACTIVE", rol |-> v.rol]]
    /\ UNCHANGED registradas

-----------------------------------------------------------------------------
(* Profiles *)

(* POST user-profiles. *)
CrearPerfil(a, u, e, r, estado) ==
    /\ Permitido(a, "usuarios.asignar_roles")
    /\ u \in registradas /\ ~Tiene(u, e)
    /\ Alcanza(a, e) /\ Asignable(a, r)
    /\ perfil' = [perfil EXCEPT ![<<u, e>>] = [estado |-> estado, rol |-> r]]
    /\ UNCHANGED <<registradas, cuenta, invitaciones>>

(* PATCH user-profiles: it may also be given to another user or company. *)
EditarPerfil(a, u, e, u2, e2, r, estado) ==
    /\ Permitido(a, "usuarios.asignar_roles")
    /\ Tiene(u, e) /\ Alcanza(a, e)
    /\ u2 \in registradas /\ (<<u2, e2>> = <<u, e>> \/ ~Tiene(u2, e2))
    /\ Alcanza(a, e2) /\ Asignable(a, r)
    /\ perfil' = [[perfil EXCEPT ![<<u, e>>] = SinPerfil]
                     EXCEPT ![<<u2, e2>>] = [estado |-> estado, rol |-> r]]
    /\ UNCHANGED <<registradas, cuenta, invitaciones>>

(* DELETE user-profiles. *)
RetirarPerfil(a, u, e) ==
    /\ Permitido(a, "usuarios.asignar_roles")
    /\ Tiene(u, e) /\ Alcanza(a, e)
    /\ perfil' = ConEstado(u, {e}, "REMOVED")
    /\ cuenta' = IF cuenta[u].empresa = e
                 THEN [cuenta EXCEPT ![u].activa = FALSE, ![u].acceso = "DISABLED"] ELSE cuenta
    /\ UNCHANGED <<registradas, invitaciones>>

-----------------------------------------------------------------------------
(* Access of an account: security/users/<id>/... *)

(* Slip: the block is stored with the company of the actor. *)
AmbitoDelActor(a) == a

Ambito(a) == IF EsGlobal(a) THEN "GLOBAL" ELSE "COMPANY"

Bloquear(a, u) ==
    /\ Permitido(a, "usuarios.bloquear") /\ CuentaAlcanzable(a, u)
    /\ cuenta' = [cuenta EXCEPT ![u].activa = FALSE, ![u].acceso = "BLOCKED", ![u].ambito = Ambito(a)]
    /\ perfil' = ConEstado(u, PerfilesQueAlcanza(a, u), "BLOCKED")
    /\ UNCHANGED <<registradas, invitaciones>>

Desbloquear(a, u) ==
    /\ Permitido(a, "usuarios.desbloquear") /\ CuentaAlcanzable(a, u)
    /\ cuenta[u].ambito = "GLOBAL" => EsGlobal(a)
    /\ cuenta' = [cuenta EXCEPT ![u].activa = TRUE, ![u].acceso = "ACTIVE", ![u].ambito = "NONE"]
    /\ perfil' = ConEstado(u, PerfilesQueAlcanza(a, u), "ACTIVE")
    /\ UNCHANGED <<registradas, invitaciones>>

SoloLectura(a, u) ==
    /\ Permitido(a, "usuarios.bloquear") /\ CuentaAlcanzable(a, u)
    /\ cuenta' = [cuenta EXCEPT ![u].activa = TRUE, ![u].acceso = "READ_ONLY", ![u].ambito = Ambito(a)]
    /\ perfil' = ConEstado(u, PerfilesQueAlcanza(a, u), "READ_ONLY")
    /\ UNCHANGED <<registradas, invitaciones>>

RestaurarEscritura(a, u) ==
    /\ Permitido(a, "usuarios.desbloquear") /\ CuentaAlcanzable(a, u)
    /\ cuenta[u].ambito = "GLOBAL" => EsGlobal(a)
    /\ cuenta' = [cuenta EXCEPT ![u].acceso = "ACTIVE", ![u].ambito = "NONE"]
    /\ perfil' = ConEstado(u, PerfilesQueAlcanza(a, u), "ACTIVE")
    /\ UNCHANGED <<registradas, invitaciones>>

Desactivar(a, u) ==
    /\ Permitido(a, "usuarios.eliminar") /\ CuentaAlcanzable(a, u)
    /\ cuenta' = [cuenta EXCEPT ![u].activa = FALSE, ![u].acceso = "DISABLED"]
    /\ perfil' = ConEstado(u, PerfilesQueAlcanza(a, u), "REMOVED")
    /\ UNCHANGED <<registradas, invitaciones>>

Reactivar(a, u) ==
    /\ Permitido(a, "usuarios.desbloquear") /\ CuentaAlcanzable(a, u)
    /\ cuenta' = [cuenta EXCEPT ![u].activa = TRUE, ![u].acceso = "ACTIVE", ![u].ambito = "NONE"]
    /\ perfil' = ConEstado(u, {e \in Empresas : e = cuenta[u].empresa /\ Tiene(u, e)}, "ACTIVE")
    /\ UNCHANGED <<registradas, invitaciones>>

(* DELETE users/<id>: every profile, also those of other companies. *)
EliminarCuenta(a, u) ==
    /\ Permitido(a, "usuarios.eliminar") /\ CuentaAlcanzable(a, u)
    /\ cuenta' = [cuenta EXCEPT ![u].activa = FALSE, ![u].acceso = "DISABLED"]
    /\ perfil' = ConEstado(u, PerfilesDe(u), "REMOVED")
    /\ UNCHANGED <<registradas, invitaciones>>

(* PUT and PATCH users/<id>: the company and the role cannot change here,  *)
(* the address may, to one no other account has.                           *)
EditarCuenta(a, u, pedido) ==
    /\ Permitido(a, "usuarios.editar") /\ CuentaAlcanzable(a, u)
    /\ CuentasCon(pedido.correo) \subseteq {u}
    /\ cuenta' = [cuenta EXCEPT ![u] =
          [@ EXCEPT !.correo = pedido.correo, !.activa = pedido.activa, !.acceso = pedido.acceso,
                    !.ambito = pedido.ambito]]
    /\ UNCHANGED <<registradas, perfil, invitaciones>>

-----------------------------------------------------------------------------
PasoSobreInvitacion(a) ==
    \/ /\ HayCupo
       /\ \E u \in Usuarios, e \in Empresas :
             \/ \E c \in Correos, r \in Roles, traslada \in BOOLEAN :
                   Invitar(a, c, u, e, r, traslada) \/ InvitarAdmin(a, c, u, e, r, traslada)
             \/ \E d \in Usuarios, r \in Roles \cup {"ninguno"} : Reinvitar(a, u, d, e, r)
    \/ \E i \in DOMAIN invitaciones, u \in Usuarios : Reenviar(a, i, u)

PasoSobreEnviadas(a) ==
    \E i \in DOMAIN invitaciones :
       Revocar(a, i) \/ \E ficha \in FichasPedidas : EditarInvitacion(a, i, ficha)

PasoSobrePerfil(a) ==
    \E u \in Usuarios, e \in Empresas :
       \/ \E r \in Roles, estado \in EstadosPedidos :
             \/ CrearPerfil(a, u, e, r, estado)
             \/ \E u2 \in Usuarios, e2 \in Empresas : EditarPerfil(a, u, e, u2, e2, r, estado)
       \/ RetirarPerfil(a, u, e)

PasoSobreCuenta(a) ==
    \E u \in Usuarios :
       \/ Bloquear(a, u) \/ Desbloquear(a, u) \/ SoloLectura(a, u) \/ RestaurarEscritura(a, u)
       \/ Desactivar(a, u) \/ Reactivar(a, u) \/ EliminarCuenta(a, u)
       \/ \E pedido \in AccesosPedidos : EditarCuenta(a, u, pedido)

(* audit_user_action: every request of an actor leaves its name; who       *)
(* accepts an invitation is not logged in.                                 *)
NextCuentas ==
    \/ \E a \in Actores :
          /\ autor' = a
          /\ \/ PasoSobreInvitacion(a) \/ PasoSobreEnviadas(a)
             \/ PasoSobrePerfil(a) \/ PasoSobreCuenta(a)
    \/ \E i \in DOMAIN invitaciones : autor' = Nadie /\ (Vencer(i) \/ Aceptar(i))

SpecCuentas == InitCuentas /\ [][NextCuentas]_varsCuentas

-----------------------------------------------------------------------------
(* However an invitation comes to be (first one, resent, reinvitation,     *)
(* administrator of a company), it supersedes the ones to its address and  *)
(* company that were there when it was asked for, however the address is   *)
(* written: none of them is pending any more, nor will be, whatever        *)
(* happens to the new one, and to the account and its own address          *)
(* (create_invitation).  Two requests that overlap may leave two links,    *)
(* and so may a form that writes an invitation.                            *)
InvitacionSustituida ==
    \A i, j \in DOMAIN invitaciones :
        /\ i <= invitaciones[j].visto
        /\ DeLaDireccion(invitaciones[i], invitaciones[j].correo, invitaciones[j].empresa)
        /\ ~invitaciones[i].editada /\ ~invitaciones[j].editada
        => invitaciones[i].estado # "PENDING"

EmpresaAjenaIntacta(a) ==
    /\ \A u \in registradas : cuenta[u].empresa # a => cuenta'[u] = cuenta[u]
    /\ \A u \in Usuarios, e \in Empresas \ {a} : perfil'[u, e] = perfil[u, e]

RolDeEmpresa(a) ==
    /\ \A x \in DOMAIN perfil :
          perfil'[x].rol \notin {"ninguno", perfil[x].rol} => Alcance[perfil'[x].rol] = "COMPANY"
    /\ \A i \in DOMAIN invitaciones' \ DOMAIN invitaciones :
          Alcance[invitaciones'[i].rol] = "COMPANY"

(* What the administrator of a company does leaves the accounts of other   *)
(* companies and the profiles in other companies as they were, and gives   *)
(* company roles only, in a profile or by any of the endpoints that        *)
(* invite, also the one that takes the role of the request unchecked       *)
(* (invite_admin).  The form of a stored invitation is left out.           *)
SoloEnSuEmpresa ==
    [][\A a \in Clientes : autor' = a => EmpresaAjenaIntacta(a) /\ RolDeEmpresa(a)]_varsCuentas

(* An account changes company only by an invitation to change company      *)
(* (the words create_invitation refuses the others with).                  *)
TrasladoDeclarado ==
    [][\A u \in registradas : cuenta'[u].empresa # cuenta[u].empresa =>
          \E i \in DOMAIN invitaciones :
             /\ invitaciones[i].usuario = u /\ invitaciones[i].empresa = cuenta'[u].empresa
             /\ invitaciones[i].traslado /\ invitaciones'[i].estado = "ACCEPTED"]_varsCuentas
=============================================================================
