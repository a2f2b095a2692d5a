--------------------------- MODULE Cuentas_proofs ---------------------------
(***************************************************************************)
(* Proofs about Cuentas, for any people, companies, roles and number of    *)
(* invitations: a new invitation supersedes those it saw, and the          *)
(* administrator of a company reaches nothing outside it; and about        *)
(* Sesiones, for any number of requests: no session of an old password is  *)
(* accepted while one request writes the account at a time.                *)
(***************************************************************************)
EXTENDS Cuentas, Sesiones, FiniteSetTheorems, SequenceTheorems, TLAPS

LEMMA AlcanceConocido == \A r \in Roles : Alcance[r] \in {"GLOBAL", "COMPANY", "INTERNAL"}
  BY RolesConocidos DEF Alcance

(* A sequence of invitations, row by row. *)
LEMMA FilasDeInvitaciones ==
  ASSUME NEW s \in Seq(Invitacion)
  PROVE  DOMAIN s = 1..Len(s) /\ Len(s) \in Nat /\ \A i \in DOMAIN s : s[i] \in Invitacion
  OBVIOUS

LEMMA InvitacionesCambiadas ==
  ASSUME TiposCuentas, NEW previas, DOMAIN previas = DOMAIN invitaciones,
         previas = [i \in DOMAIN invitaciones |-> previas[i]],
         \A i \in DOMAIN invitaciones : previas[i] \in Invitacion
  PROVE  previas \in Seq(Invitacion)
  <1>1. DOMAIN invitaciones = 1..Len(invitaciones) /\ Len(invitaciones) \in Nat
    BY FilasDeInvitaciones DEF TiposCuentas
  <1>2. previas \in [1..Len(invitaciones) -> Invitacion]
    BY <1>1
  <1> QED BY <1>1, <1>2, SeqDef

-----------------------------------------------------------------------------
(* What a request to create an invitation starts from: the old rows, some  *)
(* of them revoked, none of those it saw pending for the address and       *)
(* company.                                                                *)
Despejadas(previas, c, e, visto) ==
    /\ previas \in Seq(Invitacion) /\ DOMAIN previas = DOMAIN invitaciones
    /\ \A i \in DOMAIN invitaciones :
          /\ previas[i] \in {invitaciones[i], [invitaciones[i] EXCEPT !.estado = "REVOKED"]}
          /\ i <= visto /\ DeLaDireccion(previas[i], c, e) => previas[i].estado # "PENDING"

LEMMA RevocadasDespejan ==
  ASSUME TiposCuentas, NEW c, NEW e, NEW visto
  PROVE  Despejadas(Revocadas(c, e, visto), c, e, visto)
  <1>1. \A i \in DOMAIN invitaciones : invitaciones[i] \in Invitacion
    BY FilasDeInvitaciones DEF TiposCuentas
  <1>2. DOMAIN Revocadas(c, e, visto) = DOMAIN invitaciones
        /\ Revocadas(c, e, visto) = [i \in DOMAIN invitaciones |-> Revocadas(c, e, visto)[i]]
    BY DEF Revocadas
  <1>3. ASSUME NEW i \in DOMAIN invitaciones
        PROVE  LET w == Revocadas(c, e, visto)[i] IN
               /\ w \in Invitacion
               /\ w \in {invitaciones[i], [invitaciones[i] EXCEPT !.estado = "REVOKED"]}
               /\ i <= visto /\ DeLaDireccion(w, c, e) => w.estado # "PENDING"
    <2> DEFINE v == invitaciones[i]
    <2>1. CASE i <= visto /\ DeLaDireccion(v, c, e) /\ v.estado = "PENDING"
      <3>1. Revocadas(c, e, visto)[i] = [v EXCEPT !.estado = "REVOKED"]
        BY <2>1 DEF Revocadas
      <3> QED BY <1>1, <3>1 DEF Invitacion
    <2>2. CASE ~(i <= visto /\ DeLaDireccion(v, c, e) /\ v.estado = "PENDING")
      <3>1. Revocadas(c, e, visto)[i] = v
        BY <2>2 DEF Revocadas
      <3> QED BY <1>1, <2>2, <3>1
    <2> QED BY <2>1, <2>2
  <1>4. Revocadas(c, e, visto) \in Seq(Invitacion)
    BY <1>2, <1>3, InvitacionesCambiadas
  <1> QED BY <1>2, <1>3, <1>4 DEF Despejadas

(* Sending one again also revokes the one that is sent. *)
LEMMA ReenvioDespeja ==
  ASSUME TiposCuentas, NEW i \in DOMAIN invitaciones, NEW c, NEW e, NEW visto,
         NEW previas, previas = [j \in DOMAIN invitaciones |->
             IF j = i THEN [invitaciones EXCEPT ![i].estado = "REVOKED"][j]
             ELSE Revocadas(c, e, visto)[j]]
  PROVE  Despejadas(previas, c, e, visto)
  <1>1. \A j \in DOMAIN invitaciones : invitaciones[j] \in Invitacion
    BY FilasDeInvitaciones DEF TiposCuentas
  <1>2. previas[i] = [invitaciones[i] EXCEPT !.estado = "REVOKED"]
    OBVIOUS
  <1>3. previas[i] \in Invitacion /\ previas[i].estado = "REVOKED"
    BY <1>1, <1>2 DEF Invitacion
  <1>4. \A j \in DOMAIN invitaciones \ {i} : previas[j] = Revocadas(c, e, visto)[j]
    OBVIOUS
  <1>5. Despejadas(Revocadas(c, e, visto), c, e, visto)
    BY RevocadasDespejan
  <1>6. \A j \in DOMAIN invitaciones : Revocadas(c, e, visto)[j] \in Invitacion
    BY <1>5, FilasDeInvitaciones DEF Despejadas
  <1>7. DOMAIN previas = DOMAIN invitaciones
        /\ previas = [j \in DOMAIN invitaciones |-> previas[j]]
        /\ \A j \in DOMAIN invitaciones : previas[j] \in Invitacion
    BY <1>3, <1>4, <1>6
  <1>8. previas \in Seq(Invitacion)
    BY <1>7, InvitacionesCambiadas
  <1>9. ASSUME NEW j \in DOMAIN invitaciones
        PROVE  /\ previas[j] \in {invitaciones[j], [invitaciones[j] EXCEPT !.estado = "REVOKED"]}
               /\ j <= visto /\ DeLaDireccion(previas[j], c, e) => previas[j].estado # "PENDING"
    <2>1. CASE j = i
      BY <1>2, <1>3, <2>1
    <2>2. CASE j # i
      BY <1>4, <1>5, <2>2 DEF Despejadas
    <2> QED BY <2>1, <2>2
  <1> QED BY <1>7, <1>8, <1>9 DEF Despejadas

-----------------------------------------------------------------------------
(* Types and the superseded invitations, endpoint by endpoint. *)

(* TiposCuentas but for the name in the log. *)
FilasFormadas ==
    /\ registradas \subseteq Usuarios
    /\ cuenta \in [Usuarios -> FilaDeCuenta]
    /\ perfil \in [Usuarios \X Empresas -> FilaDePerfil \cup {SinPerfil}]
    /\ invitaciones \in Seq(Invitacion)

(* What an invitation saw was stored before it. *)
VistoAntes == \A j \in DOMAIN invitaciones : invitaciones[j].visto < j

InvEnviadas == InvitacionSustituida /\ VistoAntes

Bien == FilasFormadas' /\ (InvEnviadas => InvEnviadas')

(* What a step makes of a row: a form wrote it, or it has its address and  *)
(* company, and is not pending again.                                      *)
Sigue(v, w) ==
    /\ w.visto = v.visto
    /\ ~w.editada =>
          /\ ~v.editada /\ w.correo = v.correo /\ w.empresa = v.empresa
          /\ w.estado = "PENDING" => v.estado = "PENDING"

LEMMA EnviadasSiguen ==
  ASSUME InvEnviadas, DOMAIN invitaciones' = DOMAIN invitaciones,
         \A i \in DOMAIN invitaciones : Sigue(invitaciones[i], invitaciones'[i])
  PROVE  InvEnviadas'
  BY DEF InvEnviadas, VistoAntes, InvitacionSustituida, Sigue, DeLaDireccion

LEMMA CrearBien ==
  ASSUME TiposCuentas, NEW c \in Correos, NEW u \in Usuarios, NEW e \in Empresas,
         NEW r \in Roles, NEW visto \in 0..Len(invitaciones),
         NEW previas, Despejadas(previas, c, e, visto), NEW heredado \in BOOLEAN,
         CrearInvitacion(c, u, e, r, previas, visto, heredado)
  PROVE  Bien
  <1> DEFINE nueva == [correo |-> c, usuario |-> u, empresa |-> e, rol |-> r,
                       estado |-> "PENDING", vencida |-> FALSE,
                       traslado |-> heredado \/ SeTraslada(u, e), visto |-> visto,
                       editada |-> FALSE]
             registro == [SinCuenta EXCEPT !.correo = c, !.empresa = e, !.rol = Legado[r]]
             suya == [estado |-> IF perfil[<<u, e>>].estado = "ACTIVE" /\ cuenta[u].activa
                                 THEN "ACTIVE" ELSE "PENDING",
                      rol |-> r]
  <1>0. Len(invitaciones) \in Nat /\ visto \in Nat
    BY FilasDeInvitaciones DEF TiposCuentas
  <1>1. nueva \in Invitacion
    BY <1>0 DEF Invitacion, SeTraslada
  <1>2. registro \in FilaDeCuenta
    BY DEF FilaDeCuenta, SinCuenta, EstadosAcceso, Ambitos
  <1>3. suya \in FilaDePerfil
    BY DEF FilaDePerfil, EstadosPerfil
  <1>4. /\ invitaciones' = Append(previas, nueva)
        /\ registradas' = registradas \cup {u}
        /\ cuenta' = IF u \in registradas THEN cuenta ELSE [cuenta EXCEPT ![u] = registro]
        /\ perfil' = [perfil EXCEPT ![<<u, e>>] = suya]
    BY DEF CrearInvitacion
  <1>5. nueva.correo = c /\ nueva.empresa = e /\ nueva.visto = visto
    OBVIOUS
  <1> HIDE DEF nueva, registro, suya
  <1>6. cuenta' \in [Usuarios -> FilaDeCuenta]
    BY <1>2, <1>4 DEF TiposCuentas
  <1>7. perfil' \in [Usuarios \X Empresas -> FilaDePerfil \cup {SinPerfil}]
    BY <1>3, <1>4 DEF TiposCuentas
  <1>8. /\ previas \in Seq(Invitacion) /\ DOMAIN previas = DOMAIN invitaciones
        /\ DOMAIN previas = 1..Len(previas) /\ Len(previas) \in Nat
        /\ Len(previas) = Len(invitaciones)
    BY FilasDeInvitaciones DEF Despejadas, TiposCuentas
  <1>9. invitaciones' \in Seq(Invitacion) /\ DOMAIN invitaciones' = 1..(Len(previas) + 1)
        /\ invitaciones'[Len(previas) + 1] = nueva
        /\ \A i \in 1..Len(previas) : invitaciones'[i] = previas[i]
    BY <1>1, <1>4, <1>8, AppendProperties
  <1>10. ASSUME InvEnviadas PROVE InvEnviadas'
    <2>1. ASSUME NEW i \in 1..Len(previas)
          PROVE  /\ Sigue(invitaciones[i], previas[i])
                 /\ i <= visto /\ DeLaDireccion(previas[i], c, e) => previas[i].estado # "PENDING"
      <3>1. invitaciones[i] \in Invitacion
        BY <1>8, FilasDeInvitaciones DEF TiposCuentas
      <3>2. previas[i] \in {invitaciones[i], [invitaciones[i] EXCEPT !.estado = "REVOKED"]}
            /\ (i <= visto /\ DeLaDireccion(previas[i], c, e) => previas[i].estado # "PENDING")
        BY <1>8 DEF Despejadas
      <3> QED BY <3>1, <3>2 DEF Sigue, Invitacion
    <2>2. VistoAntes'
      BY <1>0, <1>5, <1>8, <1>9, <1>10, <2>1 DEF InvEnviadas, VistoAntes, Sigue
    <2>3. InvitacionSustituida'
      <3> SUFFICES ASSUME NEW i \in DOMAIN invitaciones', NEW j \in DOMAIN invitaciones',
                          i <= invitaciones'[j].visto,
                          DeLaDireccion(invitaciones'[i], invitaciones'[j].correo,
                                        invitaciones'[j].empresa),
                          ~invitaciones'[i].editada, ~invitaciones'[j].editada
                   PROVE  invitaciones'[i].estado # "PENDING"
        BY DEF InvitacionSustituida
      <3>0. invitaciones'[j] \in Invitacion
        BY <1>9, FilasDeInvitaciones
      <3>1. invitaciones'[j].visto < j /\ invitaciones'[j].visto \in Nat /\ i \in Nat /\ j \in Nat
        BY <1>8, <1>9, <2>2, <3>0 DEF VistoAntes, Invitacion
      <3>2. i \in 1..Len(previas) /\ invitaciones'[i] = previas[i]
        BY <1>8, <1>9, <3>1
      <3>3. CASE j = Len(previas) + 1
        BY <1>5, <1>9, <2>1, <3>2, <3>3
      <3>4. CASE j \in 1..Len(previas)
        <4>1. invitaciones'[j] = previas[j] /\ Sigue(invitaciones[j], previas[j])
          BY <1>9, <2>1, <3>4
        <4>2. Sigue(invitaciones[i], previas[i])
          BY <2>1, <3>2
        <4> QED BY <1>8, <1>10, <3>2, <3>4, <4>1, <4>2
                DEF InvEnviadas, InvitacionSustituida, Sigue, DeLaDireccion
      <3> QED BY <1>8, <1>9, <3>3, <3>4
    <2> QED BY <2>2, <2>3 DEF InvEnviadas
  <1> QED BY <1>4, <1>6, <1>7, <1>9, <1>10 DEF Bien, FilasFormadas, TiposCuentas

(* One invitation changes, and is no pending one again. *)
LEMMA CambiarInvitacion ==
  ASSUME TiposCuentas, NEW i \in DOMAIN invitaciones, NEW registro \in Invitacion,
         Sigue(invitaciones[i], registro),
         invitaciones' = [invitaciones EXCEPT ![i] = registro]
  PROVE  invitaciones' \in Seq(Invitacion) /\ (InvEnviadas => InvEnviadas')
  <1>1. \A j \in DOMAIN invitaciones : invitaciones[j] \in Invitacion
    BY FilasDeInvitaciones DEF TiposCuentas
  <1>2. invitaciones' \in Seq(Invitacion)
    BY InvitacionesCambiadas, <1>1
  <1>3. DOMAIN invitaciones' = DOMAIN invitaciones /\ invitaciones'[i] = registro
        /\ \A j \in DOMAIN invitaciones \ {i} : invitaciones'[j] = invitaciones[j]
    OBVIOUS
  <1>4. \A j \in DOMAIN invitaciones : Sigue(invitaciones[j], invitaciones'[j])
    BY <1>3 DEF Sigue
  <1> QED BY <1>2, <1>3, <1>4, EnviadasSiguen

LEMMA MarcarInvitacion ==
  ASSUME TiposCuentas, NEW i \in DOMAIN invitaciones, NEW estado \in {"ACCEPTED", "REVOKED"},
         invitaciones' = [invitaciones EXCEPT ![i].estado = estado]
  PROVE  invitaciones' \in Seq(Invitacion) /\ (InvEnviadas => InvEnviadas')
  <1> DEFINE registro == [invitaciones[i] EXCEPT !.estado = estado]
  <1>1. invitaciones[i] \in Invitacion
    BY FilasDeInvitaciones DEF TiposCuentas
  <1>2. registro \in Invitacion /\ Sigue(invitaciones[i], registro)
    BY <1>1 DEF Invitacion, Sigue
  <1>3. invitaciones' = [invitaciones EXCEPT ![i] = registro]
    OBVIOUS
  <1> HIDE DEF registro
  <1> QED BY <1>2, <1>3, CambiarInvitacion

(* What ConEstado writes. *)
LEMMA PerfilesConEstado ==
  ASSUME TiposCuentas, NEW u \in Usuarios, NEW es, \A e \in es : e \in Empresas /\ Tiene(u, e),
         NEW estado \in EstadosPerfil
  PROVE  /\ ConEstado(u, es, estado) \in [Usuarios \X Empresas -> FilaDePerfil \cup {SinPerfil}]
         /\ \A x \in Usuarios \X Empresas :
               /\ ConEstado(u, es, estado)[x].rol = perfil[x].rol
               /\ ~(x[1] = u /\ x[2] \in es) => ConEstado(u, es, estado)[x] = perfil[x]
  <1>1. DOMAIN perfil = Usuarios \X Empresas
    BY DEF TiposCuentas
  <1>2. ASSUME NEW x \in Usuarios \X Empresas
        PROVE  /\ ConEstado(u, es, estado)[x] \in FilaDePerfil \cup {SinPerfil}
               /\ ConEstado(u, es, estado)[x].rol = perfil[x].rol
               /\ ~(x[1] = u /\ x[2] \in es) => ConEstado(u, es, estado)[x] = perfil[x]
    <2>1. CASE x[1] = u /\ x[2] \in es
      <3>1. x = <<u, x[2]>>
        BY <1>2, <2>1
      <3>2. perfil[x] \in FilaDePerfil
        BY <2>1, <3>1 DEF TiposCuentas, Tiene
      <3>3. ConEstado(u, es, estado)[x] = [perfil[x] EXCEPT !.estado = estado]
        BY <1>1, <2>1 DEF ConEstado
      <3> QED BY <2>1, <3>2, <3>3 DEF FilaDePerfil
    <2>2. CASE ~(x[1] = u /\ x[2] \in es)
      <3>1. ConEstado(u, es, estado)[x] = perfil[x]
        BY <1>1, <2>2 DEF ConEstado
      <3> QED BY <2>2, <3>1 DEF TiposCuentas
    <2> QED BY <2>1, <2>2
  <1>3. ConEstado(u, es, estado) = [x \in Usuarios \X Empresas |-> ConEstado(u, es, estado)[x]]
    BY <1>1 DEF ConEstado
  <1> QED BY <1>2, <1>3

(* The endpoints that only create. *)
LEMMA InvitarBien ==
  ASSUME TiposCuentas, NEW c \in Correos, NEW u \in Usuarios, NEW e \in Empresas, NEW r \in Roles,
         NEW traslada, CrearDesde(c, u, e, r, traslada)
  PROVE  Bien
  <1>1. Normalizado[c] \in Correos
    BY PedidosTipados
  <1>2. PICK visto \in 0..Len(invitaciones) :
            CrearInvitacion(Normalizado[c], u, e, r, Revocadas(Normalizado[c], e, visto), visto, FALSE)
    BY DEF CrearDesde
  <1> QED BY <1>1, <1>2, RevocadasDespejan, CrearBien

(* The rows and types of an invitation that is sent again or accepted. *)
LEMMA InvitacionConocida ==
  ASSUME TiposCuentas, NEW i \in DOMAIN invitaciones
  PROVE  /\ invitaciones[i] \in Invitacion /\ invitaciones[i].correo \in Correos
         /\ invitaciones[i].usuario \in Usuarios /\ invitaciones[i].empresa \in Empresas
         /\ invitaciones[i].rol \in Roles /\ invitaciones[i].traslado \in BOOLEAN
  BY FilasDeInvitaciones DEF TiposCuentas, Invitacion

(* Sending an invitation again either creates one or only revokes it. *)
LEMMA AlReenviar ==
  ASSUME TiposCuentas, NEW a, NEW i \in DOMAIN invitaciones, NEW u \in Usuarios, Reenviar(a, i, u)
  PROVE  LET v == invitaciones[i]
             c == Normalizado[v.correo]
         IN  \/ /\ c \in Correos /\ Invitable(u, v.empresa, v.rol, v.traslado /\ EsGlobal(a))
                /\ \E visto \in 0..Len(invitaciones), previas \in Seq(Invitacion) :
                      /\ Despejadas(previas, c, v.empresa, visto)
                      /\ CrearInvitacion(c, u, v.empresa, v.rol, previas, visto, v.traslado)
             \/ /\ invitaciones' = [invitaciones EXCEPT ![i].estado = "REVOKED"]
                /\ UNCHANGED <<registradas, cuenta, perfil>>
  <1> DEFINE v == invitaciones[i]
             c == Normalizado[v.correo]
             tras == [invitaciones EXCEPT ![i].estado = "REVOKED"]
             previas(visto) == [j \in DOMAIN tras |-> IF j = i THEN tras[j]
                                                      ELSE Revocadas(c, v.empresa, visto)[j]]
  <1>1. c \in Correos
    BY InvitacionConocida, PedidosTipados
  <1>2. i \in 1..Len(invitaciones) /\ Len(invitaciones) \in Nat
    BY FilasDeInvitaciones DEF TiposCuentas
  <1>3. CASE Invitable(u, v.empresa, v.rol, v.traslado /\ EsGlobal(a))
    <2>1. PICK visto \in i..Len(invitaciones) :
              CrearInvitacion(c, u, v.empresa, v.rol, previas(visto), visto, v.traslado)
      BY <1>3 DEF Reenviar
    <2>2. visto \in 0..Len(invitaciones)
      BY <1>2
    <2>3. previas(visto) = [j \in DOMAIN invitaciones |->
              IF j = i THEN [invitaciones EXCEPT ![i].estado = "REVOKED"][j]
              ELSE Revocadas(c, v.empresa, visto)[j]]
      OBVIOUS
    <2> HIDE DEF previas, c
    <2>4. Despejadas(previas(visto), c, v.empresa, visto)
      BY <2>3, ReenvioDespeja
    <2>5. previas(visto) \in Seq(Invitacion)
      BY <2>4 DEF Despejadas
    <2> QED BY <1>1, <1>3, <2>1, <2>2, <2>4, <2>5 DEF c
  <1>4. CASE ~Invitable(u, v.empresa, v.rol, v.traslado /\ EsGlobal(a))
    BY <1>4 DEF Reenviar
  <1> QED BY <1>3, <1>4

LEMMA ReenviarBien ==
  ASSUME TiposCuentas, NEW a, NEW i \in DOMAIN invitaciones, NEW u \in Usuarios, Reenviar(a, i, u)
  PROVE  Bien
  <1> DEFINE v == invitaciones[i]
             c == Normalizado[v.correo]
  <1>1. v.empresa \in Empresas /\ v.rol \in Roles /\ v.traslado \in BOOLEAN
    BY InvitacionConocida
  <1>2. ASSUME c \in Correos, NEW visto \in 0..Len(invitaciones), NEW previas \in Seq(Invitacion),
               Despejadas(previas, c, v.empresa, visto),
               CrearInvitacion(c, u, v.empresa, v.rol, previas, visto, v.traslado)
        PROVE  Bien
    <2> HIDE DEF c, v
    <2> QED BY <1>1, <1>2, CrearBien
  <1>3. ASSUME invitaciones' = [invitaciones EXCEPT ![i].estado = "REVOKED"],
               UNCHANGED <<registradas, cuenta, perfil>>
        PROVE  Bien
    BY <1>3, MarcarInvitacion DEF Bien, FilasFormadas, TiposCuentas
  <1> QED BY <1>2, <1>3, AlReenviar

LEMMA RevocarBien ==
  ASSUME TiposCuentas, NEW a, NEW i \in DOMAIN invitaciones, Revocar(a, i)
  PROVE  Bien
  BY MarcarInvitacion DEF Revocar, Bien, FilasFormadas, TiposCuentas

LEMMA EditarInvitacionBien ==
  ASSUME TiposCuentas, NEW a, NEW i \in DOMAIN invitaciones, NEW ficha \in FichasPedidas,
         EditarInvitacion(a, i, ficha)
  PROVE  Bien
  <1> DEFINE registro == [invitaciones[i] EXCEPT !.correo = ficha.correo, !.empresa = ficha.empresa,
                             !.rol = ficha.rol, !.vencida = ficha.vencida,
                             !.traslado = ficha.traslado, !.editada = TRUE]
  <1>1. ficha \in Ficha
    BY PedidosTipados
  <1>2. registro \in Invitacion /\ Sigue(invitaciones[i], registro)
    BY <1>1, InvitacionConocida DEF Invitacion, Ficha, Sigue
  <1>3. invitaciones' = [invitaciones EXCEPT ![i] = registro]
        /\ UNCHANGED <<registradas, cuenta, perfil>>
    BY DEF EditarInvitacion
  <1> HIDE DEF registro
  <1> QED BY <1>2, <1>3, CambiarInvitacion DEF Bien, FilasFormadas, TiposCuentas

LEMMA RolAlReinvitarConocido ==
  ASSUME TiposCuentas, NEW u \in Usuarios, NEW e \in Empresas, NEW pedido
  PROVE  RolAlReinvitar(u, e, pedido) \subseteq Roles
  <1>1. Tiene(u, e) => perfil[u, e].rol \in Roles
    BY DEF TiposCuentas, Tiene, FilaDePerfil
  <1> QED BY <1>1 DEF RolAlReinvitar

LEMMA VencerBien ==
  ASSUME TiposCuentas, NEW i \in DOMAIN invitaciones, Vencer(i)
  PROVE  Bien
  <1> DEFINE registro == [invitaciones[i] EXCEPT !.vencida = TRUE]
  <1>1. registro \in Invitacion /\ Sigue(invitaciones[i], registro)
    BY InvitacionConocida DEF Invitacion, Sigue
  <1>2. invitaciones' = [invitaciones EXCEPT ![i] = registro] /\ UNCHANGED <<registradas, cuenta, perfil>>
    BY DEF Vencer
  <1> HIDE DEF registro
  <1> QED BY <1>1, <1>2, CambiarInvitacion DEF Bien, FilasFormadas, TiposCuentas

LEMMA AceptarBien ==
  ASSUME TiposCuentas, NEW i \in DOMAIN invitaciones, Aceptar(i)
  PROVE  Bien
  <1> DEFINE v == invitaciones[i]
             registro == [cuenta[v.usuario] EXCEPT !.empresa = v.empresa, !.rol = Legado[v.rol],
                                               !.activa = TRUE, !.acceso = "ACTIVE"]
             suya == [estado |-> "ACTIVE", rol |-> v.rol]
             otras == IF v.traslado THEN ConEstado(v.usuario, PerfilesDe(v.usuario), "REMOVED")
                      ELSE perfil
  <1>1. v.usuario \in Usuarios /\ v.empresa \in Empresas /\ v.rol \in Roles
    BY InvitacionConocida
  <1>2. cuenta[v.usuario] \in FilaDeCuenta
    BY <1>1 DEF TiposCuentas
  <1>3. registro \in FilaDeCuenta
    BY <1>1, <1>2 DEF FilaDeCuenta, EstadosAcceso
  <1>4. suya \in FilaDePerfil
    BY <1>1 DEF FilaDePerfil, EstadosPerfil
  <1>5. otras \in [Usuarios \X Empresas -> FilaDePerfil \cup {SinPerfil}]
    <2>1. "REMOVED" \in EstadosPerfil
      BY DEF EstadosPerfil
    <2>2. \A e \in PerfilesDe(v.usuario) : e \in Empresas /\ Tiene(v.usuario, e)
      BY DEF PerfilesDe
    <2>3. ConEstado(v.usuario, PerfilesDe(v.usuario), "REMOVED")
              \in [Usuarios \X Empresas -> FilaDePerfil \cup {SinPerfil}]
      BY <1>1, <2>1, <2>2, PerfilesConEstado
    <2> QED BY <2>3 DEF TiposCuentas
  <1>6. /\ invitaciones' = [invitaciones EXCEPT ![i].estado = "ACCEPTED"]
        /\ cuenta' = [cuenta EXCEPT ![v.usuario] = registro]
        /\ perfil' = [otras EXCEPT ![<<v.usuario, v.empresa>>] = suya]
        /\ UNCHANGED registradas
    BY DEF Aceptar
  <1> HIDE DEF registro, suya, otras
  <1>7. invitaciones' \in Seq(Invitacion) /\ (InvEnviadas => InvEnviadas')
    BY <1>6, MarcarInvitacion
  <1>8. cuenta' \in [Usuarios -> FilaDeCuenta]
    BY <1>1, <1>3, <1>6 DEF TiposCuentas
  <1>9. perfil' \in [Usuarios \X Empresas -> FilaDePerfil \cup {SinPerfil}]
    BY <1>1, <1>4, <1>5, <1>6
  <1> QED BY <1>6, <1>7, <1>8, <1>9 DEF Bien, FilasFormadas, TiposCuentas

(* The endpoints that leave the invitations alone. *)
LEMMA SinInvitacionBien ==
  ASSUME TiposCuentas, UNCHANGED <<registradas, invitaciones>>,
         cuenta' \in [Usuarios -> FilaDeCuenta],
         perfil' \in [Usuarios \X Empresas -> FilaDePerfil \cup {SinPerfil}]
  PROVE  Bien
  BY DEF Bien, FilasFormadas, TiposCuentas, InvEnviadas, VistoAntes, InvitacionSustituida

LEMMA CuentaEscrita ==
  ASSUME TiposCuentas, NEW u \in Usuarios, NEW correo \in Correos, NEW activa \in BOOLEAN,
         NEW acceso \in EstadosAcceso, NEW ambito \in Ambitos
  PROVE  [cuenta EXCEPT ![u] = [@ EXCEPT !.correo = correo, !.activa = activa, !.acceso = acceso,
                                         !.ambito = ambito]] \in [Usuarios -> FilaDeCuenta]
  <1> DEFINE registro == [cuenta[u] EXCEPT !.correo = correo, !.activa = activa, !.acceso = acceso,
                                           !.ambito = ambito]
  <1>1. cuenta[u] \in FilaDeCuenta
    BY DEF TiposCuentas
  <1>2. registro \in FilaDeCuenta
    BY <1>1 DEF FilaDeCuenta
  <1> HIDE DEF registro
  <1>3. [cuenta EXCEPT ![u] = registro] \in [Usuarios -> FilaDeCuenta]
    BY <1>2 DEF TiposCuentas
  <1> QED BY <1>3 DEF registro

(* Blocking, unblocking and the rest: the access columns of one account and *)
(* the state of the profiles somebody may reach.                            *)
Acceso(a, u) ==
    \/ Bloquear(a, u) \/ Desbloquear(a, u) \/ SoloLectura(a, u) \/ RestaurarEscritura(a, u)
    \/ Desactivar(a, u) \/ Reactivar(a, u) \/ EliminarCuenta(a, u)

LEMMA AccesoCuenta ==
  ASSUME TiposCuentas, NEW a, NEW u \in Usuarios, Acceso(a, u)
  PROVE  /\ cuenta' \in [Usuarios -> FilaDeCuenta]
         /\ \A w \in Usuarios \ {u} : cuenta'[w] = cuenta[w]
         /\ UNCHANGED <<registradas, invitaciones>>
  <1>1. Ambito(a) \in Ambitos /\ {"NONE", "GLOBAL", "COMPANY"} \subseteq Ambitos
        /\ {"ACTIVE", "BLOCKED", "READ_ONLY", "DISABLED"} \subseteq EstadosAcceso
    BY DEF Ambito, Ambitos, EstadosAcceso
  <1>2. cuenta[u] \in FilaDeCuenta
    BY DEF TiposCuentas
  <1>3. PICK activa \in BOOLEAN, acceso \in EstadosAcceso, ambito \in Ambitos :
            cuenta' = [cuenta EXCEPT ![u].activa = activa, ![u].acceso = acceso, ![u].ambito = ambito]
    <2>1. cuenta[u].activa \in BOOLEAN /\ cuenta[u].acceso \in EstadosAcceso
          /\ cuenta[u].ambito \in Ambitos
      BY <1>2 DEF FilaDeCuenta
    <2>2. CASE Bloquear(a, u)
      BY <1>1, <2>2 DEF Bloquear
    <2>3. CASE Desbloquear(a, u)
      BY <1>1, <2>3 DEF Desbloquear
    <2>4. CASE SoloLectura(a, u)
      BY <1>1, <2>4 DEF SoloLectura
    <2>5. CASE RestaurarEscritura(a, u)
      <3>1. cuenta' = [cuenta EXCEPT ![u].activa = cuenta[u].activa, ![u].acceso = "ACTIVE",
                                     ![u].ambito = "NONE"]
        BY <1>2, <2>5 DEF RestaurarEscritura, TiposCuentas, FilaDeCuenta
      <3> QED BY <1>1, <2>1, <3>1
    <2>6. CASE Desactivar(a, u) \/ EliminarCuenta(a, u)
      <3>1. cuenta' = [cuenta EXCEPT ![u].activa = FALSE, ![u].acceso = "DISABLED",
                                     ![u].ambito = cuenta[u].ambito]
        BY <1>2, <2>6 DEF Desactivar, EliminarCuenta, TiposCuentas, FilaDeCuenta
      <3> QED BY <1>1, <2>1, <3>1
    <2>7. CASE Reactivar(a, u)
      BY <1>1, <2>7 DEF Reactivar
    <2> QED BY <2>2, <2>3, <2>4, <2>5, <2>6, <2>7 DEF Acceso
  <1>4. [cuenta[u] EXCEPT !.activa = activa, !.acceso = acceso, !.ambito = ambito] \in FilaDeCuenta
    BY <1>2 DEF FilaDeCuenta
  <1>5. cuenta' \in [Usuarios -> FilaDeCuenta] /\ \A w \in Usuarios \ {u} : cuenta'[w] = cuenta[w]
    BY <1>3, <1>4 DEF TiposCuentas
  <1>6. UNCHANGED <<registradas, invitaciones>>
    BY DEF Acceso, Bloquear, Desbloquear, SoloLectura, RestaurarEscritura, Desactivar, Reactivar,
           EliminarCuenta
  <1> QED BY <1>5, <1>6

(* The profiles an actor's request on an account reaches. *)
LEMMA PerfilesAlcanzados ==
  ASSUME TiposCuentas, NEW a, NEW u \in Usuarios, NEW es, NEW estado \in EstadosPerfil,
         perfil' = ConEstado(u, es, estado),
         \A e \in es : e \in Empresas /\ Tiene(u, e) /\ (~EsGlobal(a) => e = a)
  PROVE  /\ perfil' \in [Usuarios \X Empresas -> FilaDePerfil \cup {SinPerfil}]
         /\ \A x \in Usuarios \X Empresas : perfil'[x].rol = perfil[x].rol
         /\ ~EsGlobal(a) => \A x \in Usuarios \X Empresas : x[2] # a => perfil'[x] = perfil[x]
  <1>1. \A e \in es : e \in Empresas /\ Tiene(u, e)
    OBVIOUS
  <1>2. /\ ConEstado(u, es, estado) \in [Usuarios \X Empresas -> FilaDePerfil \cup {SinPerfil}]
        /\ \A x \in Usuarios \X Empresas :
              /\ ConEstado(u, es, estado)[x].rol = perfil[x].rol
              /\ ~(x[1] = u /\ x[2] \in es) => ConEstado(u, es, estado)[x] = perfil[x]
    BY <1>1, PerfilesConEstado
  <1>3. ~EsGlobal(a) => \A d : d # a => d \notin es
    OBVIOUS
  <1> QED BY <1>2, <1>3

LEMMA AccesoPerfiles ==
  ASSUME TiposCuentas, NEW a, NEW u \in Usuarios, Acceso(a, u)
  PROVE  /\ perfil' \in [Usuarios \X Empresas -> FilaDePerfil \cup {SinPerfil}]
         /\ \A x \in Usuarios \X Empresas : perfil'[x].rol = perfil[x].rol
         /\ ~EsGlobal(a) => \A x \in Usuarios \X Empresas : x[2] # a => perfil'[x] = perfil[x]
  <1>1. "ACTIVE" \in EstadosPerfil /\ "BLOCKED" \in EstadosPerfil
        /\ "READ_ONLY" \in EstadosPerfil /\ "REMOVED" \in EstadosPerfil
    BY DEF EstadosPerfil
  <1>2. \A e \in PerfilesQueAlcanza(a, u) :
            e \in Empresas /\ Tiene(u, e) /\ (~EsGlobal(a) => e = a)
    BY DEF PerfilesQueAlcanza, PerfilesDe, Alcanza
  <1>3. CASE Bloquear(a, u)
    <2>1. perfil' = ConEstado(u, PerfilesQueAlcanza(a, u), "BLOCKED")
      BY <1>3 DEF Bloquear
    <2> QED BY <1>1, <1>2, <2>1, PerfilesAlcanzados
  <1>4. CASE Desbloquear(a, u) \/ RestaurarEscritura(a, u)
    <2>1. perfil' = ConEstado(u, PerfilesQueAlcanza(a, u), "ACTIVE")
      BY <1>4 DEF Desbloquear, RestaurarEscritura
    <2> QED BY <1>1, <1>2, <2>1, PerfilesAlcanzados
  <1>5. CASE SoloLectura(a, u)
    <2>1. perfil' = ConEstado(u, PerfilesQueAlcanza(a, u), "READ_ONLY")
      BY <1>5 DEF SoloLectura
    <2> QED BY <1>1, <1>2, <2>1, PerfilesAlcanzados
  <1>6. CASE Desactivar(a, u)
    <2>1. perfil' = ConEstado(u, PerfilesQueAlcanza(a, u), "REMOVED")
      BY <1>6 DEF Desactivar
    <2> QED BY <1>1, <1>2, <2>1, PerfilesAlcanzados
  <1>7. CASE Reactivar(a, u)
    <2> DEFINE es == {e \in Empresas : e = cuenta[u].empresa /\ Tiene(u, e)}
    <2>1. perfil' = ConEstado(u, es, "ACTIVE")
      BY <1>7 DEF Reactivar
    <2>2. \A e \in es : e \in Empresas /\ Tiene(u, e) /\ (~EsGlobal(a) => e = a)
      BY <1>7 DEF Reactivar, CuentaAlcanzable, Alcanza
    <2> HIDE DEF es
    <2> QED BY <1>1, <2>1, <2>2, PerfilesAlcanzados
  <1>8. CASE EliminarCuenta(a, u)
    <2>1. EsGlobal(a) /\ perfil' = ConEstado(u, PerfilesDe(u), "REMOVED")
      BY <1>8 DEF EliminarCuenta, Permitido, CodigosAdminEmpresa
    <2>2. \A e \in PerfilesDe(u) : e \in Empresas /\ Tiene(u, e) /\ (~EsGlobal(a) => e = a)
      BY <2>1 DEF PerfilesDe
    <2> QED BY <1>1, <2>1, <2>2, PerfilesAlcanzados
  <1> QED BY <1>3, <1>4, <1>5, <1>6, <1>7, <1>8 DEF Acceso

LEMMA AccesoBien ==
  ASSUME TiposCuentas, NEW a, NEW u \in Usuarios, Acceso(a, u)
  PROVE  Bien
  BY AccesoCuenta, AccesoPerfiles, SinInvitacionBien

LEMMA EditarCuentaBien ==
  ASSUME TiposCuentas, NEW a, NEW u \in Usuarios, NEW pedido \in AccesosPedidos,
         EditarCuenta(a, u, pedido)
  PROVE  Bien
  <1>1. pedido.correo \in Correos /\ pedido.activa \in BOOLEAN /\ pedido.acceso \in EstadosAcceso
        /\ pedido.ambito \in Ambitos
    BY PedidosTipados
  <1>2. cuenta' \in [Usuarios -> FilaDeCuenta]
    BY <1>1, CuentaEscrita DEF EditarCuenta
  <1> QED BY <1>2, SinInvitacionBien DEF EditarCuenta, TiposCuentas

-----------------------------------------------------------------------------
(* The forms of the profiles. *)

LEMMA CrearPerfilBien ==
  ASSUME TiposCuentas, NEW a, NEW u \in Usuarios, NEW e \in Empresas, NEW r \in Roles,
         NEW estado \in EstadosPedidos, CrearPerfil(a, u, e, r, estado)
  PROVE  Bien
  <1>1. [estado |-> estado, rol |-> r] \in FilaDePerfil
    BY PedidosTipados DEF FilaDePerfil
  <1>2. perfil' \in [Usuarios \X Empresas -> FilaDePerfil \cup {SinPerfil}]
    BY <1>1 DEF CrearPerfil, TiposCuentas
  <1> QED BY <1>2, SinInvitacionBien DEF CrearPerfil, TiposCuentas

LEMMA EditarPerfilBien ==
  ASSUME TiposCuentas, NEW a, NEW u \in Usuarios, NEW e \in Empresas, NEW u2 \in Usuarios,
         NEW e2 \in Empresas, NEW r \in Roles, NEW estado \in EstadosPedidos,
         EditarPerfil(a, u, e, u2, e2, r, estado)
  PROVE  Bien
  <1>1. [estado |-> estado, rol |-> r] \in FilaDePerfil
    BY PedidosTipados DEF FilaDePerfil
  <1>2. perfil' \in [Usuarios \X Empresas -> FilaDePerfil \cup {SinPerfil}]
    BY <1>1 DEF EditarPerfil, TiposCuentas
  <1> QED BY <1>2, SinInvitacionBien DEF EditarPerfil, TiposCuentas

LEMMA RetirarPerfilBien ==
  ASSUME TiposCuentas, NEW a, NEW u \in Usuarios, NEW e \in Empresas, RetirarPerfil(a, u, e)
  PROVE  /\ Bien
         /\ \A x \in Usuarios \X Empresas : perfil'[x].rol = perfil[x].rol
         /\ ~EsGlobal(a) => \A x \in Usuarios \X Empresas : x[2] # a => perfil'[x] = perfil[x]
  <1>1. "REMOVED" \in EstadosPerfil /\ "DISABLED" \in EstadosAcceso
    BY DEF EstadosPerfil, EstadosAcceso
  <1>2. /\ perfil' \in [Usuarios \X Empresas -> FilaDePerfil \cup {SinPerfil}]
        /\ \A x \in Usuarios \X Empresas : perfil'[x].rol = perfil[x].rol
        /\ ~EsGlobal(a) => \A x \in Usuarios \X Empresas : x[2] # a => perfil'[x] = perfil[x]
    <2> DEFINE es == {e}
    <2>1. perfil' = ConEstado(u, es, "REMOVED")
      BY DEF RetirarPerfil
    <2>2. \A d \in es : d \in Empresas /\ Tiene(u, d) /\ (~EsGlobal(a) => d = a)
      BY DEF RetirarPerfil, Alcanza
    <2> HIDE DEF es
    <2> QED BY <1>1, <2>1, <2>2, PerfilesAlcanzados
  <1>3. cuenta[u] \in FilaDeCuenta
    BY DEF TiposCuentas
  <1>4. [cuenta[u] EXCEPT !.activa = FALSE, !.acceso = "DISABLED"] \in FilaDeCuenta
    BY <1>1, <1>3 DEF FilaDeCuenta
  <1>5. cuenta' \in [Usuarios -> FilaDeCuenta]
    BY <1>4 DEF RetirarPerfil, TiposCuentas
  <1> QED BY <1>2, <1>5, SinInvitacionBien DEF RetirarPerfil

-----------------------------------------------------------------------------
LEMMA CuentasPaso ==
  TiposCuentas /\ NextCuentas => TiposCuentas' /\ (InvEnviadas => InvEnviadas')
  <1> SUFFICES ASSUME TiposCuentas, NextCuentas
               PROVE  TiposCuentas' /\ (InvEnviadas => InvEnviadas')
    OBVIOUS
  <1>1. ASSUME NEW a \in Actores, PasoSobreInvitacion(a) PROVE Bien
    <2>1. ASSUME NEW c \in Correos, NEW u \in Usuarios, NEW e \in Empresas, NEW r \in Roles,
                 NEW traslada \in BOOLEAN,
                 Invitar(a, c, u, e, r, traslada) \/ InvitarAdmin(a, c, u, e, r, traslada)
          PROVE  Bien
      BY <2>1, InvitarBien DEF Invitar, InvitarAdmin
    <2>2. ASSUME NEW i \in DOMAIN invitaciones, NEW u \in Usuarios, Reenviar(a, i, u) PROVE Bien
      BY <2>2, ReenviarBien
    <2>3. ASSUME NEW u \in Usuarios, NEW d \in Usuarios, NEW e \in Empresas, NEW pedido,
                 Reinvitar(a, u, d, e, pedido)
          PROVE  Bien
      BY <2>3, RolAlReinvitarConocido, InvitarBien DEF Reinvitar
    <2> QED BY <1>1, <2>1, <2>2, <2>3 DEF PasoSobreInvitacion
  <1>6. ASSUME NEW a \in Actores, PasoSobreEnviadas(a) PROVE Bien
    BY <1>6, RevocarBien, EditarInvitacionBien DEF PasoSobreEnviadas
  <1>2. ASSUME NEW a \in Actores, PasoSobrePerfil(a) PROVE Bien
    BY <1>2, CrearPerfilBien, EditarPerfilBien, RetirarPerfilBien DEF PasoSobrePerfil
  <1>3. ASSUME NEW a \in Actores, PasoSobreCuenta(a) PROVE Bien
    BY <1>3, AccesoBien, EditarCuentaBien DEF PasoSobreCuenta, Acceso
  <1>4. ASSUME NEW i \in DOMAIN invitaciones, Vencer(i) \/ Aceptar(i) PROVE Bien
    BY <1>4, VencerBien, AceptarBien
  <1>5. Bien /\ autor' \in Actores \cup {Nadie}
    BY <1>1, <1>2, <1>3, <1>4, <1>6 DEF NextCuentas
  <1> QED BY <1>5 DEF Bien, FilasFormadas, TiposCuentas

(* Every row keeps its form (the tables of users/api/models). *)
THEOREM CuentasTipadas == SpecCuentas => []TiposCuentas
  <1>1. InitCuentas => TiposCuentas
    BY DEF InitCuentas, TiposCuentas, SinCuenta, FilaDeCuenta, EstadosAcceso, Ambitos
  <1>2. TiposCuentas /\ UNCHANGED varsCuentas => TiposCuentas'
    BY DEF varsCuentas, TiposCuentas
  <1> QED BY <1>1, <1>2, CuentasPaso, PTL DEF SpecCuentas

(* For any people, addresses, companies and number of invitations: what an *)
(* invitation saw pending for its address and company is superseded for    *)
(* good, by whichever endpoint it came to be (create_invitation revokes    *)
(* the pending ones first).                                                *)
THEOREM InvitacionSiempreSustituida == SpecCuentas => []InvitacionSustituida
  <1>1. InitCuentas => InvEnviadas
    BY DEF InitCuentas, InvEnviadas, VistoAntes, InvitacionSustituida
  <1>2. InvEnviadas /\ UNCHANGED varsCuentas => InvEnviadas'
    BY DEF varsCuentas, InvEnviadas, VistoAntes, InvitacionSustituida, DeLaDireccion
  <1>3. InvEnviadas => InvitacionSustituida
    BY DEF InvEnviadas
  <1> QED BY <1>1, <1>2, <1>3, CuentasPaso, CuentasTipadas, PTL DEF SpecCuentas

-----------------------------------------------------------------------------
(* The administrator of a client company. *)

Dentro(a) == EmpresaAjenaIntacta(a) /\ RolDeEmpresa(a)

LEMMA NoEsGlobal ==
  ASSUME NEW a \in Clientes
  PROVE  a # Global /\ ~EsGlobal(a) /\ a \notin Internas /\ a \in Empresas
  BY EmpresasAparte DEF EsGlobal, Empresas

LEMMA DentroSinInvitar ==
  ASSUME TiposCuentas, NEW a \in Clientes,
         \A w \in registradas : cuenta[w].empresa # a => cuenta'[w] = cuenta[w],
         DOMAIN perfil' = DOMAIN perfil,
         \A x \in Usuarios \X Empresas : x[2] # a => perfil'[x] = perfil[x],
         \A x \in Usuarios \X Empresas :
             perfil'[x].rol \notin {"ninguno", perfil[x].rol} => Alcance[perfil'[x].rol] = "COMPANY",
         DOMAIN invitaciones' = DOMAIN invitaciones
  PROVE  Dentro(a)
  <1>1. \A u \in Usuarios, e \in Empresas \ {a} : perfil'[<<u, e>>] = perfil[<<u, e>>]
    <2> TAKE u \in Usuarios, e \in Empresas \ {a}
    <2>1. <<u, e>> \in Usuarios \X Empresas /\ <<u, e>>[2] # a
      OBVIOUS
    <2> QED BY <2>1
  <1>2. DOMAIN perfil = Usuarios \X Empresas
    BY DEF TiposCuentas
  <1> QED BY <1>1, <1>2 DEF Dentro, EmpresaAjenaIntacta, RolDeEmpresa

(* An invitation of a company role to the company itself. *)
LEMMA CrearDentro ==
  ASSUME TiposCuentas, NEW a \in Clientes, NEW c, NEW u \in Usuarios, NEW r \in Roles,
         Alcance[r] = "COMPANY", NEW visto, NEW previas, Despejadas(previas, c, a, visto),
         NEW heredado, CrearInvitacion(c, u, a, r, previas, visto, heredado)
  PROVE  Dentro(a)
  <1> DEFINE nueva == [correo |-> c, usuario |-> u, empresa |-> a, rol |-> r,
                       estado |-> "PENDING", vencida |-> FALSE,
                       traslado |-> heredado \/ SeTraslada(u, a), visto |-> visto,
                       editada |-> FALSE]
             suya == [estado |-> IF perfil[<<u, a>>].estado = "ACTIVE" /\ cuenta[u].activa
                                 THEN "ACTIVE" ELSE "PENDING",
                      rol |-> r]
  <1>1. invitaciones' = Append(previas, nueva) /\ perfil' = [perfil EXCEPT ![<<u, a>>] = suya]
    BY DEF CrearInvitacion
  <1>2. nueva.rol = r /\ suya.rol = r
    OBVIOUS
  <1> HIDE DEF nueva, suya
  <1>3. \A w \in registradas : cuenta'[w] = cuenta[w]
    BY DEF CrearInvitacion, TiposCuentas
  <1>4. a \in Empresas /\ <<u, a>> \in Usuarios \X Empresas /\ DOMAIN perfil = Usuarios \X Empresas
    BY NoEsGlobal DEF TiposCuentas
  <1>5. perfil'[<<u, a>>] = suya /\ DOMAIN perfil' = DOMAIN perfil
        /\ \A x \in Usuarios \X Empresas : x # <<u, a>> => perfil'[x] = perfil[x]
    BY <1>1, <1>4
  <1>6. \A w \in Usuarios, e \in Empresas \ {a} : perfil'[<<w, e>>] = perfil[<<w, e>>]
    BY <1>5
  <1>7. \A x \in DOMAIN perfil :
            perfil'[x].rol \notin {"ninguno", perfil[x].rol} => Alcance[perfil'[x].rol] = "COMPANY"
    <2> TAKE x \in DOMAIN perfil
    <2>1. CASE x = <<u, a>>
      BY <1>2, <1>5, <2>1
    <2>2. CASE x # <<u, a>>
      BY <1>4, <1>5, <2>2
    <2> QED BY <2>1, <2>2
  <1>8. previas \in Seq(Invitacion) /\ DOMAIN previas = DOMAIN invitaciones
        /\ DOMAIN previas = 1..Len(previas) /\ Len(previas) \in Nat
    BY FilasDeInvitaciones DEF Despejadas
  <1>9. DOMAIN invitaciones' \ DOMAIN invitaciones = {Len(previas) + 1}
        /\ invitaciones'[Len(previas) + 1] = nueva
    BY <1>1, <1>8
  <1> QED BY <1>2, <1>3, <1>6, <1>7, <1>9 DEF Dentro, EmpresaAjenaIntacta, RolDeEmpresa

LEMMA CrearDesdeDentro ==
  ASSUME TiposCuentas, NEW a \in Clientes, NEW c, NEW u \in Usuarios, NEW r \in Roles,
         NEW traslada, CrearDesde(c, u, a, r, traslada)
  PROVE  Dentro(a)
  <1>1. Alcance[r] # "GLOBAL" /\ (Alcance[r] = "INTERNAL" => a \in Internas)
    BY DEF CrearDesde, Invitable
  <1>2. Alcance[r] = "COMPANY"
    BY <1>1, AlcanceConocido, NoEsGlobal
  <1>3. PICK visto \in 0..Len(invitaciones) :
            CrearInvitacion(Normalizado[c], u, a, r, Revocadas(Normalizado[c], a, visto), visto, FALSE)
    BY DEF CrearDesde
  <1> QED BY <1>2, <1>3, RevocadasDespejan, CrearDentro

LEMMA InvitarDentro ==
  ASSUME TiposCuentas, NEW a \in Clientes, PasoSobreInvitacion(a) \/ PasoSobreEnviadas(a)
  PROVE  Dentro(a)
  <1>1. ASSUME NEW c \in Correos, NEW u \in Usuarios, NEW e \in Empresas, NEW r \in Roles,
               NEW traslada \in BOOLEAN,
               Invitar(a, c, u, e, r, traslada) \/ InvitarAdmin(a, c, u, e, r, traslada)
        PROVE  Dentro(a)
    <2>1. e = a
      BY <1>1, NoEsGlobal DEF Invitar, InvitarAdmin, Alcanza
    <2> QED BY <1>1, <2>1, CrearDesdeDentro DEF Invitar, InvitarAdmin
  <1>2. ASSUME NEW i \in DOMAIN invitaciones, NEW u \in Usuarios, Reenviar(a, i, u) PROVE Dentro(a)
    <2> DEFINE v == invitaciones[i]
               c == Normalizado[v.correo]
    <2>1. v.rol \in Roles
      BY InvitacionConocida
    <2>2. v.empresa = a /\ Alcance[v.rol] = "COMPANY"
      BY <1>2, NoEsGlobal DEF Reenviar, Alcanza, Asignable
    <2>3. ASSUME NEW visto, NEW previas, Despejadas(previas, c, v.empresa, visto),
                 CrearInvitacion(c, u, v.empresa, v.rol, previas, visto, v.traslado)
          PROVE  Dentro(a)
      <3> HIDE DEF c, v
      <3> QED BY <2>1, <2>2, <2>3, CrearDentro
    <2>4. ASSUME invitaciones' = [invitaciones EXCEPT ![i].estado = "REVOKED"],
                 UNCHANGED <<registradas, cuenta, perfil>>
          PROVE  Dentro(a)
      BY <2>4, DentroSinInvitar
    <2> QED BY <1>2, <2>3, <2>4, AlReenviar
  <1>3. ASSUME NEW i \in DOMAIN invitaciones, Revocar(a, i) PROVE Dentro(a)
    BY <1>3, DentroSinInvitar DEF Revocar
  <1>4. ASSUME NEW u \in Usuarios, NEW d \in Usuarios, NEW e \in Empresas, NEW pedido,
               Reinvitar(a, u, d, e, pedido)
        PROVE  Dentro(a)
    <2>1. e = a
      BY <1>4, NoEsGlobal DEF Reinvitar, CuentaAlcanzable, Alcanza
    <2>2. PICK c \in Correos, r \in RolAlReinvitar(u, e, pedido) : CrearDesde(c, d, a, r, EsGlobal(a))
      BY <1>4, <2>1 DEF Reinvitar
    <2> QED BY <2>2, RolAlReinvitarConocido, CrearDesdeDentro
  <1>5. ASSUME NEW i \in DOMAIN invitaciones, NEW ficha, EditarInvitacion(a, i, ficha) PROVE Dentro(a)
    BY <1>5, DentroSinInvitar DEF EditarInvitacion
  <1> QED BY <1>1, <1>2, <1>3, <1>4, <1>5 DEF PasoSobreInvitacion, PasoSobreEnviadas

LEMMA PerfilDentro ==
  ASSUME TiposCuentas, NEW a \in Clientes, PasoSobrePerfil(a)
  PROVE  Dentro(a)
  <1> DEFINE Escrito(r) == \A x \in Usuarios \X Empresas :
                 /\ x[2] # a => perfil'[x] = perfil[x]
                 /\ perfil'[x] = perfil[x] \/ perfil'[x] = SinPerfil \/ perfil'[x].rol = r
  <1>1. ASSUME NEW r \in Roles, Asignable(a, r), Escrito(r), DOMAIN perfil' = DOMAIN perfil,
               UNCHANGED <<cuenta, invitaciones>>
        PROVE  Dentro(a)
    <2>1. Alcance[r] = "COMPANY"
      BY <1>1, NoEsGlobal DEF Asignable
    <2>2. \A x \in Usuarios \X Empresas :
              perfil'[x].rol \notin {"ninguno", perfil[x].rol} => Alcance[perfil'[x].rol] = "COMPANY"
      BY <1>1, <2>1 DEF SinPerfil
    <2> QED BY <1>1, <2>2, DentroSinInvitar
  <1>2. ASSUME NEW u \in Usuarios, NEW e \in Empresas, NEW r \in Roles, NEW estado,
               CrearPerfil(a, u, e, r, estado)
        PROVE  Dentro(a)
    <2>1. e = a /\ Asignable(a, r)
      BY <1>2, NoEsGlobal DEF CrearPerfil, Alcanza
    <2>2. Escrito(r) /\ DOMAIN perfil' = DOMAIN perfil
      BY <1>2, <2>1 DEF CrearPerfil, TiposCuentas
    <2> QED BY <1>1, <1>2, <2>1, <2>2 DEF CrearPerfil
  <1>3. ASSUME NEW u \in Usuarios, NEW e \in Empresas, NEW u2 \in Usuarios, NEW e2 \in Empresas,
               NEW r \in Roles, NEW estado, EditarPerfil(a, u, e, u2, e2, r, estado)
        PROVE  Dentro(a)
    <2>1. e = a /\ e2 = a /\ Asignable(a, r)
      BY <1>3, NoEsGlobal DEF EditarPerfil, Alcanza
    <2>2. Escrito(r) /\ DOMAIN perfil' = DOMAIN perfil
      BY <1>3, <2>1 DEF EditarPerfil, TiposCuentas
    <2> QED BY <1>1, <1>3, <2>1, <2>2 DEF EditarPerfil
  <1>4. ASSUME NEW u \in Usuarios, NEW e \in Empresas, RetirarPerfil(a, u, e) PROVE Dentro(a)
    <2>1. e = a
      BY <1>4, NoEsGlobal DEF RetirarPerfil, Alcanza
    <2>2. \A w \in registradas : cuenta[w].empresa # a => cuenta'[w] = cuenta[w]
      BY <1>4, <2>1 DEF RetirarPerfil, TiposCuentas
    <2>3. /\ \A x \in Usuarios \X Empresas : perfil'[x].rol = perfil[x].rol
          /\ \A x \in Usuarios \X Empresas : x[2] # a => perfil'[x] = perfil[x]
      BY <1>4, RetirarPerfilBien, NoEsGlobal
    <2>4. DOMAIN perfil' = DOMAIN perfil /\ DOMAIN invitaciones' = DOMAIN invitaciones
      BY <1>4 DEF RetirarPerfil, ConEstado
    <2> QED BY <2>2, <2>3, <2>4, DentroSinInvitar
  <1> QED BY <1>2, <1>3, <1>4 DEF PasoSobrePerfil

LEMMA CuentaDentro ==
  ASSUME TiposCuentas, NEW a \in Clientes, PasoSobreCuenta(a)
  PROVE  Dentro(a)
  <1>1. ASSUME NEW u \in Usuarios, Acceso(a, u) PROVE Dentro(a)
    <2>1. cuenta[u].empresa = a
      BY <1>1, NoEsGlobal DEF Acceso, Bloquear, Desbloquear, SoloLectura, RestaurarEscritura,
         Desactivar, Reactivar, EliminarCuenta, CuentaAlcanzable, Alcanza
    <2>2. \A w \in registradas : cuenta[w].empresa # a => cuenta'[w] = cuenta[w]
      BY <1>1, <2>1, AccesoCuenta DEF TiposCuentas
    <2>3. /\ \A x \in Usuarios \X Empresas : perfil'[x].rol = perfil[x].rol
          /\ \A x \in Usuarios \X Empresas : x[2] # a => perfil'[x] = perfil[x]
          /\ DOMAIN perfil' = Usuarios \X Empresas
      BY <1>1, AccesoPerfiles, NoEsGlobal
    <2>4. DOMAIN perfil = Usuarios \X Empresas /\ invitaciones' = invitaciones
      BY <1>1, AccesoCuenta DEF TiposCuentas
    <2> QED BY <2>2, <2>3, <2>4, DentroSinInvitar
  <1>2. ASSUME NEW u \in Usuarios, NEW pedido, EditarCuenta(a, u, pedido) PROVE Dentro(a)
    <2>1. cuenta[u].empresa = a
      BY <1>2, NoEsGlobal DEF EditarCuenta, CuentaAlcanzable, Alcanza
    <2>2. \A w \in registradas : cuenta[w].empresa # a => cuenta'[w] = cuenta[w]
      BY <1>2, <2>1 DEF EditarCuenta, TiposCuentas
    <2> QED BY <1>2, <2>2, DentroSinInvitar DEF EditarCuenta
  <1> QED BY <1>1, <1>2 DEF PasoSobreCuenta, Acceso

(* For any people, companies and roles: what the administrator of a client *)
(* company does, by any endpoint, leaves the accounts of other companies   *)
(* and the profiles in other companies as they were, and gives company     *)
(* roles only (the querysets and is_role_assignable_by, and                *)
(* create_invitation where invite_admin asks nobody).                      *)
THEOREM SoloEnSuEmpresaSiempre == SpecCuentas => SoloEnSuEmpresa
  <1>1. ASSUME TiposCuentas, NextCuentas, NEW a \in Clientes, autor' = a
        PROVE  EmpresaAjenaIntacta(a) /\ RolDeEmpresa(a)
    <2>1. a # Nadie
      BY EmpresasAparte
    <2>2. \/ PasoSobreInvitacion(a) \/ PasoSobreEnviadas(a)
          \/ PasoSobrePerfil(a) \/ PasoSobreCuenta(a)
      BY <1>1, <2>1 DEF NextCuentas
    <2> QED BY <1>1, <2>2, InvitarDentro, PerfilDentro, CuentaDentro DEF Dentro
  <1>2. TiposCuentas /\ [NextCuentas]_varsCuentas =>
            [\A a \in Clientes : autor' = a => EmpresaAjenaIntacta(a) /\ RolDeEmpresa(a)]_varsCuentas
    BY <1>1
  <1> QED BY <1>2, CuentasTipadas, PTL DEF SpecCuentas, SoloEnSuEmpresa

-----------------------------------------------------------------------------
(* The sessions of an account, any number of logins against one writer of  *)
(* its row at a time.  What a writer copied is then what the row still     *)
(* holds, and the epoch never goes back; with two writers it may: the      *)
(* second writes one more than what it read before the first.              *)
UnoEscribe == \A p, q \in Escribiendo : p = q

CopiaFiel ==
    \A p \in Peticiones :
        /\ peticion[p].paso = "guardar" => peticion[p].copia = fila
        /\ peticion[p].paso = "revocar" =>
              peticion[p].tipo \in Revocan /\ peticion[p].copia.epoca = fila.epoca

(* Whoever holds the epoch of the row, or what a login has read of it. *)
NadieAdelante ==
    /\ \A s \in sesiones : s.epoca <= fila.epoca
    /\ \A p \in Peticiones : peticion[p].paso = "autenticado" => peticion[p].copia.epoca <= fila.epoca

ClavesVigentes ==
    /\ restablecida <= fila.clave /\ fila.clave <= ultimaClave
    /\ \A s \in sesiones : s.epoca = fila.epoca => restablecida <= s.clave
    /\ \A p \in Peticiones :
          peticion[p].paso = "autenticado" /\ peticion[p].copia.epoca = fila.epoca =>
              restablecida <= peticion[p].copia.clave

InvSesiones == TiposSesiones /\ UnoEscribe /\ CopiaFiel /\ NadieAdelante /\ ClavesVigentes

LEMMA InicioSesiones == InitSesiones => InvSesiones
  <1> SUFFICES ASSUME InitSesiones PROVE InvSesiones
    OBVIOUS
  <1>1. fila \in Filas /\ fila.clave = 1 /\ fila.epoca = 1
    <2>1. CASE fila = [activa |-> TRUE, acceso |-> "ACTIVE", epoca |-> 1, clave |-> 1]
      BY <2>1 DEF Filas, Accesos
    <2>2. CASE fila = [activa |-> FALSE, acceso |-> "PENDING_INVITATION", epoca |-> 1, clave |-> 1]
      BY <2>2 DEF Filas, Accesos
    <2> QED BY <2>1, <2>2 DEF InitSesiones
  <1>2. Libre \in [paso : Pasos, tipo : PorColumnas \cup FilaEntera \cup {"login"}, copia : Filas]
    BY DEF Libre, Pasos, Filas, Accesos
  <1>3. TiposSesiones
    BY <1>1, <1>2 DEF InitSesiones, TiposSesiones
  <1>4. \A p \in Peticiones : peticion[p].paso = "libre"
    BY DEF InitSesiones, Libre
  <1> QED BY <1>1, <1>3, <1>4
        DEF InitSesiones, InvSesiones, UnoEscribe, Escribiendo, CopiaFiel, NadieAdelante, ClavesVigentes

(* What a step does to a request and to the row, for those that rest on    *)
(* them: every request but p stays as it was.                              *)
SoloCambia(p) == \A q \in Peticiones : q # p => peticion'[q] = peticion[q]

(* The row is the same, and so are the sessions but for those that go. *)
LEMMA FilaIgual ==
  ASSUME InvSesiones, TiposSesiones', fila' = fila, sesiones' \subseteq sesiones,
         ultimaClave' = ultimaClave, restablecida' = restablecida,
         NEW p \in Peticiones, SoloCambia(p),
         \/ peticion'[p] = peticion[p]
         \/ peticion'[p].paso \in {"libre", "comprobado", "fallido"}
         \/ peticion'[p].paso = "autenticado" /\ peticion'[p].copia = fila
         \/ peticion'[p].paso = "guardar" /\ peticion'[p].copia = fila /\ Escribiendo = {}
  PROVE  InvSesiones'
  <1>1. fila.epoca \in Nat /\ fila.clave \in Nat /\ restablecida \in Nat /\ restablecida <= fila.clave
    BY DEF InvSesiones, TiposSesiones, Filas, ClavesVigentes
  <1>2. UnoEscribe'
    BY DEF InvSesiones, UnoEscribe, Escribiendo, SoloCambia
  <1>3. CopiaFiel'
    BY DEF InvSesiones, CopiaFiel, SoloCambia
  <1>4. NadieAdelante'
    BY <1>1 DEF InvSesiones, NadieAdelante, SoloCambia
  <1>5. ClavesVigentes'
    BY <1>1 DEF InvSesiones, ClavesVigentes, SoloCambia
  <1> QED BY <1>2, <1>3, <1>4, <1>5 DEF InvSesiones

(* A writer saves: the epoch stays, the password does not go back. *)
LEMMA FilaGuardada ==
  ASSUME InvSesiones, NEW p \in Peticiones, peticion[p].paso = "guardar", Seguir(p),
         fila' \in Filas, fila'.epoca = fila.epoca, fila.clave <= fila'.clave, fila'.clave <= ultimaClave',
         ultimaClave' \in Nat, ultimaClave <= ultimaClave',
         UNCHANGED <<sesiones, intentos, restablecida>>
  PROVE  InvSesiones'
  <1>1. /\ fila.epoca \in Nat /\ fila.clave \in Nat /\ fila'.clave \in Nat
        /\ restablecida \in Nat /\ restablecida <= fila.clave
    BY DEF InvSesiones, TiposSesiones, Filas, ClavesVigentes
  <1>2. SoloCambia(p) /\ \/ peticion'[p].paso = "libre"
                         \/ /\ peticion'[p].paso = "revocar" /\ peticion'[p].copia = peticion[p].copia
                            /\ peticion'[p].tipo = peticion[p].tipo /\ peticion[p].tipo \in Revocan
    BY DEF Seguir, Paso, Terminar, Libre, InvSesiones, TiposSesiones, SoloCambia
  <1>3. Libre \in [paso : Pasos, tipo : PorColumnas \cup FilaEntera \cup {"login"}, copia : Filas]
    BY DEF Libre, Pasos, Filas, Accesos
  <1>4. peticion' \in [Peticiones -> [paso : Pasos, tipo : PorColumnas \cup FilaEntera \cup {"login"}, copia : Filas]]
    BY <1>3 DEF Seguir, Paso, Terminar, InvSesiones, TiposSesiones, Pasos
  <1>5. TiposSesiones'
    BY <1>4 DEF InvSesiones, TiposSesiones
  <1>6. \A q \in Peticiones : q # p => peticion[q].paso \notin {"guardar", "revocar"}
    BY DEF InvSesiones, UnoEscribe, Escribiendo
  <1>7. UnoEscribe'
    BY <1>2, <1>6 DEF UnoEscribe, Escribiendo, SoloCambia
  <1>8. CopiaFiel'
    BY <1>2, <1>6 DEF InvSesiones, CopiaFiel, SoloCambia
  <1>9. NadieAdelante'
    BY <1>2 DEF InvSesiones, NadieAdelante, SoloCambia
  <1>10. ClavesVigentes'
    BY <1>1, <1>2 DEF InvSesiones, ClavesVigentes, SoloCambia
  <1> QED BY <1>5, <1>7, <1>8, <1>9, <1>10 DEF InvSesiones

(* The epoch moves on: nothing there was is accepted. *)
LEMMA EpocaSube ==
  ASSUME InvSesiones, NEW p \in Peticiones, RevocarSesiones(p)
  PROVE  InvSesiones' /\ fila'.epoca = fila.epoca + 1
  <1>1. fila \in Filas /\ peticion[p].copia.epoca = fila.epoca /\ peticion[p].copia.epoca \in Nat
    BY DEF RevocarSesiones, InvSesiones, TiposSesiones, CopiaFiel, Filas
  <1>2. fila' \in Filas /\ fila'.epoca = fila.epoca + 1 /\ fila'.clave = fila.clave
        /\ fila.epoca \in Nat /\ fila.clave \in Nat
    BY <1>1 DEF RevocarSesiones, EpocaRevocada, Filas
  <1>3. restablecida' \in {restablecida, fila.clave} /\ sesiones' = sesiones /\ ultimaClave' = ultimaClave
    BY DEF RevocarSesiones
  <1>4. SoloCambia(p) /\ peticion'[p].paso = "libre"
    BY DEF RevocarSesiones, Terminar, Libre, InvSesiones, TiposSesiones, SoloCambia
  <1>5. Libre \in [paso : Pasos, tipo : PorColumnas \cup FilaEntera \cup {"login"}, copia : Filas]
    BY DEF Libre, Pasos, Filas, Accesos
  <1>6. TiposSesiones'
    BY <1>2, <1>3, <1>5 DEF RevocarSesiones, Terminar, InvSesiones, TiposSesiones
  <1>7. \A q \in Peticiones : q # p => peticion[q].paso \notin {"guardar", "revocar"}
    BY DEF RevocarSesiones, InvSesiones, UnoEscribe, Escribiendo
  <1>8. UnoEscribe' /\ CopiaFiel'
    BY <1>4, <1>7 DEF UnoEscribe, Escribiendo, CopiaFiel, SoloCambia
  <1>9. /\ \A s \in sesiones' : s.epoca < fila'.epoca
        /\ \A q \in Peticiones : peticion'[q].paso = "autenticado" => peticion'[q].copia.epoca < fila'.epoca
    <2>1. \A s \in sesiones : s.epoca \in Nat /\ s.epoca <= fila.epoca
      BY DEF InvSesiones, TiposSesiones, NadieAdelante
    <2>2. \A q \in Peticiones : peticion[q].copia.epoca \in Nat
      BY DEF InvSesiones, TiposSesiones, Filas
    <2> QED BY <1>2, <1>3, <1>4, <2>1, <2>2 DEF InvSesiones, NadieAdelante, SoloCambia
  <1>10. /\ \A s \in sesiones' : s.epoca \in Nat
         /\ \A q \in Peticiones : peticion'[q].copia.epoca \in Nat
    BY <1>6 DEF TiposSesiones, Filas
  <1>11. NadieAdelante'
    BY <1>2, <1>9, <1>10 DEF NadieAdelante
  <1>12. ClavesVigentes'
    BY <1>2, <1>3, <1>9, <1>10 DEF InvSesiones, ClavesVigentes
  <1> QED BY <1>2, <1>6, <1>8, <1>11, <1>12 DEF InvSesiones

(* A login ends: its session has the epoch and the password it read. *)
LEMMA EntraSesion ==
  ASSUME InvSesiones, NEW p \in Peticiones, LoginEntrar(p)
  PROVE  InvSesiones' /\ fila.epoca <= fila'.epoca
  <1>1. Libre \in [paso : Pasos, tipo : PorColumnas \cup FilaEntera \cup {"login"}, copia : Filas]
        /\ Libre.paso = "libre"
    BY DEF Libre, Pasos, Filas, Accesos
  <1>2. fila' = fila /\ fila.epoca \in Nat /\ fila.epoca <= fila.epoca
    BY DEF LoginEntrar, InvSesiones, TiposSesiones, Filas
  <1>3. peticion[p].copia \in Filas
    BY DEF InvSesiones, TiposSesiones
  <1>4. /\ Sesion(p) \in [epoca : Nat, clave : Nat]
        /\ Sesion(p).epoca = peticion[p].copia.epoca /\ Sesion(p).clave = peticion[p].copia.clave
    BY <1>3 DEF Sesion, Filas
  <1>5. /\ peticion' = [peticion EXCEPT ![p] = Libre] /\ sesiones' = sesiones \cup {Sesion(p)}
        /\ peticion[p].paso = "autenticado"
    BY DEF LoginEntrar, Terminar
  <1>6. SoloCambia(p) /\ peticion'[p].paso = "libre"
    BY <1>1, <1>5 DEF InvSesiones, TiposSesiones, SoloCambia
  <1>7. TiposSesiones'
    BY <1>1, <1>4, <1>5 DEF LoginEntrar, InvSesiones, TiposSesiones
  <1>8. UnoEscribe' /\ CopiaFiel'
    BY <1>2, <1>6 DEF InvSesiones, UnoEscribe, Escribiendo, CopiaFiel, SoloCambia
  <1>9. NadieAdelante'
    BY <1>2, <1>4, <1>5, <1>6 DEF InvSesiones, NadieAdelante, SoloCambia
  <1>10. ClavesVigentes'
    BY <1>2, <1>4, <1>5, <1>6 DEF LoginEntrar, InvSesiones, ClavesVigentes, SoloCambia
  <1> QED BY <1>2, <1>7, <1>8, <1>9, <1>10 DEF InvSesiones

LEMMA AccesoTipado ==
  ASSUME NEW f \in Filas, NEW t \in PorColumnas
  PROVE  ConAcceso(f, t) \in Filas /\ ConAcceso(f, t).epoca = f.epoca /\ ConAcceso(f, t).clave = f.clave
  <1>1. PICK a \in BOOLEAN, c \in Accesos : ConAcceso(f, t) = [f EXCEPT !.activa = a, !.acceso = c]
    <2>1. CASE t \in {"bloquear", "desactivar", "retirar", "desbloquear", "solo_lectura"}
      BY <2>1 DEF ConAcceso, Accesos
    <2>2. CASE t = "restaurar_escritura"
      <3>1. ConAcceso(f, t) = [f EXCEPT !.acceso = "ACTIVE"]
        BY <2>2 DEF ConAcceso
      <3>2. f.activa \in BOOLEAN /\ [f EXCEPT !.activa = f.activa] = f
        BY DEF Filas
      <3>3. [[f EXCEPT !.activa = f.activa] EXCEPT !.acceso = "ACTIVE"] = [f EXCEPT !.acceso = "ACTIVE"]
        BY <3>2
      <3> QED BY <3>1, <3>2, <3>3 DEF Accesos
    <2> QED BY <2>1, <2>2 DEF PorColumnas
  <1> QED BY <1>1 DEF Filas

(* One writer at a time: this is where the bound on the writers is used. *)
LEMMA NadieEscribe ==
  ASSUME Escrituras <= 1, Cardinality(Escribiendo) < Escrituras
  PROVE  Escribiendo = {}
  <1>1. IsFiniteSet(Escribiendo)
    BY SesionesAssumption, FS_Subset DEF Escribiendo
  <1>2. Cardinality(Escribiendo) \in Nat /\ Cardinality(Escribiendo) < 1
    BY <1>1, FS_CardinalityType, SesionesAssumption
  <1> QED BY <1>1, <1>2, FS_EmptySet

LEMMA PasoDeSesiones ==
  ASSUME Escrituras <= 1, InvSesiones, [NextSesiones]_varsSesiones
  PROVE  InvSesiones' /\ fila.epoca <= fila'.epoca
  <1> USE DEF InvSesiones
  <1> DEFINE Peticion == [paso : Pasos, tipo : PorColumnas \cup FilaEntera \cup {"login"}, copia : Filas]
  <1>1. /\ fila \in Filas /\ fila.epoca \in Nat /\ fila.epoca <= fila.epoca
        /\ fila.clave \in Nat /\ fila.clave <= ultimaClave /\ ultimaClave \in Nat
    BY DEF TiposSesiones, Filas, ClavesVigentes
  <1>2. Libre \in Peticion /\ Libre.paso = "libre"
    BY DEF Libre, Pasos, Filas, Accesos
  <1>3. peticion \in [Peticiones -> Peticion]
    BY DEF TiposSesiones
  <1>4. ASSUME fila' = fila, sesiones' \subseteq sesiones, ultimaClave' = ultimaClave,
               restablecida' = restablecida, intentos' \in [Claves -> Nat],
               NEW p \in Peticiones, NEW x \in Peticion, peticion' = [peticion EXCEPT ![p] = x],
               \/ x = peticion[p]
               \/ x.paso \in {"libre", "comprobado", "fallido"}
               \/ x.paso = "autenticado" /\ x.copia = fila
               \/ x.paso = "guardar" /\ x.copia = fila /\ Escribiendo = {}
        PROVE  InvSesiones' /\ fila.epoca <= fila'.epoca
    <2>1. TiposSesiones'
      BY <1>3, <1>4 DEF TiposSesiones
    <2>2. SoloCambia(p) /\ peticion'[p] = x
      BY <1>3, <1>4 DEF SoloCambia
    <2> HIDE DEF InvSesiones
    <2> QED BY <1>1, <1>4, <2>1, <2>2, FilaIgual
  <1>5. ASSUME fila' = fila, sesiones' \subseteq sesiones, UNCHANGED <<peticion, ultimaClave, restablecida>>,
               intentos' \in [Claves -> Nat]
        PROVE  InvSesiones' /\ fila.epoca <= fila'.epoca
    BY <1>1, <1>5 DEF TiposSesiones, UnoEscribe, Escribiendo, CopiaFiel, NadieAdelante, ClavesVigentes
  <1>6. intentos \in [Claves -> Nat] /\ [k \in Claves |-> intentos[k] + 1] \in [Claves -> Nat]
        /\ [k \in Claves |-> 0] \in [Claves -> Nat] /\ \A k \in Claves : [intentos EXCEPT ![k] = 0] \in [Claves -> Nat]
    BY DEF TiposSesiones
  <1>7. ASSUME NEW p \in Peticiones, LoginComprobar(p) PROVE InvSesiones' /\ fila.epoca <= fila'.epoca
    <2>1. [peticion[p] EXCEPT !.paso = "comprobado"] \in Peticion
          /\ [peticion[p] EXCEPT !.paso = "comprobado"].paso = "comprobado"
      BY <1>3 DEF Pasos
    <2> QED BY <1>4, <1>6, <1>7, <2>1 DEF LoginComprobar, Paso
  <1>8. ASSUME NEW p \in Peticiones, LoginAutenticar(p) PROVE InvSesiones' /\ fila.epoca <= fila'.epoca
    <2>1. [peticion[p] EXCEPT !.paso = "fallido"] \in Peticion
          /\ [peticion[p] EXCEPT !.paso = "fallido"].paso = "fallido"
      BY <1>3 DEF Pasos
    <2>2. [paso |-> "autenticado", tipo |-> "login", copia |-> fila] \in Peticion
      BY <1>1 DEF Pasos
    <2>3. CASE Paso(p, "fallido")
      BY <1>4, <1>6, <1>8, <2>1, <2>3 DEF LoginAutenticar, Paso
    <2>4. CASE peticion' = [peticion EXCEPT ![p] = [paso |-> "autenticado", tipo |-> "login", copia |-> fila]]
      BY <1>4, <1>6, <1>8, <2>2, <2>4 DEF LoginAutenticar
    <2> QED BY <1>8, <2>3, <2>4 DEF LoginAutenticar
  <1>9. ASSUME NEW p \in Peticiones, LoginFallar(p) PROVE InvSesiones' /\ fila.epoca <= fila'.epoca
    BY <1>2, <1>4, <1>6, <1>9 DEF LoginFallar, RegistrarFallo, Terminar
  <1>10. ASSUME NEW p \in Peticiones, LoginEntrar(p) PROVE InvSesiones' /\ fila.epoca <= fila'.epoca
    BY <1>10, EntraSesion DEF LoginEntrar
  <1>11. ASSUME NEW p \in Peticiones, NEW t \in PorColumnas \cup FilaEntera, LeerFila(p, t)
         PROVE  InvSesiones' /\ fila.epoca <= fila'.epoca
    <2>1. [paso |-> "guardar", tipo |-> t, copia |-> fila] \in Peticion
      BY <1>1 DEF Pasos
    <2>2. Escribiendo = {}
      BY <1>11, NadieEscribe DEF LeerFila
    <2> QED BY <1>4, <1>6, <1>11, <2>1, <2>2 DEF LeerFila
  <1>12. ASSUME NEW p \in Peticiones, peticion[p].paso = "guardar" PROVE peticion[p].copia = fila
    BY <1>12 DEF CopiaFiel
  <1>13. ASSUME NEW p \in Peticiones, GuardarColumnas(p) PROVE InvSesiones' /\ fila.epoca <= fila'.epoca
    <2>1. fila' \in Filas /\ fila'.epoca = fila.epoca /\ fila'.clave = fila.clave
      BY <1>1, <1>13, AccesoTipado DEF GuardarColumnas
    <2> HIDE DEF InvSesiones
    <2> QED BY <1>1, <1>13, <2>1, FilaGuardada DEF GuardarColumnas
  <1>14. ASSUME NEW p \in Peticiones, NEW activa \in BOOLEAN, NEW acceso \in Accesos,
                GuardarEdicion(p, activa, acceso)
         PROVE  InvSesiones' /\ fila.epoca <= fila'.epoca
    <2>1. fila' = [fila EXCEPT !.activa = activa, !.acceso = acceso]
      BY <1>12, <1>14 DEF GuardarEdicion
    <2>2. fila' \in Filas /\ fila'.epoca = fila.epoca /\ fila'.clave = fila.clave
      BY <1>1, <2>1 DEF Filas
    <2> HIDE DEF InvSesiones
    <2> QED BY <1>1, <1>14, <2>2, FilaGuardada DEF GuardarEdicion
  <1>15. ASSUME NEW p \in Peticiones, GuardarClave(p) PROVE InvSesiones' /\ fila.epoca <= fila'.epoca
    <2>1. fila' = [fila EXCEPT !.clave = ultimaClave + 1] /\ ultimaClave' = ultimaClave + 1
      BY <1>12, <1>15 DEF GuardarClave
    <2>2. fila' \in Filas /\ fila'.epoca = fila.epoca /\ fila'.clave = ultimaClave + 1
      BY <1>1, <2>1 DEF Filas
    <2> HIDE DEF InvSesiones
    <2> QED BY <1>1, <1>15, <2>1, <2>2, FilaGuardada DEF GuardarClave
  <1>16. ASSUME NEW p \in Peticiones, GuardarAceptacion(p) PROVE InvSesiones' /\ fila.epoca <= fila'.epoca
    <2>1. PICK clave \in {fila.clave, ultimaClave + 1} :
             /\ fila' = [fila EXCEPT !.activa = TRUE, !.acceso = "ACTIVE", !.clave = clave]
             /\ ultimaClave' = IF clave > ultimaClave THEN clave ELSE ultimaClave
      BY <1>12, <1>16 DEF GuardarAceptacion
    <2>2. clave \in Nat /\ fila.clave <= clave /\ ultimaClave' \in Nat
          /\ clave <= ultimaClave' /\ ultimaClave <= ultimaClave'
      BY <1>1, <2>1
    <2>3. fila' \in Filas /\ fila'.epoca = fila.epoca /\ fila'.clave = clave
      BY <1>1, <2>1, <2>2 DEF Filas, Accesos
    <2> HIDE DEF InvSesiones
    <2> QED BY <1>1, <1>16, <2>2, <2>3, FilaGuardada DEF GuardarAceptacion
  <1>17. ASSUME NEW p \in Peticiones, RevocarSesiones(p) PROVE InvSesiones' /\ fila.epoca <= fila'.epoca
    <2> HIDE DEF InvSesiones
    <2> QED BY <1>1, <1>17, EpocaSube
  <1>18. ASSUME NEW s \in sesiones, Rechazar(s) \/ Cerrar(s) PROVE InvSesiones' /\ fila.epoca <= fila'.epoca
    BY <1>5, <1>6, <1>18 DEF Rechazar, Cerrar
  <1>19. ASSUME NEW k \in Claves, VencerConteo(k) PROVE InvSesiones' /\ fila.epoca <= fila'.epoca
    BY <1>5, <1>6, <1>19 DEF VencerConteo
  <1>20. CASE UNCHANGED varsSesiones
    BY <1>5, <1>6, <1>20 DEF varsSesiones
  <1> HIDE DEF InvSesiones
  <1> QED BY <1>7, <1>8, <1>9, <1>10, <1>11, <1>13, <1>14, <1>15, <1>16, <1>17, <1>18, <1>19, <1>20 DEF NextSesiones

(* Once a password reset has ended, and whatever logins it overlapped, no  *)
(* session of an older password is accepted (establish_session,            *)
(* revoke_user_sessions), when one request writes the account at a time.   *)
THEOREM SesionSiempreDeClaveVigente ==
  ASSUME Escrituras <= 1
  PROVE  SpecSesiones => []SesionDeClaveVigente
  <1>1. InvSesiones /\ [NextSesiones]_varsSesiones => InvSesiones'
    BY PasoDeSesiones
  <1>2. InvSesiones => SesionDeClaveVigente
    BY DEF InvSesiones, ClavesVigentes, SesionDeClaveVigente, Aceptada, TiposSesiones, Filas
  <1> QED BY <1>1, <1>2, InicioSesiones, PTL DEF SpecSesiones

-----------------------------------------------------------------------------
(* The tables keep their types whatever the number of requests that write  *)
(* the row at once.                                                        *)
PeticionBien == [paso : Pasos, tipo : PorColumnas \cup FilaEntera \cup {"login"}, copia : Filas]

LEMMA PeticionEscrita ==
  ASSUME TiposSesiones, NEW p \in Peticiones
  PROVE  /\ peticion[p] \in PeticionBien /\ Libre \in PeticionBien
         /\ \A paso \in Pasos : Paso(p, paso) => peticion' \in [Peticiones -> PeticionBien]
         /\ Terminar(p) => peticion' \in [Peticiones -> PeticionBien]
         /\ Seguir(p) => peticion' \in [Peticiones -> PeticionBien]
         /\ \A x \in PeticionBien :
               peticion' = [peticion EXCEPT ![p] = x] => peticion' \in [Peticiones -> PeticionBien]
  <1>1. Libre \in PeticionBien
    BY DEF Libre, PeticionBien, Pasos, Filas, Accesos
  <1>2. peticion \in [Peticiones -> PeticionBien] /\ peticion[p] \in PeticionBien
    BY DEF TiposSesiones, PeticionBien
  <1>3. \A x \in PeticionBien : [peticion EXCEPT ![p] = x] \in [Peticiones -> PeticionBien]
    BY <1>2
  <1>4. \A paso \in Pasos : [peticion[p] EXCEPT !.paso = paso] \in PeticionBien
    BY <1>2 DEF PeticionBien
  <1>5. \A paso \in Pasos : Paso(p, paso) => peticion' \in [Peticiones -> PeticionBien]
    BY <1>3, <1>4 DEF Paso
  <1>6. Terminar(p) => peticion' \in [Peticiones -> PeticionBien]
    BY <1>1, <1>3 DEF Terminar
  <1>7. Seguir(p) => peticion' \in [Peticiones -> PeticionBien]
    BY <1>5, <1>6 DEF Seguir, Pasos
  <1> QED BY <1>1, <1>2, <1>3, <1>5, <1>6, <1>7

LEMMA EscribirTipado ==
  ASSUME TiposSesiones, NEW p \in Peticiones,
         \/ GuardarColumnas(p)
         \/ \E activa \in BOOLEAN, acceso \in Accesos : GuardarEdicion(p, activa, acceso)
         \/ GuardarClave(p)
         \/ GuardarAceptacion(p)
         \/ RevocarSesiones(p)
  PROVE  TiposSesiones'
  <1> DEFINE copia == peticion[p].copia
  <1>1. fila \in Filas /\ copia \in Filas /\ ultimaClave \in Nat /\ restablecida \in Nat
    BY PeticionEscrita DEF PeticionBien, TiposSesiones
  <1>2. copia.clave \in Nat /\ copia.epoca \in Nat /\ fila.clave \in Nat
    BY <1>1 DEF Filas
  <1> HIDE DEF copia
  <1>3. ASSUME fila' \in Filas, ultimaClave' \in Nat, restablecida' \in Nat,
               Seguir(p) \/ Terminar(p), UNCHANGED <<sesiones, intentos>>
        PROVE  TiposSesiones'
    BY <1>3, PeticionEscrita DEF TiposSesiones, PeticionBien
  <1>4. CASE GuardarColumnas(p)
    BY <1>1, <1>3, <1>4, AccesoTipado DEF GuardarColumnas
  <1>5. ASSUME NEW activa \in BOOLEAN, NEW acceso \in Accesos, GuardarEdicion(p, activa, acceso)
        PROVE  TiposSesiones'
    <2>1. [copia EXCEPT !.activa = activa, !.acceso = acceso] \in Filas
      BY <1>1 DEF Filas
    <2> QED BY <1>1, <1>3, <1>5, <2>1 DEF GuardarEdicion, copia
  <1>6. CASE GuardarClave(p)
    <2>1. [copia EXCEPT !.clave = ultimaClave + 1] \in Filas
      BY <1>1 DEF Filas
    <2> QED BY <1>1, <1>3, <1>6, <2>1 DEF GuardarClave, copia
  <1>7. CASE GuardarAceptacion(p)
    <2>1. PICK clave \in {copia.clave, ultimaClave + 1} :
             /\ fila' = [copia EXCEPT !.activa = TRUE, !.acceso = "ACTIVE", !.clave = clave]
             /\ ultimaClave' = IF clave > ultimaClave THEN clave ELSE ultimaClave
      BY <1>7 DEF GuardarAceptacion, copia
    <2>2. clave \in Nat /\ ultimaClave' \in Nat
      BY <1>1, <1>2, <2>1
    <2>3. fila' \in Filas
      BY <1>1, <2>1, <2>2 DEF Filas, Accesos
    <2> QED BY <1>1, <1>3, <1>7, <2>2, <2>3 DEF GuardarAceptacion
  <1>8. CASE RevocarSesiones(p)
    <2>1. [fila EXCEPT !.epoca = copia.epoca + 1] \in Filas
      BY <1>1, <1>2 DEF Filas
    <2> QED BY <1>1, <1>2, <1>3, <1>8, <2>1 DEF RevocarSesiones, EpocaRevocada, copia
  <1> QED BY <1>4, <1>5, <1>6, <1>7, <1>8

LEMMA EntrarTipado ==
  ASSUME TiposSesiones, NEW p \in Peticiones,
         \/ LoginComprobar(p) \/ LoginAutenticar(p) \/ LoginFallar(p) \/ LoginEntrar(p)
         \/ \E t \in PorColumnas \cup FilaEntera : LeerFila(p, t)
  PROVE  TiposSesiones'
  <1>1. fila \in Filas /\ peticion[p].copia \in Filas /\ intentos \in [Claves -> Nat]
    BY PeticionEscrita DEF PeticionBien, TiposSesiones
  <1>2. ASSUME UNCHANGED <<fila, ultimaClave, restablecida>>, sesiones' \subseteq [epoca : Nat, clave : Nat],
               intentos' \in [Claves -> Nat], peticion' \in [Peticiones -> PeticionBien]
        PROVE  TiposSesiones'
    BY <1>2 DEF TiposSesiones, PeticionBien
  <1>3. sesiones \subseteq [epoca : Nat, clave : Nat] /\ Sesion(p) \in [epoca : Nat, clave : Nat]
    BY <1>1 DEF TiposSesiones, Sesion, Filas
  <1>4. "comprobado" \in Pasos /\ "fallido" \in Pasos
    BY DEF Pasos
  <1>5. CASE LoginComprobar(p)
    BY <1>1, <1>2, <1>3, <1>4, <1>5, PeticionEscrita DEF LoginComprobar
  <1>6. CASE LoginAutenticar(p)
    <2>1. [paso |-> "autenticado", tipo |-> "login", copia |-> fila] \in PeticionBien
      BY <1>1 DEF PeticionBien, Pasos
    <2> QED BY <1>1, <1>2, <1>3, <1>4, <1>6, <2>1, PeticionEscrita DEF LoginAutenticar
  <1>7. CASE LoginFallar(p)
    <2>1. [k \in Claves |-> intentos[k] + 1] \in [Claves -> Nat]
      BY <1>1
    <2> QED BY <1>2, <1>3, <1>7, <2>1, PeticionEscrita DEF LoginFallar, RegistrarFallo
  <1>8. CASE LoginEntrar(p)
    BY <1>2, <1>3, <1>8, PeticionEscrita DEF LoginEntrar
  <1>9. ASSUME NEW t \in PorColumnas \cup FilaEntera, LeerFila(p, t) PROVE TiposSesiones'
    <2>1. [paso |-> "guardar", tipo |-> t, copia |-> fila] \in PeticionBien
      BY <1>1 DEF PeticionBien, Pasos
    <2> QED BY <1>1, <1>2, <1>3, <1>9, <2>1, PeticionEscrita DEF LeerFila
  <1> QED BY <1>5, <1>6, <1>7, <1>8, <1>9

LEMMA SesionesPaso == TiposSesiones /\ [NextSesiones]_varsSesiones => TiposSesiones'
  <1> SUFFICES ASSUME TiposSesiones, [NextSesiones]_varsSesiones PROVE TiposSesiones'
    OBVIOUS
  <1>1. ASSUME NEW s \in sesiones, Rechazar(s) \/ Cerrar(s) PROVE TiposSesiones'
    BY <1>1 DEF Rechazar, Cerrar, TiposSesiones
  <1>2. ASSUME NEW k \in Claves, VencerConteo(k) PROVE TiposSesiones'
    BY <1>2 DEF VencerConteo, TiposSesiones
  <1>3. CASE UNCHANGED varsSesiones
    BY <1>3 DEF varsSesiones, TiposSesiones
  <1> QED BY <1>1, <1>2, <1>3, EntrarTipado, EscribirTipado DEF NextSesiones

(* The account, its sessions and the requests under way keep their types,  *)
(* whatever the requests that write the row at once.                       *)
THEOREM SesionesTipadas == SpecSesiones => []TiposSesiones
  <1>1. InitSesiones => TiposSesiones
    BY InicioSesiones DEF InvSesiones
  <1> QED BY <1>1, SesionesPaso, PTL DEF SpecSesiones

=============================================================================
