# Verification of the laboratory platform

This directory holds TLA+ modules, TLC configurations and TLAPS proofs about
the back end of an oil-analysis laboratory (`src/globalIsc`, Django and Django
REST Framework on PostgreSQL).  A client registers a *batch* (`LoteMuestras`)
of *samples* (`Muestra`); the laboratory receives it, assigns *tests*
(`PruebaMuestra`), enters, confirms and reviews *results* (`Resultado`), writes
an *interpretation* per sample, and issues *reports* (`Reporte`) that are
approved, published to the client or sent by e-mail.  Almost all of the state
is kept twice: in the rows of the tests and reports, and in flags of the sample
and of the batch that every endpoint has to keep in step by hand.  That is
where the program can go wrong and where the first half of these models looks.

Around the workflow stand two more groups of components.  The *technical
configuration* decides how a measured value is judged: catalogues with editions,
scales, versions of limits, the contract that pins an assignment to one of
them, the values of a result with the workbooks they travel in, the workbook a
batch is registered with, the predefined batches of tests, and the document a
report prints.  The
*administration* keeps who may do what and where: sessions, accounts, profiles
and invitations, the matrix of roles, and the plant of each client.

## 1. The system

| Component | Where (`src/globalIsc/apps/`) | State it keeps | Operations |
|---|---|---|---|
| Batch | `muestras/api/models/loteMuestras`, `views/loteMuestras`, `serializers/loteMuestras` | `estado` | create, edit, delete, register, cancel, reopen, recalculate, add samples |
| Sample | `muestras/api/models/muestras`, `views/muestras` | `is_ingresado`, `is_resultado_ingresado`, `is_revisado`, `estado_operativo`, the interpretation in `campos_adicionales` | delete, invalidate, reactivate |
| Laboratory entry | `views/ingresoLabLote`, `serializers/ingresoLabLote` | one row per batch | receive, revert |
| Capabilities | `services/workflow.py` | none: computed from the rows | gate assignment, entry and review |
| Assignment | `views/pruebaMuestra`, `services/assignment_sync.py` | `estado_asignacion` of each test | `assign_batch` |
| Results | `resultado/api/views` | `Resultado.estatus`, `completada`, `is_revisada` | draft, confirm, confirm batch, Excel import, invalidate, correct |
| Review and interpretation | `resultado/api/views` | the same, the marker of the interpretation, `VersionInterpretacion` | mark reviewed, complete review, save interpretation, repairs on read |
| Reports | `reporte/api/views`, `reporte/api/models` | `estatus`, `visible_cliente`, `fecha_envio`, approval, `ReporteEnvio` | generate (one, batch), approve, send to approval, publish, unpublish, e-mail (one, batch), annul |
| Values and workbook of results | `resultado/api/views` | the payload of a `Resultado`, `HistoricoResultado` | save, correct, template, import, export, judge, show the history |
| Document of a report | `reporte/api/views` | the snapshot stored with a `Reporte`, signature files | generate, upload and choose a signature, print |
| Limits and rules | `misc/api/views/dynamicTechnicalConfig`, `misc/api/services/limit_contract.py`, `muestras/api/services/limit_engine.py`, `evaluation_rules.py` | `PruebaFuenteLimite` (versions), their fields and rules; the version an assignment is pinned to | configure, activate, deactivate, restore, edit a test, save a rule, pin, evaluate, sum up |
| Predefined batches | `misc/api/*/lotesPruebasPredefinidos` | `LotePruebasPredefinido`, its details, the default of a type of management | save, delete, restore |
| Catalogues and scales | `misc/api/views/dynamicTechnicalConfig` | editions, items, the current edition; the places of a scale | create, edit, retire, restore, reorder, make current |
| Workbook of a batch | `muestras/api/views/sampleBatchExcel`, `serializers/loteMuestras`, `muestraAtributoTecnico` | a token per template; nothing until the registration | template, preview, registration |
| Sessions | `users/api/session_security.py`, `users/api/views` | the access columns and the epoch of `User`, the sessions in Redis, the counter of failed logins | login, middleware, logout, password change and reset, revoke, block |
| Accounts and invitations | `users/api/services.py`, `views/security.py`, `views/user` | `User`, `UserCompanyProfile`, `UserInvitation` | invite, resend, revoke, accept, edit, block, restore, remove |
| Roles and permissions | `users/migrations`, `users/api/views/security.py`, `sync_default_roles_and_permissions` | `SecurityRole`, `SecurityPermission`, `SecurityRolePermission` | migrate, edit the matrix, seed |
| Plant | `activesTree` | the tree, machines, sampling points, `AsignacionPuntoMuestreo` | folders, machines, points, organise, move, receive, companies |

The endpoints interact only through the database.  The calls that cross
components are few and are part of every action that makes them:
`recalcular_estado` (after most sample and result changes),
`_sync_sample_completion_from_tests` (after every change of a result or a
review), `_mark_lote_reported_if_ready` (after generating, publishing, hiding
or mailing a report), and the annulment of reports by the invalidation of a
sample or of a result.  The configuration meets the workflow at four points:
the assignment pins a version of limits, a saved value is judged with it, a
generated report copies what was judged, and a registered sample takes items of
the catalogues.  The administration meets it through `user_has_permission` and
the point a sample is assigned to.

What is hard here: derived flags that run ahead of their source; operations
that delete rows and may take evidence with them; invalidations that must reach
four tables at once; a delivery that fails half way; requests that read a row,
decide, and write later.  In the configuration: two pieces of code that must
agree on the same rule (the form that saves it and the engine that judges with
it, the preview of a workbook and the form that registers it, the verdict and
the printed bands), and editors that publish at the same time.  In the
administration: rows written whole from old copies, links that outlive the
state they were made in, and a permission matrix rewritten without a
transaction.  `PROJECT.json` lists each hazard at its line with the property
that covers it.

What makes each part correct, in words: a sample is *reviewed* only with all of
its confirmed tests completed, valid and reviewed; a batch is *reviewed* only
with its active samples reviewed, and *reported* only with each of them
delivered; nothing measured or issued is ever deleted; a report is issued only
of reviewed samples and is seen by the client only approved, not annulled, and
of a sample in force; what a client received is annulled only by an
invalidation.  A worse value is never judged better; a leaf of a test is judged
with its own rule; a stored value stays under its field; a document that is out
never changes.  A reset closes the sessions of the old password; a new
invitation supersedes the ones of its address and company; the administrator of a company reaches nothing outside
it; a role has only what somebody granted it; a sample keeps the history of its
points.

**Where it runs.** PostgreSQL at READ COMMITTED (`backend/settings.py` sets no
other level and no `ATOMIC_REQUESTS`), gunicorn for the HTTP endpoints and a
daphne process for the web sockets.  An endpoint is a transaction only where it
says `transaction.atomic`.  The code is written for requests that run at the
same time: it takes row locks, and its comments (`resultado/api/views/index.py:3383`)
count on two saves of an interpretation at once.  Two requests interleave with
more than one gunicorn worker or thread (`WEB_CONCURRENCY`, the threaded
development server); `docker-compose.prod.yml` names no number, so what it
starts by itself is gunicorn's default of one.  `EntregaConcurrente`,
`Interpretaciones`, `Sesiones`, `Permisos`, `Limites`, `Catalogos`, `Libro` and
`Predefinidos` say what the code does with several; `Laboratorio` needs none.

## 2. Modules

Read them in this order.

| Module | Models |
|---|---|
| `Lote` | the columns of one batch and the helpers shared by the endpoints |
| `Recepcion` | the endpoints of the batch, its samples and the laboratory entry |
| `Captura` | assignment, entry, import, confirmation, invalidation and correction of results |
| `Revision` | review of results, interpretation, the repairs made on read |
| `Entrega` | reports: generation, approval, publication, e-mail, annulment |
| `Laboratorio` | `Init`, `Next`, `Spec` of the whole workflow, and its properties |
| `Publicacion` | abstract specification: what the client is promised about visible reports |
| `Laboratorio_proofs` | TLAPS proofs about `Laboratorio` and `EntregaConcurrente` |
| `EntregaConcurrente` | the report endpoints statement by statement, several at a time |
| `Interpretaciones` | interpretation versions and report generation under row locks |
| `Interpretaciones_proofs` | TLAPS proofs about `Interpretaciones` |
| `Evaluacion` | the verdict on a value, the sum of the fields of a test, which rules may be saved and what the reconciliation rewrites them to |
| `Limites` | versions of the limits of a test, published by two steps; the version an assignment is pinned to and judged with |
| `Limites_proofs` | TLAPS proofs about `Limites`, `Contrato` and `Catalogos` |
| `Contrato` | the fields of a version of limits while the test they belong to is edited row by row |
| `Catalogos` | a catalogue with its editions and items, a scale with its places |
| `Libro` | the values of a result: drafts, corrections, workbook, history, requests that overlap |
| `Documento` | what a report copies when it is generated and prints from the copy (extends `Evaluacion`) |
| `Documento_proofs` | TLAPS proofs about `Evaluacion` and `Documento` |
| `Planilla` | the workbook of a batch: template, preview, registration |
| `Predefinidos` | predefined batches of tests, saved statement by statement, and the default of a type |
| `Configuracion_proofs` | TLAPS proofs about `Predefinidos`, `Libro` and `Planilla`, and about the configuration as a whole |
| `Sesiones` | the sessions of one account, each request a read and a write |
| `Cuentas` | accounts, profiles per company, invitations |
| `Cuentas_proofs` | TLAPS proofs about `Cuentas` and `Sesiones` |
| `Permisos` | the matrix of roles: migrations, editor, seed, row by row |
| `Permisos_proofs` | TLAPS proofs about `Permisos`, and about the administration as a whole |
| `Activos` | the plant: tree, machines, points, history of assignments |
| `Activos_proofs` | TLAPS proofs about `Activos` |
| `MCConfiguracion`, `MCAdministracion` | put the eight, and the four, side by side for TLC |
| `MCLaboratorio`, `MCEntregaConcurrente`, `MCInterpretaciones` | symmetry sets for TLC, and in `MCLaboratorio` the ways through the laboratory a run looks at; the values of the constants are in the `.cfg` files |

`Lote` <- `Recepcion` <- `Captura` <- `Revision` <- `Entrega` <- `Laboratorio`
is a chain of EXTENDS: one state, one module per group of endpoints.
`EntregaConcurrente` extends `Laboratorio` and adds what each request has read;
`Interpretaciones` stands alone, because what it is about (locks, versions,
contents) does not show in the columns of `Lote`.  The modules of the two
composites share no state: `parte`, chosen in `Init`, names the part a
behaviour works on, so the states of the parts add up instead of multiplying,
and one run asks all of them.

### State and code

A boolean column is the set of the rows where it is true; a row that does not
exist has the value `"no"` or `"ninguno"`.

| Variable | Column |
|---|---|
| `estado`, `ingreso` | `LoteMuestras.estado`; whether its `IngresoLabLote` exists |
| `filas`, `activas` | `Muestra` rows of the batch; `estado_operativo = "activa"` |
| `ingresadas`, `conResultados`, `revisadas` | `is_ingresado`, `is_resultado_ingresado`, `is_revisado` |
| `marca`, `invalidadoPor`, `contenido` | `campos_adicionales.interpretacion`: `estado`, `resultado_invalidado_id`, whether it has text |
| `asignacion`, `completados`, `ensayosRevisados` | `PruebaMuestra.estado_asignacion`, `completada`, `is_revisada` |
| `resultado`, `completos` | `estatus` of the active `Resultado`; whether its stored values leave no field empty |
| `estatus`, `visibles`, `aprobados`, `enviados`, `correos` | `Reporte.estatus`, `visible_cliente`, the approval, `fecha_envio`; a `ReporteEnvio` row "enviado" |

One action is one endpoint with all it calls: `ConfirmarResultado` stores the
result, completes the test, takes back the review of an invalidated result,
computes the flags of the sample again, moves the marker of the interpretation
and recalculates the batch, in one step.  The comment above each action names
its endpoint; `map` in `PROJECT.json` gives the lines.

What is abstracted: values, units and limits of a result (only whether a field
is left empty), the text of an interpretation, names and dates (only whether a
date is set), permissions (every authorised caller may call), the audit events
written beside each step (no guard reads them), PDF and mail contents.

In `EntregaConcurrente` a request is a record of what it read (report, status,
visibility, batch state) and of the statement it is at: `Leer` (get_object and
the guards), `Guardar` (the save), `Contar`, `Decidir`, `GuardarLote`
(`_mark_lote_reported_if_ready` query by query).  In `Interpretaciones` the
steps are the lock acquisitions and the commit of a transaction; what it writes
is seen at the commit.  Simplifications there, besides those the module headers
state: the insertion of a report and the check of its foreign keys are one
step; a correction and the review after it are one step (`Corregir`); the
branch that numbers interpretations older than the version table is out of
reach, no sample starts with one.

In the other modules:

* `Sesiones`: `fila` is the row of the account (password, epoch, state);
  `sesiones` the sessions the middleware looks up; `peticion` a request with its
  copy of the row.  A save with `update_fields` writes its columns, one without
  writes all of them back from the copy.
* `Cuentas`: `cuenta` (address, company, state, scope of a block), `perfil` (role and
  access per company), `invitaciones` in their order.  `autor` is whose request
  the last step was, for the properties that quantify over actors.  An address is
  compared in three ways, as in the code: as it is written (the unique column),
  as `normalize_email` leaves it (the account an invitation finds) and without its
  case (the invitations it revokes).  Nothing is locked between revoking and
  creating, so `visto`, history, says how many rows the revocation saw.  `editada`
  is history too: a form wrote the row.
* `Permisos`: `matriz` is `SecurityRolePermission`; a request first empties its role and
  then grants one code after another, so a second one interleaves and either
  may die.  `tope` and `piso` are history: all that some console granted, what
  all of them granted.  A code stands for the codes that travel with it.
* `Activos`: rows of companies, nodes, machines and points, the machine and the
  assignments of each sample; `enCurso` is the one request that has read and
  not yet written.
* `Limites`, `Catalogos`: rows by their id; a request between its reads and its
  commit is in `peticiones`, `pendientes` or, on a scale, `tramites`.  `dado` is
  history of an item of a scale: its place is one the code gave, or `reorder`
  wrote, in a request no other wrote to the scale during.  The items of an
  edition decide which edition a new one is copied from and who may write them;
  no property reads them.  `Contrato` names a node by the edit of
  the test that created it, so a stale link is visible.
* `Evaluacion`, `Documento`: the engine and the printing are operators over a
  rule, a field and a value; the state holds the rule saved, the evaluations of
  a test, the reports.  A typed text is a record (number with a point, with a
  comma, or word), never characters.  An item of a scale has an id, a label and a
  normalised value: the engine finds it by value and then by label (`Hallados`),
  the reconciliation by any of the three (`ValorCanonico`).  `Canonica` is
  `canonicalize_field_rule`: `ReconciliarRegla` replaces the saved rule by it.
* `Libro`: every payload ever stored is kept in `versiones`, with what its writer had
  read, so a lost write shows.
* `Planilla`: one row of one sheet, from the template through the preview to a
  sample of a new batch or of one that is there, of any company;
  `retoques` counts what is changed in between, `mudadas` (history) the items that
  a form moved to another catalogue since the sample was stored.
* `Predefinidos`: `predefinidos` are the rows with their details; `redaccion` what
  each save has still to do (it is no transaction: the row, the deletion of the
  details, one detail after another, the mark of the others); `cortados` is
  history: batches some save of which did not reach its end.

## 3. What is checked

Runs that pass:

| Run | Instance | What it shows |
|---|---|---|
| `tramos` | 2 samples, 1 test, 1 report, `SpecTramos` | types; a reviewed sample has all its confirmed tests completed, valid and reviewed (`RevisadaRespaldada`); a batch shown as reviewed has every active sample reviewed (`LoteRevisadoRespaldado`); a closed batch has a delivery of every active sample (`ReportadoEntregado`); the laboratory implements `Publicacion` (`CumplePublicacion`) |
| `ensayos` | 1 sample, 2 tests, 1 report | evidence belongs to what entered the laboratory (`EvidenciaIngresada`) and is never deleted (`EvidenciaConservada`); a report is issued only of reviewed, valid tests (`EmitidoSoloRevisado`); the client sees only approved reports in force (`LiberadoSoloVigente`); what the client received is annulled only by an invalidation (`AnuladoPorInvalidacion`) |
| `c_peticiones` | 2 reports; 2 requests that deliver, or 1 of any kind | two deliveries at the same time still close the batch (`CierreAlcanzado`); one request at a time, statement by statement, is one action of `Laboratorio` (`PeticionAtomica`): the refinement that justifies the grain of the core |
| `interpretaciones` | 2 samples, 2 requests of every kind | version numbers never collide (`ConsecutivoLibre`); no report of a batch generation in force rests on an invalidated result (`InformeDeLoteVigente`), and what it issues is what its samples hold (`LoteConContenidoVigente`); with no help from the deadlock detector every request ends, unless a batch generation stays in a cycle of waits (`TerminaSinDetector`) |
| `configuracion` | `MCConfiguracion`, see below | fifteen properties of the eight modules of the technical configuration |
| `administracion` | `MCAdministracion`, see below | nine properties of the four modules of the administration |

What `configuracion` asks, part by part:

| Property | Module | In words |
|---|---|---|
| `SeveridadMonotona` | `Evaluacion` | a threshold rule that could be saved judges every number, and one farther out is never judged better |
| `VeredictoCanonico` | `Evaluacion` | rewriting a rule for its field takes no verdict away and makes none milder, changes none unless a limit was the id of an item, and rewriting it again changes nothing, on a scale where no text of an item reads as another (section 7 says what happens on the others) |
| `GruposNoCambianElVeredicto` | `Evaluacion` | the verdict on a test is the worst of its fields, however they are grouped in results |
| `RespuestaUnica` | `Limites` | a save repeated with its key, whatever overlaps it, is answered with one version |
| `ReglaDeSuHoja` | `Contrato` | after an edit of a test no leaf is judged with the rule of another, in any version |
| `VigenteUsable` | `Catalogos` | without overlaps the current edition can be used |
| `OrdenUnico` | `Catalogos` | the items whose place the code gave, or `reorder` wrote, in a request no other wrote to the scale during, keep different places, whatever is created at once, placed by hand, brought from another scale, restored or saved late beside them |
| `ImpresoFiel` | `Documento` | the bands a report prints agree with the verdict of the engine, number by number (`BandasFieles`), and the row of a result is never printed milder than a field of it (`FilaNoMejora`) |
| `DocumentoConservado` | `Documento` | what happens later leaves the document of every report as it was |
| `JuzgadoPorSuCampo` | `Libro` | a stored value is judged as a field it fits, whatever was done to the test since |
| `HistoriaCompleta` | `Libro` | the history shows every version but one that was overwritten unread |
| `ImportacionEntera` | `Libro` | an import stores all its cells or none, and its export puts each under its field |
| `PlanillaFiel` | `Planilla` | what the template offers is read; what the preview accepts is registered, as it was written, in a batch of the template's company; a sample of a new batch of that company, or of a registered point, is of the company of its batch; an item is stored with its own catalogue until the item itself is moved |
| `PredeterminadoUnico` | `Predefinidos` | a type of management has one batch by default, but while one is being saved or after a save that was cut off |

and what `administracion` asks:

| Property | Module | In words |
|---|---|---|
| `SesionDeClaveVigente` | `Sesiones` | after a reset no session opened with an older password is accepted, also one of a login that was under way |
| `InvitacionSustituida` | `Cuentas` | by whichever endpoint an invitation comes to be, those of its address and company that it saw are pending no more, whatever happens to the account and to its address |
| `SoloEnSuEmpresa` | `Cuentas` | the administrator of a company changes nothing of another company (`EmpresaAjenaIntacta`) and gives company roles only (`RolDeEmpresa`) |
| `MatrizAcotada` | `Permisos` | however many consoles write a role at once, or die half-way, it has no permission none of them granted, and in the end all that every one did |
| `SeparacionDeFunciones` | `Permisos` | through every migration and seed, finished or cut off, a laboratory role nobody edited delivers no report |
| `RaizFiel` | `Activos` | every active company has exactly one root, labelled with its name |
| `PuntoFiel` | `Activos` | one assignment of a sample in force, to a point of its machine |
| `HistorialConservado` | `Activos` | the history of a sample is only added to |

`TiposConfiguracion` and `TiposAdministracion` are their type invariants.

Runs that find a disagreement with the repository's own words are in section 6.
Deadlock is checked in the runs of the workflow: some endpoint is always
enabled.  In `configuracion` and `administracion` it is not: there every
operation is counted, and a behaviour stops when the bounds are used up.

**Bounds of the workflow.**  Nothing relates two samples of a batch except the
quantifiers of `EstadoDeMuestras` and of the closing (all, some, none: two
samples show each), nothing relates two tests of a sample except "all confirmed
tests" and the id the marker keeps (two tests), and nothing relates two reports
of a sample except the last version and "any annulled" (two versions).  The
product of the three is out of reach, so each run takes two of one and one of
the others; the proofs of section 5 have no such limit.  `SpecTramos`
names in `tramo` which way a behaviour goes: "todo" is `Next` (the run `ensayos`),
"analisis" every endpoint but those of the reports, "entrega" the straight way
to a reviewed batch and then every endpoint that touches a report, a sample or
the batch: with all of `Next` two samples and their reports are too many.  `MaxInformes` bounds the versions of a sample:
generation stops there.  In `Interpretaciones` a request starts only while the
sample has fewer than `MaxVersiones` versions and `MaxReportes` reports; requests in
progress may pass them, so two collide at the bound.  Two requests are enough
for every cycle of waits there is: a batch generation against a save or an
invalidation; two that lock samples in the order of their ids do not wait for
each other in a circle.

**Bounds of the configuration.**  Numbers `0..2`: a rule has at most four
thresholds, the saved ones are ordered, and the properties compare two values
with two neighbouring thresholds; three numbers give below, on and above each.
Thresholds are sent as nothing, a number, a number with a comma or a word,
because the form and the engine read these with different code.  Three versions
of limits with two requests (one in force, two that overlap); three edits of a
test (a node, its successor, and one more for a link two edits old); three
editions of a catalogue; two scales with two rows, two values and two places,
and two requests on a scale under way (two additions, or a list of `reorder` and
an edit that comes late); two samples, two signature files and five requests around a report;
`MaxHistorial = 1` where the code draws 100 samples, so that the cut of a chart
happens; two tests, two fields, two requests and four movements around a
result; two technical fields, two catalogues, two titles, two companies and two
changes between template and registration of a batch (changes made before a
template is downloaded only move its start, which `Init` already varies; one
change when the batch is of another company than the template, none after a
refusal).  A
catalogue has at most three editions and open requests together
(`MaxActividad`).  The part `regla` takes every field (type, operator, scale) and
every rule a form can send for it, once, and then its rewriting, with three scales for
the engine to read: one as the forms make it, one of numbers whose ids are
other numbers of it, one whose labels were changed by themselves; a rule that
carries an operator of its own is tried on a numeric field with operator "max".
Two predefined batches of one type, two requests and three saves: one batch is
the default, the other is deleted or restored, and two saves overlap; the list
of details is left out, empty, one detail, or one twice (which the unique index
refuses).

**Bounds of the administration.**  Two requests on an account, one of them at a time
a writer (two in `v_sesion`), three epochs, two passwords, `LOGIN_MAX_ATTEMPTS = 1`;
a client company (two in `v_traslado`) and Global Oil, two invitations; two consoles with two
requests in all and four matrices that differ in the pairs of permissions the
properties tell apart; three nodes, two machines, two points, one sample with
two assignments.  The accounts are looked at
twice, because together they are too many states: the part "cuentas" takes one person
with one address and every endpoint, also of the administrator of a company; the
part "correos" two people and an address in three spellings, and what Global Oil
does with accounts and invitations.  `PuntoFiel` needs two machines (a sample
that moves) and two points (one per machine).

**Symmetry** of samples, tests, requests and consoles is used where no property
is a liveness property and no order of ids matters (samples are not symmetric in
`Interpretaciones`, which locks them by id; nor in `Documento` and `Libro`, which
sort by it).

**Fairness.**  The core, the configuration and the administration have none and
state no liveness: nobody has to call an endpoint.  `SpecEquitativa` of
`Interpretaciones` is strongly fair per request: one that started and can go on
again and again does (`Sigue`).  Its own statements only need the processor; the
steps that wait for a row or need it free (`Bloquea`, `Confirma`) are granted because
PostgreSQL queues the waiters of a row and wakes them in order, and every
holder releases.  Nothing is asked of the deadlock detector: `Abortar` may happen in
an embrace and may as well never happen, so `TerminaSinDetector` says what the
order in which the code takes its locks achieves by itself.  Starting a request
and `Corregir` have no fairness.

## 4. The abstract specification

`Publicacion` has two variables, the samples in force and the visible reports,
and says that a report becomes visible only while its sample is in force and
that a sample leaves together with everything the client sees of it.
`Laboratorio` implements it with `vigentes <- activas`.  What matters in it is
the invalidation of a sample, which must hide reports of every status in the
same step, and the repeated approval, publication and mailing of old versions.

## 5. What is proved

Every invariant and every action property of the passing runs is a theorem, for
every value of the constants their assumptions allow; what each proof rests on
is said below.  `TerminaSinDetector` is the one property of a passing run that
only TLC checks, and half of it is proved.

### The workflow

For any sets of samples and tests and any number of versions, from
`LoteAssumption` alone (`MaxInformes \in Nat`, and the value for "no result"
is no test):

* `Laboratorio_proofs`: `Spec => []IInv` (theorem `Invariante`), and from it
  every safety property of the two core runs, the action properties, and
  the refinement `LaboratorioCumple`.
* `IInv` is the conjunction of `TypeOK`, `EvidenciaIngresada`,
  `RevisadaRespaldada`, `LoteRevisadoRespaldado`, `LiberadoSoloVigente` and
  `ReportadoEntregado`.  They need one another: that an assignment leaves
  reviewed samples reviewed needs that what it may not touch is protected
  evidence; that a deleted sample takes no report along needs that reports
  belong to samples that entered; that a closed batch stays delivered
  while its samples change needs the types of the rows that do not exist.
* One lemma per conjunct and group of endpoints, with one step per action; the
  helpers (`Recalcular`, `Sincronizar`, `MarcarReportado`, `AnularInformesDe`)
  have lemmas of their own, cited by name.

For any samples, requests and bounds, from `InterpretacionesAssumption`:

* `ConsecutivoSiempreLibre`: `Spec => []ConsecutivoLibre`.  The inductive
  invariant `Numeracion` adds that a save about to commit holds the row of its
  sample (`CandadoTomado`) and the shape of the requests.
* `InformeDeLoteSiempreVigente`: `Spec => []InformeDeLoteVigente`.  The
  inductive invariant `Vigencia` adds that a sample with an invalidated result
  is not reviewed, which is what the batch generation reads under the lock.
* `LoteSiempreConContenidoVigente`: `Spec => LoteConContenidoVigente`.  The invariant
  `Reparto` adds to `Numeracion` what a request holds at each statement (`Tenencia`): the
  content a batch generation read is of a sample it has locked since.
* `AbrazoSiempreSoloDelLote`: `Spec => []AbrazoSoloDelLote`, the part of
  `TerminaSinDetector` that is no liveness: two requests that wait for each other
  are a batch generation and another.

For requests to the report endpoints, statement by statement
(`EntregaConcurrente`), any number of them and any finite batch
(`IsFiniteSet(Muestras)`: `Cardinality` is what the queries count):

* `CierreSiempreAlcanzado`: `SpecModos => []CierreAlcanzado`, for a batch with a
  sample (the code never closes an empty one) and requests that withdraw nothing
  (`SinRetiradas`: approve, publish and send, what `Concurrentes` is in the run;
  with `ocultar` or `anular` `v_c_terminal` shows a closed batch that is not
  delivered).  A request counts the live rows but compares with the state of the
  batch it read, so the invariant `NadaRetirado` says what its copy is still worth
  (`Concedido`) and that a batch with every sample within reach is closed or has a
  request under way that will close it (`EnCamino`).  A failed e-mail
  that read its report as visible counts as within reach (`Restituye`): it will
  write that column again.
* `PeticionSiempreAtomica`: requests that do not overlap refine `Laboratorio`, with
  the refinement mapping `estado <- EstadoAlFinal`.  The save of a report is the
  step of the abstract endpoint, and every other statement is a stutter, because
  the copy is still what the rows say (`DeUnaEnUna`).

### The administration

For any finite set of consoles and any matrices they send, from
`ConsolasFinitas`, `MatricesDeCodigos` and `LibreAparte` (the mark of an idle console
is no request):

* `MatrizSiempreAcotada`: `SpecPermisos => []MatrizAcotada`.  The invariant needs to
  say what the consoles have still to grant: all of it was granted by somebody
  (`FaltanBajoTope`), and a code every one of them granted is in the matrix or
  still to come from one that is writing the role (`PisoCubierto`).
* `SeparacionSiempre`: `SpecPermisos => []SeparacionDeFunciones`.  Inductive with
  what the consoles still hold for the laboratory (`SinEntregas`), migration by
  migration.

For any people, companies, roles and number of invitations, from
`EmpresasAparte` (the clients are not the company of Global Oil nor an internal
one), `RolesConocidos` (a role has a scope) and `PedidosTipados` (a form is answered
400 when it sends a value that is no choice of its column):

* `CuentasTipadas`: `TiposCuentas` is inductive as it stands.
* `InvitacionSiempreSustituida`: `InvEnviadas` is inductive with the types; it adds that an
  invitation saw only rows older than it (`VistoAntes`).  Every endpoint that adds one
  starts from rows of which none it saw is pending for the address and company
  (`Despejadas`: `RevocadasDespejan` for a new invitation, `ReenvioDespeja` for one
  sent again), and no other endpoint makes one pending but the form that writes
  an invitation, which the property names (`editada`).
* `SoloEnSuEmpresaSiempre`: an action property, from the types alone.
  `invite_admin` asks nobody for the role: it is the scope of the role and of the
  company that keep it from handing out one of Global Oil.

For any number of logins and other requests, from `SesionesAssumption`:

* `SesionSiempreDeClaveVigente`, with `Escrituras <= 1` (one request writes the account
  at a time, as in the run; with two the second writes back the epoch it read,
  finding `v_sesion`).  The invariant `InvSesiones` says that what a writer copied is still what the row
  holds (`CopiaFiel`), that no session and no login is ahead of the row
  (`NadieAdelante`), and that who holds its epoch knows the password of the last
  reset (`ClavesVigentes`).
* `SesionesTipadas`, for any number of writers.

For any plant and samples, from `FilasAparte`, `HayFilas` (a company, a name and a
row of the tree exist) and `FormasDeCarpeta` (a folder form sends a row):

* `PuntoSiempreFiel` and `HistorialSiempreConservado`: the invariant says what a request
  that has read keeps in memory (`LoLeido`) and, when requests do not overlap, that
  it is still true when it writes (`SigueCierto`): without it `organize` could assign
  a point of the machine the sample had.  Every action is first shown to be a
  `PasoBien` (each sample left alone, its point retired, or given one point), from
  which both results follow.
* `RaizSiempreFiel`: `SpecActivos => []RaizFiel`.  The invariant `InvArbol` adds that a
  company has at most one root, inactive ones too, and that a machine is of a
  company that exists: `NodoAsegurado` renames the root of that company on the way.
* `ActivosTipados`: from both invariants.

The areas together: `AdministracionTipada` and `AdministracionCorrecta` state what the
run `administracion` checks of `Areas`, the four specifications at once, in any order
of their requests and without a bound of the run (what is said of the sessions
with `Escrituras <= 1`).  `CadaAreaEsLaSuya` says that a behaviour of the composed
specification is one of each area, the others stutter.

### The configuration

For any tests, keys, requests and bound of versions, from `VacioNoEsDato` and
`CotaDeVersiones`:

* `RespuestaSiempreUnica`: `RespuestaUnica` is inductive with the types, with
  `ClaveDeUnaVersion` (a key is of one row: the unique index) and with
  `RespondidaConLaFila` (whoever used a key was answered with its row).
* `LimitesTipados`: that a version gets a number of `Versiones` needs `Numerada` (the
  number of a version is at most that of its row) and that the greatest number and
  the current version exist: `HayMaximo`, from the library's well-founded order of
  the naturals.

For any codes, versions and number of edits of a test, from `TodaAparte` and
`EdicionesAcotadas`, and any editions, items and places, from `CotasDeCatalogo`,
`EscalaFinita` and `NingunaAparte`:

* `SiempreReglaDeSuHoja`: while the link is faithful every field in force is of a
  leaf the test has and of the node of that leaf (`Ligados`), through each of the
  rows an edit writes.
* `VigenteSiempreUsable`: while nothing overlaps, what the one request under way has
  checked still holds when it writes (`SinSolapes`).
* `OrdenSiempreUnico`: the invariant `PlazasDistintas` says of the items whose place is
  `dado` that it is theirs alone, and of the place a request under way has
  computed that no such item has it, as long as no other wrote to the scale.
* `ContratoTipado`, `CatalogosTipados`; the latter says that a new edition never
  gets the number of another, deleted or not.

For any numbers, thresholds and results, from `NumerosEnteros`, `NadaAparte` and
`ResultadosFinitos`:

* `SeveridadSiempreMonotona`, `CanonicaSiempreJuzgaIgual` and `ImpresoSiempreFiel` are
  lemmas about the operators (`Evaluar`, `Canonica`, the bands of the document) for
  every rule there can be, over all integers, and any scale of a finite number of
  items (for `Canonica` where no text of an item reads as another), and hold in each state because the
  rule and the evaluations keep their form (`Formadas`).
* `GruposNuncaCambianElVeredicto`: the worst of the groups is the worst of the
  fields, for any finite set of results.

For any finite batch, texts, places and numbers of files and requests, from
`LoteFinito`, `NadaSinArchivo` and `HaySitios`:

* `DocumentoSiempreConservado`: the invariant is `FirmasGuardadas`: a report is signed
  with nothing or with a file stored before it.  Were it to name a file still to
  come, a later upload would change what it prints.
* `DocumentoTipado`.

For any structure of a test, any requests and files of the types the forms take
(`EntradasDelLibro`, proved of the inputs of the run in `EntradasDeLaCorrida` from
`DosCasillas`), from `LibroEnOrden`:

* `JuzgadoSiemprePorSuCampo` and `HistoriaSiempreCompleta`: the invariant `InvLibro` says
  of what a request is about to write that it fits its fields and was read from
  a row that kept all before it (`EscrituraFiel`); a version that a request which had
  not read it wrote over is named (`Perdida`), because the code loses it.
* `ImportacionSiempreEntera`: `InvImportacion` follows a file test by test
  (`ImportaBien`: what is not in the rest is already among the writes).
* `LibroSiempreTipado`.
* The order of the columns is a finite set of numbers listed from the least: the
  module proves that there is such a list and that it names each once
  (`DeMenorAMayor`), which the fields, the cells and the export rest on.

For any technical fields, catalogues, plant and written rows, from
`PlanillaFinita`, `FilasPosibles` and `SinDatoNoEsFila` (an empty cell is no row):

* `PlanillaSiempreFiel`: `InvPlanilla` adds what the preview read, title by title
  (`LeidaFiel`), and that, as long as nothing changes, the form takes what the
  preview passed (`AunVale`).  The endpoint that adds rows to a batch takes any
  batch, so the company of a sample is said of new batches only.
* `PlanillaSiempreTipada`.

For any batches, types of management, requests and lists of details, from
`ListasTipadas` and `SindatoAparte`:

* `FormadosSiempre` and `PredeterminadoSiempreUnico`: `PredeterminadoUnico` is
  inductive together with the types and with `LoteRedactado` (a save under way is
  of a batch whose row was written).  The step that matters is the end of a
  save: a pair it leaves marked is not of its batch, so another save, or a cut,
  excuses it.

The parts together: `ConfiguracionTipada` and `ConfiguracionCorrecta` state what the run
`configuracion` checks of `Areas`, the eight specifications at once, for any lists,
files and types a client may send (`EntradasDelLibro`).  `CadaParteEsLaSuya` says
that a behaviour of the composed specification is one of each part with inputs of
that kind.  The bounds it adds (`MaxEnServicio`, `MaxActividad`, `CambiosDeLaFila`,
`UnaPersona`, `VariasDirecciones`) only take behaviours away, so they play no role.

**Scope.**  `Next` holds the workflow endpoints.  The generic endpoints of the
same viewsets (POST reports, PATCH results and `revisar`, POST/PATCH sample-tests
and samples) write columns directly and are not in `Next`: the theorems say what
the workflow preserves, not what an administrator may overwrite.  The generic
PATCH of a batch, which stores any state, is in `Next` (`EditarLote`).

**Only model-checked**: `TerminaSinDetector` (liveness is out of the prover's reach;
`AbrazoSoloDelLote` is the part of it that is not) and that every action can happen.  The disagreements of section 6 are false, so TLC
shows them.

**The assumptions.**  Each says what a column or a form is (values of its type, a
null that is no value, a batch and a scale that are finite), names a bound, or,
for `Escrituras <= 1`, `SinRetiradas` and `modo`, what a property is claimed of; in
each of these cases a run or section 7 shows what happens otherwise.  TLC evaluates
every ASSUME in the runs.

## 6. Findings

Each is the shortest behaviour TLC finds from the initial state.

* `v_publicado_sin_rechazo`: a result is invalidated and its report annulled;
  `aprobar` sets the annulled report to "aprobado"; `publish_client` accepts it.
  The client sees a report of an invalidated result.
* `v_c_terminal` (several workers): `publish_client` counts every sample as delivered;
  `unpublish_client` of the same report runs to its end, seeing a batch that is
  not closed; the first request then saves the batch as "reportado".
* `v_i_enlace` (several workers): `generate-from-interpretation` reads the content with the
  sample; a save stores a new version; the generation then asks for the last
  version and links it to the old content.
* `v_traslado`: company A invites a person; before the link is used Global Oil
  moves the person to company B; then the first link is accepted.
  `accept_invitation` stores the company of the invitation without looking at the
  account: it is back in A, by an invitation that declared no change of company,
  with the profile in B still active.
* `v_sesion` (several workers, two writers of one account): an edit of the
  user reads the row; a block stores its columns and revokes, which raises the epoch
  of the account; the edit then saves the whole row
  (`users/api/views/user/index.py:400`) with the epoch it read.  A session opened
  before the revocation is accepted again, so `RevocadaNoVuelve` does not hold;
  `SECURITY_SESSIONS.md:13` and `:72` promise that it is not.  The other whole-row
  saves (`:390`, `:506`, `services.py:669`) do the same.
* `v_contrato`: a test is assigned with version 1 of its limits; version 2 is
  published; the next value of that assignment is judged with version 2,
  because `_matching_limit_fields` reads the active versions and asks the pinned
  one only when none applies.

## 7. Known disagreements without a run

Met while modelling; the behaviour is in the models unless the entry says otherwise,
and the property it breaks is not kept.

* A failed e-mail stores `fecha_envio` (`reporte/api/views/index.py:1280`), and
  the closing query takes `fecha_envio` for a delivery (`:139`): a batch can be
  closed with a report nobody received.  `Entregado` is the query as it is.
* `exclude(reportes__estatus="anulado")` (`:144`) rejects a sample that has any
  annulled version: after an invalidation and its correction the new report is
  published and the batch never closes.  `Entregada` is the query as it is.
* Closing ends nothing: PATCH of the batch, `recalcular-estado`, an
  invalidation or a correction move a reported batch on (`Recalcular` keeps only
  "cancelado" and "borrador").
* `publish_client` reads the sample and the report, saves later, and locks
  nothing: over an invalidation or an annulment in between, an annulled report
  is visible, or one of an invalid sample (`EntregaConcurrente` with `Tipos`
  "publicar" and "invalidar" or "anular"; `LiberadoSoloVigente` is an invariant
  of `Laboratorio` only).  The same holds of `generate-from-interpretation`
  against the invalidation of a result (`Interpretaciones`: the report is in
  force; `InformeDeLoteVigente` is about the batch generation only).
* `excel_import` and `confirm_batch_results` replace an invalidated result
  and leave the marker "requiere_revision" (`resultado/api/views/index.py:2837`)
  with the id of a result that no longer holds; reading the interpretation
  repairs it.
* One rejected result opens every test of the batch for entry
  (`muestras/api/services/workflow.py:72`): a draft over a reviewed test keeps
  the review of the value it replaces.
* A confirmation that leaves fields out is not validated for them
  (`resultado/api/views/index.py:1731`): the test is completed and can be
  reviewed with empty fields.
* PATCH stores the state "cancelado" on a batch the cancel endpoint refuses
  (`serializers/loteMuestras:616`).
* Deliveries that fail also write `visible_cliente` back (`:1285`), and a report is
  published over an invalidation that ran after the guards were read (`:1179`).
* PATCH of a test's review flags and POST of a report write columns directly
  (`:767`); the next identifier of a sample is read outside any lock
  (`muestras/api/models/muestras/index.py:101`).

Administration:

* Failed logins that overlap pass the throttle together (`session_security.py:42`).
* Invitations are revoked by address (`users/api/services.py:514`): a person who is
  invited, given another address and invited again has two links that can be
  used.  Two invitations that overlap leave two as well, nothing is locked between
  revoking and creating; and the form that writes an invitation
  (`RolDeEmpresa` and `InvitacionSustituida` except what it wrote) stores its address,
  company, role and state as they are sent.
* Unblocking an account makes its removed profiles active again; the scope
  GLOBAL of a block is honoured by `unblock` and `restore_write`, not by
  `reactivate`, `read_only` and `accept`; removing a profile disables without
  revoking the sessions; `restore_write` leaves `is_active` false; resending or
  revoking turns an accepted invitation into a revoked one; an invitation
  changes the role of an active profile before it is accepted.
* Two edits of one matrix that overlap leave the union of both; a request that
  dies half-way leaves less than it was sent with; `user_has_permission` ignores
  whether the role is active; a role whose codes are refused stays saved with
  no matrix.  After the migrations `revisor_interpretador` keeps
  `dashboard.ver_global` (0003 grants the prefix, 0015 says "dashboard global
  only") and `laboratorista` keeps `revision.ver_historico`; the read-only roles
  lack `importaciones.ver` and `trazabilidad.ver` until a seed.
* PATCH of a point's machine leaves the assignments of its samples behind
  (`trasladados` in `PuntoFiel`); retiring a point reads before it locks
  (`activesTree/api/views/index.py:407`); a machine that changes company leaves its
  node in the old one; destroying a machine deactivates its points and leaves
  their assignments active; a folder form can close a cycle; duplicate roots
  are merged by code no request reaches.

Configuration:

* Two overlapping publications leave two active versions of a test, even with
  one number (`dynamicTechnicalConfig/index.py:994`; `:693` says "Exactly one
  default version per test").  An unpublished draft is active.  An edit of a test
  that fails half-way, or two at once, leave leaves judged with another's rule
  or by none (`enlace` in `ReglaDeSuHoja`); generating the fields again erases
  their values; a key that meets the unique index answers with the version of
  another test.
* Choosing the current edition and retiring it at once leaves a retired edition
  current (`limpio` in `VigenteUsable`); items of an "immutable edition" stay
  editable; a scale item renamed to the value of a deleted one always fails.
* The place of a scale item is read and written apart (`serializers/dynamicTechnicalConfig/index.py:202`):
  two additions that overlap get one place; an edit that chooses another scale
  brings its old place along, one that read the row before a `reorder` writes the
  old place back, and a restored item comes back in its old one.  An edit that
  sends only the label sets the normalised value from it again.
* On a scale where the id of one item is a text of another (labels "0", "1" with ids
  1, 2) the reconciliation rewrites a limit into another item's
  (`limit_contract_reconciliation.py:41`), and a second time into a third; a limit
  given as an id, which the engine cannot read, becomes one it can
  (`Inequivoca` and `PorLlave` in `VeredictoCanonico`).
* A rule of difference is printed as "must be" (`reporte/api/views/index.py:458`); of
  two results of one test with one name the second prints the verdict of the
  first (`:1864`); a field out of limits prints ALERTA while its row is CRITICO;
  charts keep the newest hundred samples, so an older report may not show its
  own, and include results nobody reviewed.
* A field without a stored value prints another one's by position in the
  export; one draft with the keys of an older structure makes every import of
  that test fail although the preview accepts it; two overlapping saves lose
  each other's cells, two first ones create two rows; a correction of a payload
  without fields fails.
* A mandatory field of a deleted catalogue is left out of the template and
  required at the registration; an optional one written blank is refused there;
  two fields that swap title and order keep the fingerprint of the template;
  the token of a template is never marked as used.
* The endpoint that adds samples to a batch (`views/loteMuestras/index.py:439`)
  checks the company of neither point nor machine: a row of a machine of company A
  is filed in a batch of B.  A new batch whose company is not the template's
  takes a row that names only a machine of another company.  An item that a form moves to
  another catalogue leaves stored attributes with the catalogue it was in
  (`mudadas`).
* The reconciliation of the rules drops the operator a rule carries
  (`limit_contract_reconciliation.py:64-101`) although
  `dynamicTechnicalConfig/index.py:1376` calls the rule of the matrix authoritative: such a
  rule is judged with the operator of the field from then on, the list of an
  `in` becomes an upper limit no number can be compared with, and the form would not
  accept some rewritten rules.
* A predefined batch whose save is cut off, or that names a test twice in one
  place, keeps half of its details and may leave two defaults of its type;
  overlapping edits mix their details.  A detail keeps the catalogue of a test
  whose source moved to another one
  (`reconcile_test_predefined_details` clears it only when there is none), and the
  batch cannot be saved again until it is chosen anew.

## 8. What is not modelled, and the plan

| Part | Why not |
|---|---|
| Generic endpoints of results, reports, sample-tests and samples | planned: `EdicionDirecta`, the workflow with the columns those endpoints write, to say which properties survive them |
| Generic PATCH of a version of limits, limit types without thresholds, `_mapped_evaluation` | forms that write one column, or tables without a rule between two values |
| Dates, periods, units, sizes and sheets of the workbook of a batch; the sheets of its parser | formats; one row of one sheet carries every decision the code takes on the data |
| `users/me` | what it does to sessions is the request "editar" of `Sesiones`, a save of the whole row; that its serializer leaves `role`, `access_status`, `is_read_only` and `block_scope` to the user who calls it is not in `Cuentas`, whose actors write the accounts of others |
| `data_scope.py`, migrations 0007 and 0012 | which rows a list shows; codes no property tells apart |
| A scale item with an empty normalised value; `numero_base` of an item | the forms always store one; a field that orders its scale by that number instead of the place is judged by the same comparison (`limit_engine.py:745`) |
| Companies, tests | master data without a protocol between rows, besides what `Activos` and `Contrato` take from them |
| The details of a predefined batch against the limits of their tests | the form checks one row against one row; the reconciliation of them is one write per row |
| Traceability and audit log | written beside each step, read by no guard |
| Dashboard | read-only aggregates |
| Layout of the PDF and the mails, other commands, importers, purges | input and output, administration by hand |
| A crash between the mail and the save | planned as further outcomes of `EnviarCorreo` |

Order of the plan.  `EdicionDirecta` and the outcomes of a crash around the mail,
with the proofs of what survives them.  Of what is modelled, two statements are still
worth a proof: what the circuit of reports keeps when `ocultar` and `anular` overlap
the other requests (`CierreAlcanzado` fails there, `v_c_terminal`), and what `Sesiones`
keeps with two writers (a revoked session comes back only through a row written whole).
