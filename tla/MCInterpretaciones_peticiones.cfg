CONSTANTS
    Muestras = {1, 2}
    Peticiones = {r1, r2}
    Tipos = {"guardar", "generar", "generarLote", "invalidar"}
    MaxVersiones = 1
    MaxReportes = 1
    NADIE = NADIE

SPECIFICATION SpecEquitativa

INVARIANTS
    ConsecutivoLibre
    InformeDeLoteVigente

PROPERTIES
    LoteConContenidoVigente
    TerminaSinDetector
