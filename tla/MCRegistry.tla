----------------------------- MODULE MCRegistry -----------------------------
(* The import on Linux, macOS and an unsupported platform, and the         *)
(* construction of benchmarks with two registrations (bitcount), with a    *)
(* sanitizer subset (jpeg-c, stringsearch2), with a result hook (sha) and  *)
(* with no validator at all (adpcm, whose calls are commented out).        *)
EXTENDS Registry

MCBenchmarks == {"bitcount", "jpeg-c", "stringsearch2", "sha", "adpcm"}
MCPlatforms == {"linux", "darwin", "win32"}

=============================================================================
