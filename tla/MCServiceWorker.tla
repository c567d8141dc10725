--------------------------- MODULE MCServiceWorker ---------------------------
(* An instance of ServiceWorker: two versions that share a chunk, of which the *)
(* first has one more, and the manifest, whose name says nothing of its        *)
(* content.                                                                    *)
EXTENDS ServiceWorker, TLC

MCVersions == {"v1", "v2"}
MCPaths == {"app", "report", "manifest"}
MCAssets == "v1" :> {"app", "report", "manifest"} @@ "v2" :> {"app", "manifest"}
MCStatic == {"manifest"}
=============================================================================
