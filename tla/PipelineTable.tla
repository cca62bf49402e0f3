----------------------------- MODULE PipelineTable -----------------------------
(***************************************************************************)
(* The Diffusers pipeline classes, one record each.  A class registers the *)
(* variants it serves (model and task), and overrides the stages of        *)
(* BasePipeline; the classes differ in the inputs they ask for, the paths  *)
(* they open, whether they look for cached prompt embeddings, the file     *)
(* they write, and what the pipeline they keep is keyed by.                *)
(***************************************************************************)
EXTENDS TLC

\* register_model: the variants, the inputs validation asks for, the executor.
Variants(models, task, requires, mode) ==
    [models |-> models, task |-> task, requires |-> requires, mode |-> mode]

\* The stages: inputs the class asks for itself, input files it opens, whether it
\* passes a negative prompt on and injects cached prompt embeddings, and what export
\* writes.
Stages(needs, opens, embeds, output) ==
    [needs |-> needs, opens |-> opens, negates |-> TRUE, embeds |-> embeds, output |-> output]
WithoutNegative(stages) == [stages EXCEPT !.negates = FALSE]

\* pipeline_cache_key: what the kept pipeline is compared by.
CacheKey == {"source", "dtype", "scheduler"}

\* _load_pipeline: the key, and the values of config "scheduler" it can build.
Loading(key, schedulers) == [key |-> key, schedulers |-> schedulers]
Named == {"default", "other"}
Native == {"default"}

----------------------------------------------------------------------------
(* Registered with the legacy executor: BasePipeline.run runs the stages.  *)

SD15Variants == Variants({"sd15", "sd21"}, "text2image", {"prompt"}, "legacy_call")
SD15Stages == Stages({"prompt"}, {}, TRUE, "images")
SD15Loading == Loading(CacheKey, Named)
SD15Pipeline == SD15Variants @@ SD15Stages @@ SD15Loading

SD15Image2ImageVariants ==
    Variants({"sd15", "sd21"}, "image2image", {"image", "prompt"}, "legacy_call")
SD15ImageToImagePipeline ==
    SD15Image2ImageVariants @@ Stages({"prompt", "image"}, {"image"}, TRUE, "images") @@ SD15Loading

SD15InpaintVariants ==
    Variants({"sd15", "sd21"}, "inpaint", {"image", "mask", "prompt"}, "legacy_call")
SD15InpaintPipeline ==
    SD15InpaintVariants
    @@ Stages({"prompt", "image", "mask"}, {"image", "mask"}, TRUE, "images") @@ SD15Loading

SD3Variants ==
    Variants({"sd3-medium", "sd3.5-large", "sd3.5-large-turbo"}, "text2image", {"prompt"},
             "legacy_call")
SD3Stages == Stages({"prompt"}, {}, TRUE, "images")
SD3Loading == Loading(CacheKey, Native)
SD3Pipeline == SD3Variants @@ SD3Stages @@ SD3Loading

SVDVariants == Variants({"svd", "svd-xt"}, "image2video", {"image"}, "legacy_call")
SVDStages == WithoutNegative(Stages({"image"}, {"image"}, FALSE, "video"))
SVDLoading == Loading(CacheKey, Named)
SVDPipeline == SVDVariants @@ SVDStages @@ SVDLoading

AnimateDiffSDXLVariants == Variants({"animate-diff-sdxl"}, "text2video", {"prompt"}, "legacy_call")
AnimateDiffSDXLStages == Stages({"prompt"}, {}, TRUE, "video")
\* The path of the motion adapter is part of the source in the key.
AnimateDiffSDXLLoading == Loading(CacheKey \union {"motion_adapter"}, Native)
AnimateDiffSDXLPipeline ==
    AnimateDiffSDXLVariants @@ AnimateDiffSDXLStages @@ AnimateDiffSDXLLoading

ChronoEditVariants == Variants({"chronoedit"}, "edit", {"image", "prompt"}, "legacy_call")
ChronoEditStages == Stages({"prompt", "image"}, {"image"}, TRUE, "last frame")
\* The scheduler of the request is not looked at: the key always says native.
ChronoEditLoading == Loading({"source", "dtype"}, Named)
ChronoEditPipeline == ChronoEditVariants @@ ChronoEditStages @@ ChronoEditLoading

GeneralistImageModels ==
    {"kolors", "glm-image", "hunyuan-image-2.1", "omnigen", "qwen-image", "sana-1.6b",
     "ovis-image", "hidream-i1", "pixart-sigma", "bria-3.2", "lumina-t2x"}
GeneralistImageEditModels == {"qwen-image-edit", "qwen-image-edit-plus", "qwen-image-layered"}

GeneralistImageVariants ==
    Variants(GeneralistImageModels, "text2image", {"prompt"}, "legacy_call")
GeneralistImageStages == Stages({"prompt"}, {}, TRUE, "images")
GeneralistImageLoading == Loading(CacheKey, Native)
GeneralistImagePipeline ==
    GeneralistImageVariants @@ GeneralistImageStages @@ GeneralistImageLoading

GeneralistImageEditVariants ==
    Variants(GeneralistImageEditModels, "edit", {"image", "prompt"}, "legacy_call")
GeneralistImageEditPipeline ==
    GeneralistImageEditVariants
    @@ Stages({"prompt", "image"}, {"image"}, TRUE, "images") @@ GeneralistImageLoading

TextToVideoModels ==
    {"mochi", "cogvideox-2b", "cogvideox-5b", "kandinsky5-t2v", "hunyuan-video",
     "hunyuan-video-1.5-t2v", "helios-t2v", "sana-video", "ltx-video", "skyreels-v2"}
ImageToVideoModels == {"kandinsky5-i2v", "hunyuan-video-1.5-i2v", "helios-i2v", "ltx2-i2v"}

VideoFamilyVariants ==
    [text2video |-> Variants(TextToVideoModels, "text2video", {"prompt"}, "legacy_call"),
     image2video |-> Variants(ImageToVideoModels, "image2video", {"image", "prompt"}, "legacy_call")]
VideoFamilyStages ==
    [text2video |-> Stages({"prompt"}, {}, TRUE, "video"),
     image2video |-> Stages({"prompt", "image"}, {"image"}, TRUE, "video")]
VideoFamilyLoading == Loading(CacheKey, Native)
VideoFamilyPipeline(task) == VideoFamilyVariants[task] @@ VideoFamilyStages[task] @@ VideoFamilyLoading

----------------------------------------------------------------------------
(* Registered with the modular executor: the engine runs a modular         *)
(* pipeline of the model instead, and the stages of the class run only for *)
(* a caller that makes the class itself and calls run.                     *)

SDXLVariants ==
    Variants({"sdxl-base-1.0", "sdxl-turbo"}, "text2image", {"prompt"}, "modular")
SDXLStages == Stages({"prompt"}, {}, FALSE, "images")
SDXLLoading == Loading(CacheKey, Named)
SDXLPipeline == SDXLVariants @@ SDXLStages @@ SDXLLoading

SDXLImage2ImageVariants ==
    Variants({"sdxl-base-1.0", "sdxl-refiner-1.0"}, "image2image", {"image", "prompt"}, "modular")
SDXLImageToImagePipeline ==
    SDXLImage2ImageVariants @@ Stages({"prompt", "image"}, {"image"}, FALSE, "images") @@ SDXLLoading

SDXLInpaintPipeline ==
    Variants({"sdxl-base-1.0"}, "inpaint", {"image", "mask", "prompt"}, "modular")
    @@ Stages({"prompt", "image", "mask"}, {"image", "mask"}, FALSE, "images") @@ SDXLLoading

FluxVariants == Variants({"flux-dev", "flux-schnell"}, "text2image", {"prompt"}, "modular")
FluxStages == Stages({"prompt"}, {}, FALSE, "images")
FluxLoading == Loading(CacheKey, Native)
FluxPipeline == FluxVariants @@ FluxStages @@ FluxLoading

FluxKontextEditPipeline ==
    Variants({"flux-kontext"}, "edit", {"image", "prompt"}, "modular")
    @@ Stages({"prompt", "image"}, {"image"}, FALSE, "images") @@ FluxLoading

FluxFillPipeline ==
    Variants({"flux-fill"}, "inpaint", {"image", "mask", "prompt"}, "modular")
    @@ Stages({"prompt", "image", "mask"}, {"image", "mask"}, FALSE, "images") @@ FluxLoading

FluxControlEditPipeline ==
    Variants({"flux-depth", "flux-canny"}, "edit", {"image", "prompt"}, "modular")
    @@ Stages({"prompt", "image"}, {"image"}, FALSE, "images") @@ FluxLoading

Flux2Variants == Variants({"flux2.dev", "flux2-dev"}, "text2image", {"prompt"}, "modular")
Flux2Stages == WithoutNegative(Stages({"prompt"}, {}, FALSE, "images"))
Flux2Loading == Loading(CacheKey, Native)
Flux2Pipeline == Flux2Variants @@ Flux2Stages @@ Flux2Loading

WanVariants ==
    [text2video |-> Variants({"wan2.1-t2v-14b", "wan2.2-t2v-14b"}, "text2video", {"prompt"}, "modular"),
     image2video |-> Variants({"wan2.1-i2v-14b", "wan2.2-i2v-14b"}, "image2video",
                              {"image", "prompt"}, "modular")]
WanStages ==
    [text2video |-> Stages({"prompt"}, {}, FALSE, "video"),
     image2video |-> Stages({"prompt", "image"}, {"image"}, FALSE, "video")]
WanLoading == Loading(CacheKey, Native)
WanPipeline(task) == WanVariants[task] @@ WanStages[task] @@ WanLoading

----------------------------------------------------------------------------
PipelineClass ==
    [sd15 |-> SD15Pipeline, sd15_image |-> SD15ImageToImagePipeline, sd15_mask |-> SD15InpaintPipeline,
     sd3 |-> SD3Pipeline, svd |-> SVDPipeline, animatediff |-> AnimateDiffSDXLPipeline,
     chronoedit |-> ChronoEditPipeline, image |-> GeneralistImagePipeline,
     edit |-> GeneralistImageEditPipeline, video |-> VideoFamilyPipeline("text2video"),
     animate |-> VideoFamilyPipeline("image2video"),
     sdxl |-> SDXLPipeline, sdxl_image |-> SDXLImageToImagePipeline, sdxl_mask |-> SDXLInpaintPipeline,
     flux |-> FluxPipeline, flux_edit |-> FluxKontextEditPipeline, flux_fill |-> FluxFillPipeline,
     flux_control |-> FluxControlEditPipeline, flux2 |-> Flux2Pipeline,
     wan |-> WanPipeline("text2video"), wan_image |-> WanPipeline("image2video")]

ClassName == DOMAIN PipelineClass
================================================================================
